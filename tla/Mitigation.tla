----------------------------- MODULE Mitigation -----------------------------
(***************************************************************************)
(* Who orders the BANs, UNBANs and refreshes: the detector (the callback   *)
(* of the speed recalculation thread), the packet buckets and the thread   *)
(* that looks after them, the ban list with its cleanup thread, and the    *)
(* gRPC API.  Composed with GobgpAction, whose threads they start.         *)
(*                                                                         *)
(* The ban list, the bucket map and the lifecycle table have a mutex each; *)
(* a caller that needs two of them takes one after the other, so it takes  *)
(* two steps.  Clocks and traffic are left open: an age or a ban time may  *)
(* have passed or not, a threshold may be exceeded or not.                 *)
(***************************************************************************)
EXTENDS GobgpAction

CONSTANTS
    BanProtocols,    \* protocols detect_attack_protocol can answer, or NoProtocol
    ApiCalls,        \* gRPC calls served at the same time
    BufferCapacity,  \* ban_details_records_count: packets in a bucket
    RefreshEnabled,  \* gobgp_flowspec_rule_refresh
    UnbanEnabled     \* unban_enabled

ASSUME MitigationAssumption ==
    /\ BanProtocols \subseteq Protocols \cup {NoProtocol}
    /\ BufferCapacity \in Nat
    /\ RefreshEnabled \in BOOLEAN
    /\ UnbanEnabled \in BOOLEAN

VARIABLES
    ban_list,         \* ban_list_ipv4: who banned the victim, or "none"
    buckets,          \* packet_buckets_ipv4_storage
    detector,         \* how far the callback for one victim has come
    loop_pc,          \* check_traffic_buckets: the phase the thread is in
    todo,             \* victims this phase has still to handle
    current,          \* the victim between two steps of a phase, at most one
    refresh_buckets,  \* victims whose filled refresh bucket was taken out
    cleaner_pc,       \* cleanup_ban_list
    candidates,       \* entries of its copy that it has not looked at
    erase,            \* ban_list_items_for_erase
    api               \* api[c]: how far a gRPC call has come

loop_vars    == <<loop_pc, todo, current, refresh_buckets>>
cleaner_vars == <<cleaner_pc, candidates, erase>>
mitigation_vars == <<ban_list, buckets, detector, loop_vars, cleaner_vars, api>>
all_vars == <<vars, mitigation_vars>>

NoBucket == [pattern |-> "none", full |-> FALSE]

NewBucket(pattern) == [pattern |-> pattern, full |-> BufferCapacity = 0]
BucketPatterns == {"ONCE", "FLOW_SPEC_REFRESH_ONCE"}
NotRunning == [pc |-> "idle"]

MitigationInit ==
    /\ Init
    /\ ban_list = [v \in Victims |-> "none"]
    /\ buckets = [v \in Victims |-> NoBucket]
    /\ detector = NotRunning
    /\ loop_pc = "sleep"
    /\ todo = {}
    /\ current = {}
    /\ refresh_buckets = {}
    /\ cleaner_pc = "sleep"
    /\ candidates = {}
    /\ erase = {}
    /\ api = [c \in ApiCalls |-> NotRunning]

\* The bucket thread holds the mutex of the bucket map while it removes orphans and
\* again while it handles filled buckets, the calls it makes for them included.
BucketsUnlocked == loop_pc \notin {"orphans", "filled", "call_ban"}

\* The rule a BAN announces: of an API call destination-only, since its attack details
\* name no protocol; of the detector any rule for the protocol it found.
ManualKey(v) == ProtocolOnlyKey(v, NoProtocol)
AutomaticKeys(v) == {k \in RulesOfVictim(v) : k.protocol \in BanProtocols}

-----------------------------------------------------------------------------
(* speed_calculation_callback_local_ipv4 for a victim over its threshold:  *)
(* is there a bucket, is it banned, and only then a new bucket.            *)

\* Mutant: the check for a bucket is left to enable_packet_capture.
DetectorTrustingEnable(v) ==
    /\ detector = NotRunning
    /\ detector' = [pc |-> "no_bucket", victim |-> v]
    /\ UNCHANGED <<vars, ban_list, buckets, loop_vars, cleaner_vars, api>>

DetectorCheckBucket(v) ==
    /\ detector = NotRunning
    /\ BucketsUnlocked
    /\ buckets[v] = NoBucket
    /\ detector' = [pc |-> "no_bucket", victim |-> v]
    /\ UNCHANGED <<vars, ban_list, buckets, loop_vars, cleaner_vars, api>>

DetectorCheckBanList ==
    /\ detector.pc = "no_bucket"
    /\ detector' = IF ban_list[detector.victim] = "none"
                   THEN [detector EXCEPT !.pc = "not_banned"] ELSE NotRunning
    /\ UNCHANGED <<vars, ban_list, buckets, loop_vars, cleaner_vars, api>>

\* enable_packet_capture, which refuses a victim that has a bucket by now.
DetectorEnableCapture ==
    /\ detector.pc = "not_banned"
    /\ BucketsUnlocked
    /\ buckets' = [buckets EXCEPT ![detector.victim] =
                     IF @ = NoBucket THEN NewBucket("ONCE") ELSE @]
    /\ detector' = NotRunning
    /\ UNCHANGED <<vars, ban_list, loop_vars, cleaner_vars, api>>

\* add_packet_to_storage: the packet that fills the bucket.
CollectLastPacket(v) ==
    /\ BucketsUnlocked
    /\ buckets[v] # NoBucket
    /\ ~buckets[v].full
    /\ buckets' = [buckets EXCEPT ![v].full = TRUE]
    /\ UNCHANGED <<vars, ban_list, detector, loop_vars, cleaner_vars, api>>

-----------------------------------------------------------------------------
(* check_traffic_buckets: orphans, filled buckets, refresh captures.       *)

WakeUp ==
    /\ loop_pc = "sleep"
    /\ loop_pc' = "orphans"
    /\ UNCHANGED <<vars, ban_list, buckets, detector, todo, current, refresh_buckets,
                   cleaner_vars, api>>

\* Mutant: an orphaned refresh bucket goes and its reservation stays.
RemoveOrphanForgetting(v) ==
    /\ loop_pc = "orphans"
    /\ buckets[v] # NoBucket
    /\ ~buckets[v].full
    /\ buckets' = [buckets EXCEPT ![v] = NoBucket]
    /\ UNCHANGED <<vars, ban_list, detector, loop_vars, cleaner_vars, api>>

\* remove_orphaned_buckets, for a bucket that is too old and not full.
RemoveOrphan(v) ==
    /\ loop_pc = "orphans"
    /\ buckets[v] # NoBucket
    /\ ~buckets[v].full
    /\ IF buckets[v].pattern = "FLOW_SPEC_REFRESH_ONCE"
       THEN AbandonCapture(v) ELSE UNCHANGED vars
    /\ buckets' = [buckets EXCEPT ![v] = NoBucket]
    /\ UNCHANGED <<ban_list, detector, loop_vars, cleaner_vars, api>>

\* The mutex is released, and taken again by process_filled_buckets_ipv4.
OrphansDone ==
    /\ loop_pc = "orphans"
    /\ loop_pc' = "swept"
    /\ UNCHANGED <<vars, ban_list, buckets, detector, todo, current, refresh_buckets,
                   cleaner_vars, api>>

\* Mutant: only buckets of new attacks are looked for, as process_filled_buckets_ipv6 does.
FindFilledOnceOnly ==
    /\ loop_pc = "swept"
    /\ loop_pc' = "filled"
    /\ todo' = {v \in Victims : buckets[v].full /\ buckets[v].pattern = "ONCE"}
    /\ UNCHANGED <<vars, ban_list, buckets, detector, current, refresh_buckets,
                   cleaner_vars, api>>

\* process_filled_buckets_ipv4 lists the filled buckets first.
FindFilled ==
    /\ loop_pc = "swept"
    /\ loop_pc' = "filled"
    /\ todo' = {v \in Victims : buckets[v].full}
    /\ UNCHANGED <<vars, ban_list, buckets, detector, current, refresh_buckets,
                   cleaner_vars, api>>

TakeRefreshBucket(v) ==
    /\ loop_pc = "filled"
    /\ v \in todo
    /\ buckets[v].pattern = "FLOW_SPEC_REFRESH_ONCE"
    /\ refresh_buckets' = refresh_buckets \cup {v}
    /\ buckets' = [buckets EXCEPT ![v] = NoBucket]
    /\ todo' = todo \ {v}
    /\ UNCHANGED <<vars, ban_list, detector, loop_pc, current, cleaner_vars, api>>

\* execute_ipv4_ban: the ban list first, the actions after it.
AddToBlackhole(v) ==
    /\ loop_pc = "filled"
    /\ v \in todo
    /\ buckets[v].pattern = "ONCE"
    /\ ban_list' = [ban_list EXCEPT ![v] = "Automatic"]
    /\ todo' = todo \ {v}
    /\ current' = {v}
    /\ loop_pc' = "call_ban"
    /\ UNCHANGED <<vars, buckets, detector, refresh_buckets, cleaner_vars, api>>

CallBanActions(v, w, k) ==
    /\ loop_pc = "call_ban"
    /\ v \in current
    /\ k \in AutomaticKeys(v)
    /\ SpawnBan(w, k)
    /\ buckets' = [buckets EXCEPT ![v] = NoBucket]
    /\ current' = {}
    /\ loop_pc' = "filled"
    /\ UNCHANGED <<ban_list, detector, todo, refresh_buckets, cleaner_vars, api>>

FilledDone ==
    /\ loop_pc = "filled"
    /\ todo = {}
    /\ loop_pc' = "refreshes"
    /\ UNCHANGED <<vars, ban_list, buckets, detector, todo, current, refresh_buckets,
                   cleaner_vars, api>>

\* gobgp_flowspec_refresh_process_ipv4_capture: nothing to announce (no speed, no active
\* protocol, no classified protocol), or a refresh thread with the results.
ProcessRefreshBucket(v) ==
    /\ loop_pc = "refreshes"
    /\ v \in refresh_buckets
    /\ \/ AbandonCapture(v)
       \/ \E w \in Workers, r \in RefreshResults : SpawnRefresh(w, v, r)
    /\ refresh_buckets' = refresh_buckets \ {v}
    /\ UNCHANGED <<ban_list, buckets, detector, loop_pc, todo, current, cleaner_vars, api>>

\* schedule_gobgp_flowspec_refresh_captures copies the ban list and works on the copy.
StartSchedule ==
    /\ loop_pc = "refreshes"
    /\ refresh_buckets = {}
    /\ IF RefreshEnabled
       THEN loop_pc' = "schedule" /\ todo' = {v \in Victims : ban_list[v] # "none"}
       ELSE loop_pc' = "sleep" /\ UNCHANGED todo
    /\ UNCHANGED <<vars, ban_list, buckets, detector, current, refresh_buckets,
                   cleaner_vars, api>>

\* Too early after the last capture, a bucket in place, or no active protocol.
SkipVictim(v) ==
    /\ loop_pc = "schedule"
    /\ v \in todo
    /\ todo' = todo \ {v}
    /\ UNCHANGED <<vars, ban_list, buckets, detector, loop_pc, current, refresh_buckets,
                   cleaner_vars, api>>

ScheduleVictim(v) ==
    /\ loop_pc = "schedule"
    /\ v \in todo
    /\ buckets[v] = NoBucket
    /\ todo' = todo \ {v}
    /\ current' = {v}
    /\ loop_pc' = "begin_capture"
    /\ UNCHANGED <<vars, ban_list, buckets, detector, refresh_buckets, cleaner_vars, api>>

BeginCapture(v) ==
    /\ loop_pc = "begin_capture"
    /\ v \in current
    /\ IF CaptureAllowed(v)
       THEN ReserveCapture(v) /\ loop_pc' = "enable_capture" /\ UNCHANGED current
       ELSE UNCHANGED vars /\ loop_pc' = "schedule" /\ current' = {}
    /\ UNCHANGED <<ban_list, buckets, detector, todo, refresh_buckets, cleaner_vars, api>>

EnableRefreshCapture(v) ==
    /\ loop_pc = "enable_capture"
    /\ v \in current
    /\ IF buckets[v] = NoBucket
       THEN /\ buckets' = [buckets EXCEPT ![v] = NewBucket("FLOW_SPEC_REFRESH_ONCE")]
            /\ UNCHANGED vars
       ELSE AbandonCapture(v) /\ UNCHANGED buckets
    /\ loop_pc' = "schedule"
    /\ current' = {}
    /\ UNCHANGED <<ban_list, detector, todo, refresh_buckets, cleaner_vars, api>>

ScheduleDone ==
    /\ loop_pc = "schedule"
    /\ todo = {}
    /\ loop_pc' = "sleep"
    /\ UNCHANGED <<vars, ban_list, buckets, detector, todo, current, refresh_buckets,
                   cleaner_vars, api>>

-----------------------------------------------------------------------------
(* cleanup_ban_list and execute_unban_operation_ipv4.                      *)

\* The copy, without the permanent and the manual bans.
CopyBanList ==
    /\ cleaner_pc = "sleep"
    /\ cleaner_pc' = "unban"
    /\ candidates' = {v \in Victims : UnbanEnabled /\ ban_list[v] = "Automatic"}
    /\ UNCHANGED <<vars, ban_list, buckets, detector, loop_vars, erase, api>>

\* The ban time has not passed, or the attack is not over.
KeepBan(v) ==
    /\ v \in candidates
    /\ candidates' = candidates \ {v}
    /\ UNCHANGED <<vars, ban_list, buckets, detector, loop_vars, cleaner_pc, erase, api>>

CallUnbanActions(v, w) ==
    /\ v \in candidates
    /\ SpawnUnban(w, v)
    /\ candidates' = candidates \ {v}
    /\ erase' = erase \cup {v}
    /\ UNCHANGED <<ban_list, buckets, detector, loop_vars, cleaner_pc, api>>

\* After the last candidate the unbanned victims leave the ban list.
EraseBan(v) ==
    /\ cleaner_pc = "unban"
    /\ candidates = {}
    /\ v \in erase
    /\ ban_list' = [ban_list EXCEPT ![v] = "none"]
    /\ erase' = erase \ {v}
    /\ UNCHANGED <<vars, buckets, detector, loop_vars, cleaner_pc, candidates, api>>

CleanupDone ==
    /\ cleaner_pc = "unban"
    /\ candidates = {}
    /\ erase = {}
    /\ cleaner_pc' = "sleep"
    /\ UNCHANGED <<vars, ban_list, buckets, detector, loop_vars, candidates, erase, api>>

-----------------------------------------------------------------------------
(* ExecuteBan and ExecuteUnBan of the gRPC API.                            *)

ApiBan(c, v) ==
    /\ api[c] = NotRunning
    /\ ban_list' = [ban_list EXCEPT ![v] = "Manual"]
    /\ api' = [api EXCEPT ![c] = [pc |-> "call_ban", victim |-> v]]
    /\ UNCHANGED <<vars, buckets, detector, loop_vars, cleaner_vars>>

ApiCallBan(c, w) ==
    /\ api[c].pc = "call_ban"
    /\ SpawnBan(w, ManualKey(api[c].victim))
    /\ api' = [api EXCEPT ![c] = NotRunning]
    /\ UNCHANGED <<ban_list, buckets, detector, loop_vars, cleaner_vars>>

ApiUnban(c, v) ==
    /\ api[c] = NotRunning
    /\ ban_list[v] # "none"
    /\ api' = [api EXCEPT ![c] = [pc |-> "details", victim |-> v]]
    /\ UNCHANGED <<vars, ban_list, buckets, detector, loop_vars, cleaner_vars>>

ApiUnbanDetails(c) ==
    /\ api[c].pc = "details"
    /\ api' = [api EXCEPT ![c] = IF ban_list[api[c].victim] = "none"
                                 THEN NotRunning ELSE [@ EXCEPT !.pc = "remove"]]
    /\ UNCHANGED <<vars, ban_list, buckets, detector, loop_vars, cleaner_vars>>

ApiUnbanRemove(c) ==
    /\ api[c].pc = "remove"
    /\ ban_list' = [ban_list EXCEPT ![api[c].victim] = "none"]
    /\ api' = [api EXCEPT ![c].pc = "call_unban"]
    /\ UNCHANGED <<vars, buckets, detector, loop_vars, cleaner_vars>>

ApiCallUnban(c, w) ==
    /\ api[c].pc = "call_unban"
    /\ SpawnUnban(w, api[c].victim)
    /\ api' = [api EXCEPT ![c] = NotRunning]
    /\ UNCHANGED <<ban_list, buckets, detector, loop_vars, cleaner_vars>>

-----------------------------------------------------------------------------

Detector ==
    \/ \E v \in Victims : DetectorCheckBucket(v)
    \/ DetectorCheckBanList
    \/ DetectorEnableCapture

BucketLoop ==
    \/ WakeUp
    \/ OrphansDone
    \/ FindFilled
    \/ FilledDone
    \/ StartSchedule
    \/ ScheduleDone
    \/ \E v \in Victims :
         \/ RemoveOrphan(v)
         \/ TakeRefreshBucket(v)
         \/ AddToBlackhole(v)
         \/ \E w \in Workers, k \in Keys : CallBanActions(v, w, k)
         \/ ProcessRefreshBucket(v)
         \/ SkipVictim(v)
         \/ ScheduleVictim(v)
         \/ BeginCapture(v)
         \/ EnableRefreshCapture(v)

Cleaner ==
    \/ CopyBanList
    \/ CleanupDone
    \/ \E v \in Victims :
         \/ KeepBan(v)
         \/ \E w \in Workers : CallUnbanActions(v, w)
         \/ EraseBan(v)

Api ==
    \E c \in ApiCalls :
      \/ \E v \in Victims : ApiBan(c, v) \/ ApiUnban(c, v)
      \/ ApiUnbanDetails(c)
      \/ ApiUnbanRemove(c)
      \/ \E w \in Workers : ApiCallBan(c, w) \/ ApiCallUnban(c, w)

\* The threads of GobgpAction, and GoBGP's late calls, run beside all of this.
GobgpStep ==
    /\ \/ \E w \in Workers : ThreadStep(w)
       \/ \E c \in late : ExecuteLate(c)
    /\ UNCHANGED mitigation_vars

MitigationNext ==
    \/ Detector
    \/ \E v \in Victims : CollectLastPacket(v)
    \/ BucketLoop
    \/ Cleaner
    \/ Api
    \/ GobgpStep

MitigationSpec == MitigationInit /\ [][MitigationNext]_all_vars

(***************************************************************************)
(* Every thread of the process keeps running.  A packet may never come and *)
(* a bucket may never get old enough, but one of the two happens; WF of    *)
(* the loop alone would let it leave a young bucket for ever.              *)
(***************************************************************************)
MitigationFairness ==
    /\ \A w \in Workers : WF_all_vars(ThreadStep(w) /\ UNCHANGED mitigation_vars)
    /\ WF_all_vars(BucketLoop)
    /\ WF_all_vars(Cleaner)
    /\ \A v \in Victims :
         SF_all_vars(RemoveOrphan(v) \/ CollectLastPacket(v))

FairMitigationSpec == MitigationSpec /\ MitigationFairness

-----------------------------------------------------------------------------
(* Properties.                                                               *)

\* A refresh is reserved in the lifecycle table exactly while its bucket exists, or the
\* bucket thread holds it (begin and enable of the scheduler, the buckets taken out):
\* neither a reservation nor a refresh bucket is left behind by orphan removal, by a
\* refused enable_packet_capture or by a capture without results.
CapturesAccounted ==
    \A v \in Victims :
      v \in captures <=>
        \/ buckets[v].pattern = "FLOW_SPEC_REFRESH_ONCE"
        \/ v \in refresh_buckets
        \/ loop_pc = "enable_capture" /\ v \in current

\* The detector never starts a capture for a victim that is banned automatically, so an
\* attack is not banned, reported and announced a second time.  It takes the order of its
\* checks, first the bucket, then the ban list, against the opposite order of the bucket
\* thread.
AutomaticBanOnce ==
    \A v \in Victims :
      buckets[v].pattern = "ONCE" /\ ban_list[v] = "Automatic" =>
        loop_pc = "call_ban" /\ v \in current

\* A reserved capture is handed to a refresh thread or given up: the assumption that
\* GobgpAction's Fairness makes about its environment.
CapturesEnd == \A v \in Victims : v \in captures ~> v \notin captures

\* A detected attack is banned, or its bucket is dropped as an orphan.
BucketsEnd == \A v \in Victims : buckets[v] # NoBucket ~> buckets[v] = NoBucket

-----------------------------------------------------------------------------
(* What the documentation claims and the threads do not keep.                *)

\* No thread has anything left to do for v, and no capture is running.
Quiet(v) ==
    /\ \A w \in Workers : Free(w)
    /\ buckets[v] = NoBucket
    /\ loop_pc = "sleep"
    /\ cleaner_pc = "sleep"
    /\ \A c \in ApiCalls : api[c] = NotRunning

\* Claim: "UNBAN withdraws all FlowSpec paths for the victim."
UnbanWithdrawsAll ==
    \A v \in Victims :
      Quiet(v) /\ ban_list[v] = "none" =>
        \A k \in RulesOfVictim(v) : rule_state[k] # "installed"

\* Claim: "This IP banned manually and we should not unban it automatically".
ManualBanKept ==
    [][\A v \in Victims : Cleaner /\ ban_list[v] = "Manual" => ban_list'[v] = "Manual"]_all_vars

=============================================================================
