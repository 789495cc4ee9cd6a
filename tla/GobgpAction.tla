---------------------------- MODULE GobgpAction ----------------------------
(***************************************************************************)
(* The detached threads of gobgp_action.cpp that drive the lifecycle       *)
(* table, and the GoBGP daemon they call.                                  *)
(*                                                                         *)
(* A thread carries one order (BAN of a rule, UNBAN of a victim, or the    *)
(* results of a refresh capture).  It takes the table's mutex in one step, *)
(* calls GoBGP in another and reports the outcome to the table in a third, *)
(* so the steps of other threads fall between any two of them.  Which      *)
(* orders come, and when, is left open: this module holds for every        *)
(* detector.                                                               *)
(***************************************************************************)
EXTENDS FlowspecLifecycle, Sequences

CONSTANTS
    Workers,        \* thread slots: a bound on how many threads run at once
    RefreshResults, \* what a refresh capture can be classified as
    MaxLate         \* bound on the calls GoBGP executes after their deadline

ProtocolResult == [protocol : Protocols, significant_ports : SUBSET Ports]

ASSUME GobgpActionAssumption ==
    /\ RefreshResults \subseteq Seq(ProtocolResult)
    /\ MaxLate \in Nat

VARIABLES
    order,     \* order[w]: what the thread was started with, until it is consumed
    results,   \* results[w]: protocol results a refresh thread has still to handle
    adds,      \* adds[w]: rules entered as announcing that this thread announces
    dels,      \* dels[w][k]: the UUID of the DeletePath this thread owes for k
    reply,     \* reply[w]: GoBGP's answer, not yet reported to the table
    escalate,  \* escalate[w]: protocol-only rule whose success starts a cleanup
    captures,  \* victims with a reserved capture not handed to a thread yet
    rib,       \* GoBGP's FlowSpec paths
    late,      \* calls past their deadline that GoBGP still executes
    lost,      \* history: UUIDs of paths whose AddPath was reported as failed
    overtaken  \* history: victims UNBANned since their capture was reserved

thread_vars == <<order, results, adds, dels, reply, escalate>>
gobgp_vars  == <<rib, late, lost>>
vars == <<lifecycle_vars, thread_vars, captures, gobgp_vars, overtaken>>

Idle    == [op |-> "idle"]
NoReply == [rpc |-> "none"]
NoDels  == [k \in Keys |-> NoUuid]
Path    == [key : Keys, uuid : Uuids]

Orders ==
    {Idle} \cup [op : {"ban"}, key : Keys] \cup [op : {"unban", "refresh"}, victim : Victims]

Replies ==
    {NoReply} \cup [rpc : {"AddPath"}, key : Keys, uuid : Uuids \cup {NoUuid}]
              \cup [rpc : {"DeletePath"}, key : Keys, status : {"ok", "error"}]

LateCall == [rpc : {"AddPath", "DeletePath"}, key : Keys, uuid : Uuids]

\* The type of every variable: what the table, the threads and GoBGP can hold.
TypeOK ==
    /\ LifecycleTypeOK
    /\ order \in [Workers -> Orders]
    /\ results \in [Workers -> Seq(ProtocolResult)]
    /\ adds \in [Workers -> SUBSET Keys]
    /\ dels \in [Workers -> [Keys -> Uuids \cup {NoUuid}]]
    /\ reply \in [Workers -> Replies]
    /\ escalate \in [Workers -> SUBSET Keys]
    /\ captures \subseteq Victims
    /\ rib \subseteq Path
    /\ late \subseteq LateCall
    /\ lost \subseteq Uuids
    /\ overtaken \subseteq Victims

Init ==
    /\ LifecycleInit
    /\ order = [w \in Workers |-> Idle]
    /\ results = [w \in Workers |-> <<>>]
    /\ adds = [w \in Workers |-> {}]
    /\ dels = [w \in Workers |-> NoDels]
    /\ reply = [w \in Workers |-> NoReply]
    /\ escalate = [w \in Workers |-> {}]
    /\ captures = {}
    /\ rib = {}
    /\ late = {}
    /\ lost = {}
    /\ overtaken = {}

\* The thread is between two rules: nothing to announce, delete, report or clean up.
BetweenRules(w) ==
    /\ adds[w] = {}
    /\ dels[w] = NoDels
    /\ reply[w] = NoReply
    /\ escalate[w] = {}

Free(w) == order[w] = Idle /\ BetweenRules(w)

-----------------------------------------------------------------------------
(* Orders.  gobgp_ban_manage and gobgp_flowspec_refresh_manage_ipv4 run in *)
(* a thread of their own, detached by the caller.                          *)

SpawnBan(w, k) ==
    /\ Free(w)
    /\ order' = [order EXCEPT ![w] = [op |-> "ban", key |-> k]]
    /\ UNCHANGED <<lifecycle_vars, results, adds, dels, reply, escalate, captures,
                   gobgp_vars, overtaken>>

SpawnUnban(w, v) ==
    /\ Free(w)
    /\ order' = [order EXCEPT ![w] = [op |-> "unban", victim |-> v]]
    /\ UNCHANGED <<lifecycle_vars, results, adds, dels, reply, escalate, captures,
                   gobgp_vars, overtaken>>

\* gobgp_flowspec_refresh_begin_ipv4_capture
ReserveCapture(v) ==
    /\ begin_refresh_capture(v)
    /\ captures' = captures \cup {v}
    /\ UNCHANGED <<thread_vars, gobgp_vars, overtaken>>

\* gobgp_flowspec_refresh_complete_ipv4_capture, and a refresh without results
AbandonCapture(v) ==
    /\ v \in captures
    /\ finish_refresh_capture(v)
    /\ captures' = captures \ {v}
    /\ overtaken' = overtaken \ {v}
    /\ UNCHANGED <<thread_vars, gobgp_vars>>

SpawnRefresh(w, v, protocol_results) ==
    /\ Free(w)
    /\ v \in captures
    /\ protocol_results # <<>>
    /\ captures' = captures \ {v}
    /\ order' = [order EXCEPT ![w] = [op |-> "refresh", victim |-> v]]
    /\ results' = [results EXCEPT ![w] = protocol_results]
    /\ UNCHANGED <<lifecycle_vars, adds, dels, reply, escalate, gobgp_vars, overtaken>>

-----------------------------------------------------------------------------
(* gobgp_ban_manage_flowspec_ipv4: one critical section, then the calls.   *)

\* Mutant: the answer of begin_announce is not looked at.
StartBanUnchecked(w) ==
    /\ order[w].op = "ban"
    /\ Emplace({order[w].key})
    /\ adds' = [adds EXCEPT ![w] = {order[w].key}]
    /\ order' = [order EXCEPT ![w] = Idle]
    /\ UNCHANGED <<results, dels, reply, escalate, captures, gobgp_vars, overtaken>>

StartBan(w) ==
    /\ order[w].op = "ban"
    /\ LET announce == begin_announce(order[w].key)
       IN  /\ Emplace(announce)
           /\ adds' = [adds EXCEPT ![w] = announce]
    /\ order' = [order EXCEPT ![w] = Idle]
    /\ UNCHANGED <<results, dels, reply, escalate, captures, gobgp_vars, overtaken>>

\* The DeletePath calls a thread owes after a withdrawal that covers the keys of S.
RequestsOf(S) ==
    [k \in Keys |-> IF k \in withdraw_requests(S) THEN add_path_uuid[k] ELSE NoUuid]

\* Mutant: an UNBAN that finds a DeletePath running starts a second one.
StartUnbanRepeating(w) ==
    /\ order[w].op = "unban"
    /\ LET v == order[w].victim
       IN  /\ begin_withdraw_for_victim(v)
           /\ dels' = [dels EXCEPT ![w] = [k \in Keys |->
                          IF k \in RulesOfVictim(v) THEN add_path_uuid[k] ELSE NoUuid]]
           /\ overtaken' = overtaken \cup ({v} \cap victims_refresh_in_progress)
    /\ order' = [order EXCEPT ![w] = Idle]
    /\ UNCHANGED <<results, adds, reply, escalate, captures, gobgp_vars>>

StartUnban(w) ==
    /\ order[w].op = "unban"
    /\ LET v == order[w].victim
       IN  /\ begin_withdraw_for_victim(v)
           /\ dels' = [dels EXCEPT ![w] = RequestsOf(RulesOfVictim(v))]
           /\ overtaken' = overtaken \cup ({v} \cap victims_refresh_in_progress)
    /\ order' = [order EXCEPT ![w] = Idle]
    /\ UNCHANGED <<results, adds, reply, escalate, captures, gobgp_vars>>

-----------------------------------------------------------------------------
(* gobgp_flowspec_refresh_manage_ipv4: one protocol result after another.  *)

RefreshProtocol(w) ==
    /\ order[w].op = "refresh"
    /\ BetweenRules(w)
    /\ results[w] # <<>>
    /\ LET v        == order[w].victim
           result   == Head(results[w])
           key      == ProtocolOnlyKey(v, result.protocol)
           requests == {PortKey(v, result.protocol, p) : p \in result.significant_ports}
           announce == IF result.protocol = "ICMP"
                       THEN begin_refresh_announce(key)
                       ELSE begin_refresh_protocol_rules(key, requests)
       IN  /\ Emplace(announce)
           /\ adds' = [adds EXCEPT ![w] = announce]
           /\ escalate' = [escalate EXCEPT ![w] =
                              IF result.protocol = "ICMP" THEN {} ELSE announce \cap {key}]
    /\ results' = [results EXCEPT ![w] = Tail(@)]
    /\ UNCHANGED <<order, dels, reply, captures, gobgp_vars, overtaken>>

FinishRefresh(w) ==
    /\ order[w].op = "refresh"
    /\ BetweenRules(w)
    /\ results[w] = <<>>
    /\ finish_refresh_capture(order[w].victim)
    /\ overtaken' = overtaken \ {order[w].victim}
    /\ order' = [order EXCEPT ![w] = Idle]
    /\ UNCHANGED <<results, adds, dels, reply, escalate, captures, gobgp_vars>>

-----------------------------------------------------------------------------
(* GoBGP.  A call that answers with an error may or may not have been      *)
(* executed, and one whose deadline passed may still be executed later.    *)

Answered == {reply[w].uuid : w \in {x \in Workers : reply[x].rpc = "AddPath"}}

UsedUuids ==
    {p.uuid : p \in rib} \cup {c.uuid : c \in late} \cup {add_path_uuid[k] : k \in Keys}
      \cup Answered

\* GoBGP keeps one path per NLRI: AddPath of a key it has replaces the path and its UUID.
PathsOfOthers(k) == {p \in rib : p.key # k}
WithPath(k, u)   == PathsOfOthers(k) \cup {[key |-> k, uuid |-> u]}
LostOfOthers(k)  == lost \cap {p.uuid : p \in PathsOfOthers(k)}

LateAllowed == Cardinality(late) < MaxLate

\* AnnounceFlowSpecIPv4: a success carries the new path's UUID.
AddPath(w, k) ==
    /\ k \in adds[w]
    /\ dels[w] = NoDels
    /\ reply[w] = NoReply
    /\ \/ \E u \in Uuids \ UsedUuids :
            \/ /\ rib' = WithPath(k, u)
               /\ lost' = LostOfOthers(k)
               /\ reply' = [reply EXCEPT ![w] = [rpc |-> "AddPath", key |-> k, uuid |-> u]]
               /\ UNCHANGED late
            \/ /\ rib' = WithPath(k, u)
               /\ lost' = LostOfOthers(k) \cup {u}
               /\ reply' = [reply EXCEPT ![w] = [rpc |-> "AddPath", key |-> k, uuid |-> NoUuid]]
               /\ UNCHANGED late
            \/ /\ LateAllowed
               /\ late' = late \cup {[rpc |-> "AddPath", key |-> k, uuid |-> u]}
               /\ reply' = [reply EXCEPT ![w] = [rpc |-> "AddPath", key |-> k, uuid |-> NoUuid]]
               /\ UNCHANGED <<rib, lost>>
       \/ /\ reply' = [reply EXCEPT ![w] = [rpc |-> "AddPath", key |-> k, uuid |-> NoUuid]]
          /\ UNCHANGED gobgp_vars
    /\ UNCHANGED <<lifecycle_vars, order, results, adds, dels, escalate, captures, overtaken>>

Without(u) == {p \in rib : p.uuid # u}

\* WithdrawFlowSpecIPv4: the path is named by its UUID alone.
DeletePath(w, k) ==
    /\ dels[w][k] # NoUuid
    /\ reply[w] = NoReply
    /\ \/ /\ rib' = Without(dels[w][k])
          /\ \E status \in {"ok", "error"} :
               reply' = [reply EXCEPT ![w] = [rpc |-> "DeletePath", key |-> k, status |-> status]]
          /\ UNCHANGED late
       \/ /\ reply' = [reply EXCEPT ![w] = [rpc |-> "DeletePath", key |-> k, status |-> "error"]]
          /\ UNCHANGED <<rib, late>>
       \/ /\ LateAllowed
          /\ late' = late \cup {[rpc |-> "DeletePath", key |-> k, uuid |-> dels[w][k]]}
          /\ reply' = [reply EXCEPT ![w] = [rpc |-> "DeletePath", key |-> k, status |-> "error"]]
          /\ UNCHANGED rib
    /\ UNCHANGED <<lifecycle_vars, order, results, adds, dels, escalate, captures, lost,
                   overtaken>>

\* GoBGP executes, or drops, a call whose caller gave up on it.
ExecuteLate(c) ==
    /\ c \in late
    /\ late' = late \ {c}
    /\ \/ /\ c.rpc = "AddPath"
          /\ rib' = WithPath(c.key, c.uuid)
          /\ lost' = LostOfOthers(c.key) \cup {c.uuid}
       \/ /\ c.rpc = "DeletePath"
          /\ rib' = Without(c.uuid)
          /\ UNCHANGED lost
       \/ UNCHANGED <<rib, lost>>
    /\ UNCHANGED <<lifecycle_vars, thread_vars, captures, overtaken>>

-----------------------------------------------------------------------------
(* Reporting the answer to the table.                                      *)

\* announce_gobgp_flowspec_ipv4_rule after AnnounceFlowSpecIPv4 returned: a failed call
\* or an empty UUID forgets the rule; an UNBAN or a cleanup that came meanwhile makes
\* this thread delete the path it just added.
ReportAdd(w) ==
    /\ reply[w].rpc = "AddPath"
    /\ LET k == reply[w].key
           u == reply[w].uuid
           withdraw_required == u # NoUuid /\ announce_completion(k) = "withdraw_required"
           installed         == u # NoUuid /\ announce_completion(k) = "installed"
       IN  /\ IF u = NoUuid THEN fail_announce(k) ELSE complete_announce(k, u)
           /\ adds' = [adds EXCEPT ![w] = @ \ {k}]
           /\ dels' = [dels EXCEPT ![w][k] = IF withdraw_required THEN u ELSE @]
           /\ escalate' = [escalate EXCEPT ![w] = IF installed THEN @ ELSE {}]
    /\ reply' = [reply EXCEPT ![w] = NoReply]
    /\ UNCHANGED <<order, results, captures, gobgp_vars, overtaken>>

\* The escalation's AddPath was confirmed: withdraw the port rules it covers.
CleanupRedundantPorts(w, k) ==
    /\ k \in escalate[w]
    /\ adds[w] = {}
    /\ dels[w] = NoDels
    /\ reply[w] = NoReply
    /\ begin_protocol_only_escalation_cleanup(k)
    /\ dels' = [dels EXCEPT ![w] = RequestsOf(EscalationCleanup(k))]
    /\ escalate' = [escalate EXCEPT ![w] = {}]
    /\ UNCHANGED <<order, results, adds, reply, captures, gobgp_vars, overtaken>>

\* Mutant: the thread keeps calling until DeletePath succeeds.
ReportDeleteRetrying(w) ==
    /\ reply[w].rpc = "DeletePath"
    /\ LET k == reply[w].key
       IN  IF reply[w].status = "ok"
           THEN /\ complete_withdraw(k, dels[w][k], TRUE)
                /\ dels' = [dels EXCEPT ![w][k] = NoUuid]
           ELSE UNCHANGED <<lifecycle_vars, dels>>
    /\ reply' = [reply EXCEPT ![w] = NoReply]
    /\ UNCHANGED <<order, results, adds, escalate, captures, gobgp_vars, overtaken>>

\* withdraw_gobgp_flowspec_ipv4_rule after WithdrawFlowSpecIPv4 returned.
ReportDelete(w) ==
    /\ reply[w].rpc = "DeletePath"
    /\ LET k == reply[w].key
       IN  /\ complete_withdraw(k, dels[w][k], reply[w].status = "ok")
           /\ dels' = [dels EXCEPT ![w][k] = NoUuid]
    /\ reply' = [reply EXCEPT ![w] = NoReply]
    /\ UNCHANGED <<order, results, adds, escalate, captures, gobgp_vars, overtaken>>

-----------------------------------------------------------------------------

ThreadStep(w) ==
    \/ StartBan(w)
    \/ StartUnban(w)
    \/ RefreshProtocol(w)
    \/ FinishRefresh(w)
    \/ \E k \in Keys : AddPath(w, k) \/ DeletePath(w, k) \/ CleanupRedundantPorts(w, k)
    \/ ReportAdd(w)
    \/ ReportDelete(w)

Environment ==
    \/ \E w \in Workers :
         \/ \E k \in Keys : SpawnBan(w, k)
         \/ \E v \in Victims :
              \/ SpawnUnban(w, v)
              \/ \E r \in RefreshResults : SpawnRefresh(w, v, r)
    \/ \E v \in Victims : ReserveCapture(v) \/ AbandonCapture(v)
    \/ \E c \in late : ExecuteLate(c)

Next == Environment \/ \E w \in Workers : ThreadStep(w)

Spec == Init /\ [][Next]_vars

(***************************************************************************)
(* A thread that can step steps: the mutex is held for bounded work and    *)
(* every call to GoBGP returns within gobgp_client_connection_timeout.  A  *)
(* reserved capture ends: the bucket fills or remove_orphaned_buckets      *)
(* drops it after a maximum age.                                           *)
(***************************************************************************)
Fairness ==
    /\ \A w \in Workers : WF_vars(ThreadStep(w))
    /\ \A v \in Victims :
         WF_vars(AbandonCapture(v) \/ \E w \in Workers, r \in RefreshResults : SpawnRefresh(w, v, r))

FairSpec == Spec /\ Fairness

-----------------------------------------------------------------------------
(* Ownership.  The table is shared, but each unfinished AddPath, DeletePath  *)
(* and refresh belongs to one thread.                                        *)

AddPending(k) ==
    \/ rule_state[k] = "announcing"
    \/ rule_state[k] = "withdraw_requested" /\ add_path_uuid[k] = NoUuid

\* A rule waits for an AddPath exactly when one thread, and only one, is going to
\* report that AddPath: no rule is stranded and none is announced twice
\* (begin_announce, begin_refresh_protocol_rules, fail_announce, complete_announce).
OneAnnouncer ==
    /\ \A k \in Keys : AddPending(k) <=> \E w \in Workers : k \in adds[w]
    /\ \A w, x \in Workers : w # x => adds[w] \cap adds[x] = {}

\* A rule is withdrawing exactly when one thread, and only one, owes its DeletePath, and
\* that thread holds the UUID the table holds (begin_withdraw_for_victim,
\* begin_protocol_only_escalation_cleanup, complete_announce, complete_withdraw).
OneDeleter ==
    /\ \A k \in Keys :
         rule_state[k] = "withdrawing" <=> \E w \in Workers : dels[w][k] # NoUuid
    /\ \A w \in Workers, k \in Keys :
         dels[w][k] # NoUuid =>
           /\ dels[w][k] = add_path_uuid[k]
           /\ \A x \in Workers : x # w => dels[x][k] = NoUuid

\* The branches that log "lifecycle state was not updated" and "lifecycle state was not
\* erased" are never reached: the table never ignores what a thread reports.
NoIgnoredCompletion ==
    \A w \in Workers :
      /\ reply[w].rpc = "AddPath" => announce_completion(reply[w].key) # "ignored"
      /\ reply[w].rpc = "DeletePath" =>
           /\ rule_state[reply[w].key] = "withdrawing"
           /\ add_path_uuid[reply[w].key] = dels[w][reply[w].key]

\* A victim is in victims_refresh_in_progress exactly when one capture or one refresh
\* thread will finish that refresh: the reservation neither leaks nor is shared.
OneRefresh ==
    /\ \A v \in Victims :
         v \in victims_refresh_in_progress <=>
           \/ v \in captures
           \/ \E w \in Workers : order[w] = [op |-> "refresh", victim |-> v]
    /\ \A w \in Workers :
         order[w].op = "refresh" =>
           /\ order[w].victim \notin captures
           /\ \A x \in Workers : x # w => order[x] # order[w]

-----------------------------------------------------------------------------
(* The table and GoBGP.                                                      *)

\* Every path in GoBGP can still be withdrawn by its UUID (the table holds it, or a
\* thread is about to report it), unless its AddPath was answered with an error.
PathsTracked ==
    \A p \in rib :
      \/ p.uuid \in lost
      \/ add_path_uuid[p.key] = p.uuid
      \/ \E w \in Workers : reply[w] = [rpc |-> "AddPath", key |-> p.key, uuid |-> p.uuid]

\* GoBGP has a path of the rule, under the UUID u or under one that nobody was told.
Held(k, u) == \E p \in rib : p.key = k /\ (p.uuid = u \/ p.uuid \in lost)

\* A rule the table calls installed is in GoBGP, late calls notwithstanding: under the
\* UUID the table holds, unless an AddPath of the same rule that was answered with an
\* error was executed after all and put its own UUID in the place of the table's.
InstalledInRib == \A k \in Keys : rule_state[k] = "installed" => Held(k, add_path_uuid[k])

\* Only a broader path or an UNBAN takes a match away: while the victim is not fenced,
\* a path leaves GoBGP only if its protocol-only path is there (escalation cleanup).
CoverageKept ==
    [][\A p \in rib :
         \/ p.key.destination_ipv4 \in victims_withdraw_requested
         \/ \E q \in rib' : q.key \in {p.key, ProtocolOnlyKey(p.key.destination_ipv4, p.key.protocol)}
      ]_vars

-----------------------------------------------------------------------------
(* UNBAN and refresh.                                                        *)

\* A refresh reserved before an UNBAN adds nothing after it, however late it runs.
NoPathAfterUnban ==
    \A k \in Keys :
      k.destination_ipv4 \in overtaken => rule_state[k] \notin {"announcing", "installed"}

\* A refresh never takes a victim and protocol over the configured number of port rules,
\* whatever other threads are announcing at that moment.
RefreshRespectsLimit ==
    [][\A w \in Workers : RefreshProtocol(w) =>
         \A v \in Victims, proto \in PortProtocols :
           LET count == Cardinality({p \in Ports : rule_state[PortKey(v, proto, p)] # "absent"})
           IN  count' <= MaxPortRules \/ count' <= count
      ]_vars

\* The threads use the table only through its methods, and call the escalation cleanup
\* with protocol-only keys alone: what holds of LifecycleSpec holds here.
UsesTableMethods == LifecycleSpec

-----------------------------------------------------------------------------
(* What the invariants above rest on: with the first two the ownership       *)
(* invariants are inductive (see GobgpActionProofs); the last three          *)
(* strengthen those about GoBGP's paths.                                     *)

\* Where a thread can be: it has not started its order, or it is working one off.
ThreadShape ==
    \A w \in Workers :
      /\ order[w].op \in {"ban", "unban"} => BetweenRules(w)
      /\ reply[w].rpc = "AddPath" => reply[w].key \in adds[w] /\ dels[w] = NoDels
      /\ reply[w].rpc = "DeletePath" => dels[w][reply[w].key] # NoUuid
      /\ \A k \in escalate[w] : k.destination_port = NoPort /\ k.protocol \in PortProtocols

\* An overtaken refresh is still fenced, and still reserved.
OvertakenFenced ==
    overtaken \subseteq victims_withdraw_requested \cap victims_refresh_in_progress

\* A UUID names one path, and so does a key: no two rules, paths or calls share a UUID.
UuidsUnique ==
    /\ \A k, m \in Keys : add_path_uuid[k] = add_path_uuid[m] => k = m \/ add_path_uuid[k] = NoUuid
    /\ \A p, q \in rib : p.uuid = q.uuid \/ p.key = q.key => p = q
    /\ \A p \in rib, k \in Keys : p.uuid = add_path_uuid[k] => p.key = k /\ p.uuid \notin lost
    /\ lost \subseteq {p.uuid : p \in rib}

\* A confirmed path is in GoBGP until its rule is withdrawn, if only under the UUID of a
\* late call: such a call can only put a lost path in the place of one of the same rule,
\* or take away one that is being withdrawn.
ReplyInRib ==
    \A w \in Workers :
      /\ reply[w].rpc = "AddPath" /\ reply[w].uuid # NoUuid =>
           /\ Held(reply[w].key, reply[w].uuid)
           /\ \A p \in rib : p.uuid = reply[w].uuid => p.key = reply[w].key
           /\ reply[w].uuid \notin lost \cup {c.uuid : c \in late}
           /\ reply[w].uuid \notin {add_path_uuid[k] : k \in Keys}
           /\ \A x \in Workers :
                x # w /\ reply[x].rpc = "AddPath" => reply[x].uuid # reply[w].uuid
      /\ reply[w].rpc = "DeletePath" /\ reply[w].status = "ok" =>
           \A p \in rib : p.uuid # dels[w][reply[w].key]

LateShape ==
    \A c \in late :
      /\ c.rpc = "AddPath" =>
           /\ \A p \in rib : p.uuid # c.uuid
           /\ \A k \in Keys : add_path_uuid[k] # c.uuid
           /\ \A d \in late : d.uuid = c.uuid => d = c
      /\ c.rpc = "DeletePath" =>
           /\ \A k \in Keys : add_path_uuid[k] = c.uuid =>
                rule_state[k] \in {"withdraw_requested", "withdrawing"}
           /\ \A p \in rib : p.uuid = c.uuid => add_path_uuid[p.key] = p.uuid

-----------------------------------------------------------------------------
(* Liveness.                                                                 *)

\* No thread runs for ever, whatever GoBGP answers.
ThreadsFinish == \A w \in Workers : ~Free(w) ~> Free(w)

\* A victim's fence comes down, unless a DeletePath failed: that rule waits for the next
\* UNBAN, since nothing else retries it.
FenceReleased ==
    \A v \in Victims :
      v \in victims_withdraw_requested ~>
        \/ v \notin victims_withdraw_requested
        \/ \E k \in RulesOfVictim(v) :
             rule_state[k] = "withdraw_requested" /\ add_path_uuid[k] # NoUuid

=============================================================================
