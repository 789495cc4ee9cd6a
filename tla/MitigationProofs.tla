-------------------------- MODULE MitigationProofs --------------------------
(***************************************************************************)
(* Theorems about Mitigation: the detector, the bucket thread, the cleanup *)
(* thread and the gRPC API, composed with the threads they start.          *)
(***************************************************************************)
EXTENDS Mitigation, GobgpActionProofs

(***************************************************************************)
(* Types.                                                                  *)
(***************************************************************************)

ApiStates ==
    {NotRunning} \cup [pc : {"call_ban", "details", "remove", "call_unban"}, victim : Victims]

MitigationTypeOK ==
    /\ buckets \in [Victims -> [pattern : BucketPatterns \cup {"none"}, full : BOOLEAN]]
    /\ ban_list \in [Victims -> {"none", "Automatic", "Manual"}]
    /\ detector \in {NotRunning} \cup [pc : {"no_bucket", "not_banned"}, victim : Victims]
    /\ current \subseteq Victims /\ refresh_buckets \subseteq Victims
    /\ candidates \subseteq Victims
    /\ api \in [ApiCalls -> ApiStates]

\* New and absent buckets.
LEMMA BucketShape ==
    /\ \A pattern \in BucketPatterns :
         /\ NewBucket(pattern) \in [pattern : BucketPatterns \cup {"none"}, full : BOOLEAN]
         /\ NewBucket(pattern).pattern = pattern
    /\ NoBucket \in [pattern : BucketPatterns \cup {"none"}, full : BOOLEAN]
    /\ NoBucket.pattern = "none"
  BY DEF NewBucket, NoBucket, BucketPatterns

\* The initial state has its types.
LEMMA InitMitigationType == MitigationInit => MitigationTypeOK
  BY DEF MitigationInit, MitigationTypeOK, ApiStates, NoBucket, NotRunning, BucketPatterns

\* The detector keeps the types,
LEMMA DetectorType ==
    ASSUME MitigationTypeOK, Detector
    PROVE  MitigationTypeOK'
<1>1. ASSUME NEW v \in Victims, DetectorCheckBucket(v) PROVE MitigationTypeOK'
  BY <1>1 DEF DetectorCheckBucket, MitigationTypeOK, loop_vars, cleaner_vars
<1>2. ASSUME DetectorCheckBanList PROVE MitigationTypeOK'
  BY <1>2 DEF DetectorCheckBanList, MitigationTypeOK, NotRunning, loop_vars, cleaner_vars
<1>3. ASSUME DetectorEnableCapture PROVE MitigationTypeOK'
  BY <1>3 DEF DetectorEnableCapture, MitigationTypeOK, NotRunning, NewBucket, BucketPatterns,
              loop_vars, cleaner_vars
<1> QED
  BY <1>1, <1>2, <1>3 DEF Detector

\* so does the bucket thread,
LEMMA BucketLoopType ==
    ASSUME MitigationTypeOK, BucketLoop
    PROVE  MitigationTypeOK'
<1> USE DEF MitigationTypeOK, cleaner_vars
<1>1. ASSUME WakeUp \/ OrphansDone \/ FindFilled \/ FilledDone \/ StartSchedule \/ ScheduleDone
      PROVE  MitigationTypeOK'
  BY <1>1 DEF WakeUp, OrphansDone, FindFilled, FilledDone, StartSchedule, ScheduleDone
<1>2. ASSUME NEW v \in Victims, RemoveOrphan(v) \/ TakeRefreshBucket(v)
      PROVE  MitigationTypeOK'
  <2>1. buckets' = [buckets EXCEPT ![v] = NoBucket]
    BY <1>2 DEF RemoveOrphan, TakeRefreshBucket
  <2>2. UNCHANGED <<ban_list, detector, current, candidates, api>>
    BY <1>2 DEF RemoveOrphan, TakeRefreshBucket, loop_vars
  <2>3. refresh_buckets' \in {refresh_buckets, refresh_buckets \cup {v}}
    BY <1>2 DEF RemoveOrphan, TakeRefreshBucket, loop_vars
  <2> QED
    BY <2>1, <2>2, <2>3, BucketShape
<1>3. ASSUME NEW v \in Victims, AddToBlackhole(v) PROVE MitigationTypeOK'
  BY <1>3 DEF AddToBlackhole
<1>4. ASSUME NEW v \in Victims, NEW w \in Workers, NEW k \in Keys, CallBanActions(v, w, k)
      PROVE  MitigationTypeOK'
  BY <1>4 DEF CallBanActions, NoBucket
<1>5. ASSUME NEW v \in Victims, ProcessRefreshBucket(v) \/ SkipVictim(v) \/ ScheduleVictim(v)
      PROVE  MitigationTypeOK'
  BY <1>5 DEF ProcessRefreshBucket, SkipVictim, ScheduleVictim
<1>6. ASSUME NEW v \in Victims, BeginCapture(v) PROVE MitigationTypeOK'
  <2>1. UNCHANGED <<ban_list, buckets, detector, refresh_buckets, candidates, api>>
    BY <1>6 DEF BeginCapture
  <2>2. current' = current \/ current' = {}
    BY <1>6 DEF BeginCapture
  <2> QED
    BY <2>1, <2>2
<1>7. ASSUME NEW v \in Victims, EnableRefreshCapture(v) PROVE MitigationTypeOK'
  <2>1. UNCHANGED <<ban_list, detector, refresh_buckets, candidates, api>> /\ current' = {}
    BY <1>7 DEF EnableRefreshCapture
  <2>2. \/ buckets' = [buckets EXCEPT ![v] = NewBucket("FLOW_SPEC_REFRESH_ONCE")]
        \/ buckets' = buckets
    BY <1>7 DEF EnableRefreshCapture
  <2> QED
    BY <2>1, <2>2, BucketShape DEF BucketPatterns
<1> QED
  BY <1>1, <1>2, <1>3, <1>4, <1>5, <1>6, <1>7 DEF BucketLoop

\* the cleanup thread,
LEMMA CleanerType ==
    ASSUME MitigationTypeOK, Cleaner
    PROVE  MitigationTypeOK'
<1> USE DEF MitigationTypeOK, loop_vars
<1>1. ASSUME CopyBanList \/ CleanupDone PROVE MitigationTypeOK'
  BY <1>1 DEF CopyBanList, CleanupDone
<1>2. ASSUME NEW v \in Victims, KeepBan(v) \/ EraseBan(v) PROVE MitigationTypeOK'
  BY <1>2 DEF KeepBan, EraseBan
<1>3. ASSUME NEW v \in Victims, NEW w \in Workers, CallUnbanActions(v, w) PROVE MitigationTypeOK'
  BY <1>3 DEF CallUnbanActions
<1> QED
  BY <1>1, <1>2, <1>3 DEF Cleaner

\* and the API.
LEMMA ApiType ==
    ASSUME MitigationTypeOK, Api
    PROVE  MitigationTypeOK'
<1> USE DEF MitigationTypeOK, loop_vars, cleaner_vars, ApiStates, NotRunning
<1>1. ASSUME NEW c \in ApiCalls, NEW v \in Victims, ApiBan(c, v) \/ ApiUnban(c, v)
      PROVE  MitigationTypeOK'
  BY <1>1 DEF ApiBan, ApiUnban
<1>2. ASSUME NEW c \in ApiCalls, ApiUnbanDetails(c) PROVE MitigationTypeOK'
  BY <1>2 DEF ApiUnbanDetails
<1>3. ASSUME NEW c \in ApiCalls, ApiUnbanRemove(c) PROVE MitigationTypeOK'
  BY <1>3 DEF ApiUnbanRemove
<1>4. ASSUME NEW c \in ApiCalls, NEW w \in Workers, ApiCallBan(c, w) \/ ApiCallUnban(c, w)
      PROVE  MitigationTypeOK'
  BY <1>4 DEF ApiCallBan, ApiCallUnban
<1> QED
  BY <1>1, <1>2, <1>3, <1>4 DEF Api

\* Every step keeps the types.
LEMMA StepMitigationType == MitigationTypeOK /\ [MitigationNext]_all_vars => MitigationTypeOK'
<1> SUFFICES ASSUME MitigationTypeOK, [MitigationNext]_all_vars PROVE MitigationTypeOK'
  OBVIOUS
<1>1. CASE GobgpStep \/ UNCHANGED all_vars
  BY <1>1 DEF GobgpStep, all_vars, mitigation_vars, loop_vars, cleaner_vars, MitigationTypeOK
<1>2. ASSUME NEW v \in Victims, CollectLastPacket(v) PROVE MitigationTypeOK'
  BY <1>2 DEF CollectLastPacket, loop_vars, cleaner_vars, MitigationTypeOK
<1> QED
  BY <1>1, <1>2, DetectorType, BucketLoopType, CleanerType, ApiType DEF MitigationNext

(***************************************************************************)
(* The captures the bucket thread and the buckets account for.             *)
(***************************************************************************)

\* Where the bucket thread is and what it holds there: at most one victim between two
\* steps, refresh buckets only until they are processed, and a victim it is about to give
\* a refresh bucket has none.
LoopShape ==
    /\ \A u, v \in current : u = v
    /\ loop_pc \notin {"call_ban", "begin_capture", "enable_capture"} => current = {}
    /\ loop_pc \notin {"filled", "call_ban", "refreshes"} => refresh_buckets = {}
    /\ \A v \in refresh_buckets : buckets[v].pattern # "FLOW_SPEC_REFRESH_ONCE"
    /\ \A v \in current :
         /\ loop_pc = "call_ban" => buckets[v].pattern = "ONCE"
         /\ loop_pc \in {"begin_capture", "enable_capture"} =>
              buckets[v].pattern # "FLOW_SPEC_REFRESH_ONCE"

\* What the detector has checked still holds when it acts on it: it alone makes buckets for
\* new attacks, and a victim becomes banned automatically through such a bucket only.
DetectorShape ==
    detector # NotRunning =>
      /\ buckets[detector.victim].pattern # "ONCE"
      /\ detector.pc = "not_banned" => ban_list[detector.victim] # "Automatic"

MitigationInv ==
    /\ MitigationTypeOK
    /\ LoopShape
    /\ DetectorShape
    /\ CapturesAccounted
    /\ AutomaticBanOnce

\* The initial state satisfies the invariant.
LEMMA InitMitigationInv == MitigationInit => MitigationInv
<1> SUFFICES ASSUME MitigationInit PROVE MitigationInv
  OBVIOUS
<1>1. MitigationTypeOK
  BY InitMitigationType
<1>2. LoopShape /\ DetectorShape
  BY DEF MitigationInit, LoopShape, DetectorShape
<1>3. CapturesAccounted /\ AutomaticBanOnce
  BY DEF MitigationInit, Init, CapturesAccounted, AutomaticBanOnce, NoBucket
<1> QED
  BY <1>1, <1>2, <1>3 DEF MitigationInv

\* Steps that leave the buckets, the captures and the bucket thread alone, and ban nobody
\* automatically: those of the cleanup thread, the API and the FlowSpec threads.
LEMMA ElsewhereKeeps ==
    ASSUME MitigationInv, MitigationTypeOK',
           UNCHANGED <<captures, buckets, detector, loop_vars>>,
           \A v \in Victims : ban_list'[v] = "Automatic" => ban_list[v] = "Automatic"
    PROVE  MitigationInv'
<1>1. LoopShape'
  BY DEF MitigationInv, LoopShape, loop_vars
<1>2. DetectorShape'
  BY DEF MitigationInv, DetectorShape, MitigationTypeOK, NotRunning
<1>3. CapturesAccounted'
  BY DEF MitigationInv, CapturesAccounted, loop_vars
<1>4. AutomaticBanOnce'
  BY DEF MitigationInv, AutomaticBanOnce, loop_vars
<1> QED
  BY <1>1, <1>2, <1>3, <1>4 DEF MitigationInv

\* The cleanup thread keeps the invariant,
LEMMA CleanerKeeps ==
    ASSUME MitigationInv, MitigationTypeOK', Cleaner
    PROVE  MitigationInv'
<1>1. UNCHANGED <<captures, buckets, detector, loop_vars>>
  BY DEF Cleaner, CopyBanList, CleanupDone, KeepBan, CallUnbanActions, EraseBan, SpawnUnban, vars
<1>2. \A v \in Victims : ban_list'[v] = "Automatic" => ban_list[v] = "Automatic"
  BY DEF Cleaner, CopyBanList, CleanupDone, KeepBan, CallUnbanActions, EraseBan,
         MitigationInv, MitigationTypeOK
<1> QED
  BY <1>1, <1>2, ElsewhereKeeps

\* so does the API,
LEMMA ApiKeeps ==
    ASSUME MitigationInv, MitigationTypeOK', Api
    PROVE  MitigationInv'
<1>1. UNCHANGED <<captures, buckets, detector, loop_vars>>
  BY DEF Api, ApiBan, ApiUnban, ApiUnbanDetails, ApiUnbanRemove, ApiCallBan, ApiCallUnban,
         SpawnBan, SpawnUnban, vars
<1>2. \A v \in Victims : ban_list'[v] = "Automatic" => ban_list[v] = "Automatic"
  BY DEF Api, ApiBan, ApiUnban, ApiUnbanDetails, ApiUnbanRemove, ApiCallBan, ApiCallUnban,
         MitigationInv, MitigationTypeOK
<1> QED
  BY <1>1, <1>2, ElsewhereKeeps

\* a step of a GoBGP thread,
LEMMA GobgpStepKeeps ==
    ASSUME MitigationInv, MitigationTypeOK', GobgpStep \/ UNCHANGED all_vars
    PROVE  MitigationInv'
<1>1. UNCHANGED mitigation_vars
  BY DEF GobgpStep, all_vars
<1>2. UNCHANGED captures
  BY DEF GobgpStep, all_vars, vars, ThreadStep, StartBan, StartUnban, RefreshProtocol,
         FinishRefresh, AddPath, DeletePath, CleanupRedundantPorts, ReportAdd, ReportDelete,
         ExecuteLate
<1> QED
  BY <1>1, <1>2, ElsewhereKeeps DEF mitigation_vars

\* the detector,
LEMMA DetectorKeeps ==
    ASSUME MitigationInv, MitigationTypeOK', Detector
    PROVE  MitigationInv'
<1>0. UNCHANGED <<captures, ban_list, loop_pc, todo, current, refresh_buckets>>
  BY DEF Detector, DetectorCheckBucket, DetectorCheckBanList, DetectorEnableCapture, loop_vars, vars
<1>1. CASE UNCHANGED buckets
  <2>1. LoopShape'
    BY <1>0, <1>1 DEF MitigationInv, LoopShape
  <2>2. CapturesAccounted' /\ AutomaticBanOnce'
    BY <1>0, <1>1 DEF MitigationInv, CapturesAccounted, AutomaticBanOnce
  <2>3. DetectorShape'
    <3>1. ASSUME NEW v \in Victims, DetectorCheckBucket(v) PROVE DetectorShape'
      BY <1>0, <1>1, <3>1, BucketShape DEF DetectorCheckBucket, DetectorShape
    <3>2. ASSUME DetectorCheckBanList PROVE DetectorShape'
      BY <1>0, <1>1, <3>2
         DEF DetectorCheckBanList, DetectorShape, MitigationInv, MitigationTypeOK, NotRunning
    <3>3. ASSUME DetectorEnableCapture PROVE DetectorShape'
      BY <3>3 DEF DetectorEnableCapture, DetectorShape
    <3> QED
      BY <3>1, <3>2, <3>3 DEF Detector
  <2> QED
    BY <2>1, <2>2, <2>3 DEF MitigationInv
<1>2. CASE DetectorEnableCapture
  <2> DEFINE v == detector.victim
  <2>1. /\ v \in Victims
        /\ buckets[v].pattern # "ONCE" /\ ban_list[v] # "Automatic"
    BY <1>2 DEF DetectorEnableCapture, MitigationInv, MitigationTypeOK, DetectorShape, NotRunning
  <2>2. CASE buckets[v] # NoBucket
    <3>1. UNCHANGED buckets
      BY <1>2, <2>2 DEF DetectorEnableCapture, MitigationInv, MitigationTypeOK
    <3> QED
      BY <1>1, <3>1
  <2>3. CASE buckets[v] = NoBucket
    <3>1. /\ buckets[v].pattern = "none" /\ buckets'[v].pattern = "ONCE"
          /\ \A u \in Victims : u # v => buckets'[u] = buckets[u]
      BY <1>2, <2>1, <2>3, BucketShape
         DEF DetectorEnableCapture, MitigationInv, MitigationTypeOK, BucketPatterns
    <3>2. \A u \in Victims :
            buckets'[u].pattern = "FLOW_SPEC_REFRESH_ONCE" <=> buckets[u].pattern = "FLOW_SPEC_REFRESH_ONCE"
      BY <3>1
    <3>3. CapturesAccounted'
      BY <1>0, <3>2 DEF MitigationInv, CapturesAccounted
    <3>4. AutomaticBanOnce'
      BY <1>0, <2>1, <3>1 DEF MitigationInv, AutomaticBanOnce
    <3>5. LoopShape'
      <4>1. \A u \in current \cup refresh_buckets : u \in Victims
        BY DEF MitigationInv, MitigationTypeOK
      <4>2. \A u \in refresh_buckets : buckets'[u].pattern # "FLOW_SPEC_REFRESH_ONCE"
        BY <3>2, <4>1 DEF MitigationInv, LoopShape
      <4>3. \A u \in current :
              /\ loop_pc = "call_ban" => buckets'[u].pattern = "ONCE"
              /\ loop_pc \in {"begin_capture", "enable_capture"} =>
                   buckets'[u].pattern # "FLOW_SPEC_REFRESH_ONCE"
        BY <3>1, <3>2, <4>1 DEF MitigationInv, LoopShape
      <4> QED
        BY <1>0, <4>2, <4>3 DEF MitigationInv, LoopShape
    <3>6. DetectorShape'
      BY <1>2 DEF DetectorEnableCapture, DetectorShape
    <3> QED
      BY <3>3, <3>4, <3>5, <3>6 DEF MitigationInv
  <2> QED
    BY <2>2, <2>3
<1> QED
  BY <1>1, <1>2 DEF Detector, DetectorCheckBucket, DetectorCheckBanList

\* a packet that fills a bucket,
LEMMA CollectKeeps ==
    ASSUME MitigationInv, MitigationTypeOK', NEW v \in Victims, CollectLastPacket(v)
    PROVE  MitigationInv'
<1>1. \A u \in Victims : buckets'[u].pattern = buckets[u].pattern
  BY DEF CollectLastPacket, MitigationInv, MitigationTypeOK
<1>2. UNCHANGED <<captures, ban_list, detector, loop_pc, todo, current, refresh_buckets>>
  BY DEF CollectLastPacket, loop_vars, vars
<1>3. LoopShape'
  BY <1>1, <1>2 DEF MitigationInv, LoopShape, MitigationTypeOK
<1>4. DetectorShape'
  BY <1>1, <1>2 DEF MitigationInv, DetectorShape, MitigationTypeOK, NotRunning
<1>5. CapturesAccounted' /\ AutomaticBanOnce'
  BY <1>1, <1>2 DEF MitigationInv, CapturesAccounted, AutomaticBanOnce
<1> QED
  BY <1>3, <1>4, <1>5 DEF MitigationInv

\* The phases of the bucket thread that touch no bucket.
LEMMA PhaseKeeps ==
    ASSUME MitigationInv, MitigationTypeOK',
           WakeUp \/ OrphansDone \/ FindFilled \/ FilledDone \/ StartSchedule \/ ScheduleDone
    PROVE  MitigationInv'
<1>1. UNCHANGED <<captures, ban_list, buckets, detector, current, refresh_buckets>>
  BY DEF WakeUp, OrphansDone, FindFilled, FilledDone, StartSchedule, ScheduleDone, vars
<1>2. /\ loop_pc \notin {"call_ban", "begin_capture", "enable_capture"}
      /\ loop_pc' \notin {"call_ban", "begin_capture", "enable_capture"}
      /\ loop_pc' \notin {"filled", "refreshes"} => loop_pc \notin {"filled"}
      /\ loop_pc = "refreshes" => refresh_buckets = {}
  BY DEF WakeUp, OrphansDone, FindFilled, FilledDone, StartSchedule, ScheduleDone
<1>3. LoopShape'
  BY <1>1, <1>2 DEF MitigationInv, LoopShape
<1>4. DetectorShape'
  BY <1>1 DEF MitigationInv, DetectorShape
<1>5. CapturesAccounted' /\ AutomaticBanOnce'
  BY <1>1, <1>2 DEF MitigationInv, CapturesAccounted, AutomaticBanOnce
<1> QED
  BY <1>3, <1>4, <1>5 DEF MitigationInv

\* A bucket goes: the reservation of a refresh bucket goes with it, or moves to the
\* buckets taken out.
LEMMA RemoveOrphanKeeps ==
    ASSUME MitigationInv, MitigationTypeOK', NEW v \in Victims, RemoveOrphan(v)
    PROVE  MitigationInv'
<1>1. /\ loop_pc = "orphans"
      /\ UNCHANGED <<ban_list, detector, loop_pc, current, refresh_buckets>>
      /\ buckets' = [buckets EXCEPT ![v] = NoBucket]
  BY DEF RemoveOrphan, loop_vars
<1>2. current = {} /\ refresh_buckets = {}
  BY <1>1 DEF MitigationInv, LoopShape
<1>3. /\ buckets'[v].pattern = "none"
      /\ \A u \in Victims : u # v => buckets'[u] = buckets[u]
  BY <1>1, BucketShape DEF MitigationInv, MitigationTypeOK
<1>4. captures' = IF buckets[v].pattern = "FLOW_SPEC_REFRESH_ONCE" THEN captures \ {v} ELSE captures
  BY DEF RemoveOrphan, AbandonCapture, vars
<1>5. LoopShape'
  BY <1>1, <1>2 DEF LoopShape
<1>6. DetectorShape'
  BY <1>1, <1>3 DEF MitigationInv, DetectorShape, MitigationTypeOK, NotRunning
<1>7. CapturesAccounted'
  BY <1>1, <1>2, <1>3, <1>4 DEF MitigationInv, CapturesAccounted
<1>8. AutomaticBanOnce'
  BY <1>1, <1>2, <1>3 DEF MitigationInv, AutomaticBanOnce
<1> QED
  BY <1>5, <1>6, <1>7, <1>8 DEF MitigationInv

\* the bucket thread when it takes a refresh bucket,
LEMMA TakeRefreshBucketKeeps ==
    ASSUME MitigationInv, MitigationTypeOK', NEW v \in Victims, TakeRefreshBucket(v)
    PROVE  MitigationInv'
<1>1. /\ loop_pc = "filled"
      /\ UNCHANGED <<captures, ban_list, detector, loop_pc, current>>
      /\ buckets' = [buckets EXCEPT ![v] = NoBucket]
      /\ buckets[v].pattern = "FLOW_SPEC_REFRESH_ONCE"
      /\ refresh_buckets' = refresh_buckets \cup {v}
  BY DEF TakeRefreshBucket, vars
<1>2. current = {}
  BY <1>1 DEF MitigationInv, LoopShape
<1>3. /\ buckets'[v].pattern = "none"
      /\ \A u \in Victims : u # v => buckets'[u] = buckets[u]
  BY <1>1, BucketShape DEF MitigationInv, MitigationTypeOK
<1>4. LoopShape'
  BY <1>1, <1>2, <1>3 DEF MitigationInv, LoopShape, MitigationTypeOK
<1>5. DetectorShape'
  BY <1>1, <1>3 DEF MitigationInv, DetectorShape, MitigationTypeOK, NotRunning
<1>6. CapturesAccounted' /\ AutomaticBanOnce'
  BY <1>1, <1>2, <1>3 DEF MitigationInv, CapturesAccounted, AutomaticBanOnce
<1> QED
  BY <1>4, <1>5, <1>6 DEF MitigationInv

\* A victim is banned automatically while its bucket for the attack is still there.
LEMMA AddToBlackholeKeeps ==
    ASSUME MitigationInv, MitigationTypeOK', NEW v \in Victims, AddToBlackhole(v)
    PROVE  MitigationInv'
<1>1. /\ loop_pc = "filled" /\ loop_pc' = "call_ban" /\ current' = {v}
      /\ UNCHANGED <<captures, buckets, detector, refresh_buckets>>
      /\ buckets[v].pattern = "ONCE"
      /\ \A u \in Victims : u # v => ban_list'[u] = ban_list[u]
  BY DEF AddToBlackhole, vars, MitigationInv, MitigationTypeOK
<1>2. current = {}
  BY <1>1 DEF MitigationInv, LoopShape
<1>3. LoopShape'
  BY <1>1 DEF MitigationInv, LoopShape
<1>4. DetectorShape'
  BY <1>1 DEF MitigationInv, DetectorShape, MitigationTypeOK, NotRunning
<1>5. CapturesAccounted' /\ AutomaticBanOnce'
  BY <1>1, <1>2 DEF MitigationInv, CapturesAccounted, AutomaticBanOnce
<1> QED
  BY <1>3, <1>4, <1>5 DEF MitigationInv

\* when it bans on a filled bucket,
LEMMA CallBanActionsKeeps ==
    ASSUME MitigationInv, MitigationTypeOK', NEW v \in Victims, NEW w \in Workers, NEW k \in Keys,
           CallBanActions(v, w, k)
    PROVE  MitigationInv'
<1>1. /\ loop_pc = "call_ban" /\ loop_pc' = "filled" /\ current' = {} /\ v \in current
      /\ UNCHANGED <<captures, ban_list, detector, refresh_buckets>>
      /\ buckets' = [buckets EXCEPT ![v] = NoBucket]
  BY DEF CallBanActions, SpawnBan
<1>2. buckets[v].pattern = "ONCE" /\ \A u \in current : u = v
  BY <1>1 DEF MitigationInv, LoopShape
<1>3. /\ buckets'[v].pattern = "none"
      /\ \A u \in Victims : u # v => buckets'[u] = buckets[u]
  BY <1>1, BucketShape DEF MitigationInv, MitigationTypeOK
<1>4. LoopShape'
  BY <1>1, <1>3 DEF MitigationInv, LoopShape, MitigationTypeOK
<1>5. DetectorShape'
  BY <1>1, <1>3 DEF MitigationInv, DetectorShape, MitigationTypeOK, NotRunning
<1>6. CapturesAccounted' /\ AutomaticBanOnce'
  BY <1>1, <1>2, <1>3 DEF MitigationInv, CapturesAccounted, AutomaticBanOnce
<1> QED
  BY <1>4, <1>5, <1>6 DEF MitigationInv

\* when it starts the refresh thread,
LEMMA ProcessRefreshBucketKeeps ==
    ASSUME MitigationInv, MitigationTypeOK', NEW v \in Victims, ProcessRefreshBucket(v)
    PROVE  MitigationInv'
<1>1. /\ loop_pc = "refreshes" /\ v \in refresh_buckets
      /\ UNCHANGED <<ban_list, buckets, detector, loop_pc, current>>
      /\ refresh_buckets' = refresh_buckets \ {v}
  BY DEF ProcessRefreshBucket
<1>2. captures' = captures \ {v}
  BY DEF ProcessRefreshBucket, AbandonCapture, SpawnRefresh
<1>3. current = {} /\ buckets[v].pattern # "FLOW_SPEC_REFRESH_ONCE"
  BY <1>1 DEF MitigationInv, LoopShape
<1>4. LoopShape'
  BY <1>1 DEF MitigationInv, LoopShape
<1>5. DetectorShape'
  BY <1>1 DEF MitigationInv, DetectorShape
<1>6. CapturesAccounted' /\ AutomaticBanOnce'
  BY <1>1, <1>2, <1>3 DEF MitigationInv, CapturesAccounted, AutomaticBanOnce
<1> QED
  BY <1>4, <1>5, <1>6 DEF MitigationInv

\* when it copies the ban list,
LEMMA ScheduleKeeps ==
    ASSUME MitigationInv, MitigationTypeOK', NEW v \in Victims, SkipVictim(v) \/ ScheduleVictim(v)
    PROVE  MitigationInv'
<1>1. /\ loop_pc = "schedule"
      /\ UNCHANGED <<captures, ban_list, buckets, detector, refresh_buckets>>
      /\ \/ loop_pc' = loop_pc /\ current' = current
         \/ loop_pc' = "begin_capture" /\ current' = {v} /\ buckets[v] = NoBucket
  BY DEF SkipVictim, ScheduleVictim, vars
<1>2. current = {} /\ refresh_buckets = {}
  BY <1>1 DEF MitigationInv, LoopShape
<1>3. LoopShape'
  BY <1>1, <1>2, BucketShape DEF LoopShape
<1>4. DetectorShape'
  BY <1>1 DEF MitigationInv, DetectorShape
<1>5. CapturesAccounted' /\ AutomaticBanOnce'
  BY <1>1, <1>2 DEF MitigationInv, CapturesAccounted, AutomaticBanOnce
<1> QED
  BY <1>3, <1>4, <1>5 DEF MitigationInv

\* when it reserves a capture,
LEMMA BeginCaptureKeeps ==
    ASSUME MitigationInv, MitigationTypeOK', NEW v \in Victims, BeginCapture(v)
    PROVE  MitigationInv'
<1>1. /\ loop_pc = "begin_capture" /\ v \in current
      /\ UNCHANGED <<ban_list, buckets, detector, refresh_buckets>>
      /\ \/ captures' = captures \cup {v} /\ loop_pc' = "enable_capture" /\ current' = current
         \/ captures' = captures /\ loop_pc' = "schedule" /\ current' = {}
  BY DEF BeginCapture, ReserveCapture, vars
<1>2. /\ current = {v} /\ refresh_buckets = {}
      /\ buckets[v].pattern # "FLOW_SPEC_REFRESH_ONCE"
  BY <1>1 DEF MitigationInv, LoopShape
<1>3. LoopShape'
  BY <1>1, <1>2 DEF LoopShape
<1>4. DetectorShape'
  BY <1>1 DEF MitigationInv, DetectorShape
<1>5. CapturesAccounted' /\ AutomaticBanOnce'
  BY <1>1, <1>2 DEF MitigationInv, CapturesAccounted, AutomaticBanOnce
<1> QED
  BY <1>3, <1>4, <1>5 DEF MitigationInv

\* and when it opens the bucket for it or gives the reservation back.
LEMMA EnableRefreshCaptureKeeps ==
    ASSUME MitigationInv, MitigationTypeOK', NEW v \in Victims, EnableRefreshCapture(v)
    PROVE  MitigationInv'
<1>1. /\ loop_pc = "enable_capture" /\ v \in current
      /\ UNCHANGED <<ban_list, detector, refresh_buckets>>
      /\ loop_pc' = "schedule" /\ current' = {}
  BY DEF EnableRefreshCapture
<1>2. /\ current = {v} /\ refresh_buckets = {}
      /\ buckets[v].pattern # "FLOW_SPEC_REFRESH_ONCE"
  BY <1>1 DEF MitigationInv, LoopShape
<1>3. \/ /\ captures' = captures
         /\ buckets[v] = NoBucket
         /\ buckets' = [buckets EXCEPT ![v] = NewBucket("FLOW_SPEC_REFRESH_ONCE")]
      \/ captures' = captures \ {v} /\ buckets' = buckets
  BY DEF EnableRefreshCapture, AbandonCapture, vars
<1>4. \/ /\ captures' = captures
         /\ buckets[v].pattern = "none" /\ buckets'[v].pattern = "FLOW_SPEC_REFRESH_ONCE"
         /\ \A u \in Victims : u # v => buckets'[u] = buckets[u]
      \/ captures' = captures \ {v} /\ buckets' = buckets
  BY <1>3, BucketShape DEF MitigationInv, MitigationTypeOK, BucketPatterns
<1>5. LoopShape'
  BY <1>1, <1>2 DEF LoopShape
<1>6. DetectorShape'
  BY <1>1, <1>4 DEF MitigationInv, DetectorShape, MitigationTypeOK, NotRunning
<1>7. CapturesAccounted' /\ AutomaticBanOnce'
  BY <1>1, <1>2, <1>4 DEF MitigationInv, CapturesAccounted, AutomaticBanOnce
<1> QED
  BY <1>5, <1>6, <1>7 DEF MitigationInv

\* Every step keeps the invariant.
LEMMA StepMitigationInv == MitigationInv /\ [MitigationNext]_all_vars => MitigationInv'
<1> SUFFICES ASSUME MitigationInv, [MitigationNext]_all_vars PROVE MitigationInv'
  OBVIOUS
<1>1. MitigationTypeOK'
  BY StepMitigationType DEF MitigationInv
<1>2. CASE BucketLoop
  BY <1>1, <1>2, PhaseKeeps, RemoveOrphanKeeps, TakeRefreshBucketKeeps, AddToBlackholeKeeps,
     CallBanActionsKeeps, ProcessRefreshBucketKeeps, ScheduleKeeps, BeginCaptureKeeps,
     EnableRefreshCaptureKeeps DEF BucketLoop
<1> QED
  BY <1>1, <1>2, DetectorKeeps, CollectKeeps, CleanerKeeps, ApiKeeps, GobgpStepKeeps
     DEF MitigationNext

\* The invariant holds in every behaviour.
LEMMA MitigationInvHolds == MitigationSpec => []MitigationInv
  BY InitMitigationInv, StepMitigationInv, PTL DEF MitigationSpec

\* Orphan removal, a refused enable_packet_capture and a capture without results give the
\* reservation back, and nothing else does: a refresh is reserved exactly while its bucket
\* exists or the bucket thread holds it.
THEOREM CapturesAreAccounted == MitigationSpec => []CapturesAccounted
<1>1. MitigationInv => CapturesAccounted
  BY DEF MitigationInv
<1> QED
  BY <1>1, MitigationInvHolds, PTL

\* The detector's check of the buckets before the ban list, against the bucket thread's
\* order of ban list before bucket, never lets an automatically banned victim get a second
\* bucket for its attack, although no mutex is held across the two checks.
THEOREM BannedOnce == MitigationSpec => []AutomaticBanOnce
<1>1. MitigationInv => AutomaticBanOnce
  BY DEF MitigationInv
<1> QED
  BY <1>1, MitigationInvHolds, PTL

(***************************************************************************)
(* The composition is one of the environments GobgpAction leaves open.     *)
(***************************************************************************)

\* A step of the whole is a step of GobgpAction or leaves its variables alone.
LEMMA StepIsThreadStep == MitigationTypeOK /\ [MitigationNext]_all_vars => [Next]_vars
<1> SUFFICES ASSUME MitigationTypeOK, [MitigationNext]_all_vars PROVE Next \/ UNCHANGED vars
  OBVIOUS
<1>1. CASE UNCHANGED all_vars
  BY <1>1 DEF all_vars
<1>2. CASE Detector
  BY <1>2 DEF Detector, DetectorCheckBucket, DetectorCheckBanList, DetectorEnableCapture
<1>3. ASSUME NEW v \in Victims, CollectLastPacket(v) PROVE UNCHANGED vars
  BY <1>3 DEF CollectLastPacket
<1>4. CASE BucketLoop
  <2>1. ASSUME WakeUp \/ OrphansDone \/ FindFilled \/ FilledDone \/ StartSchedule \/ ScheduleDone
        PROVE  UNCHANGED vars
    BY <2>1 DEF WakeUp, OrphansDone, FindFilled, FilledDone, StartSchedule, ScheduleDone
  <2>2. ASSUME NEW v \in Victims,
               TakeRefreshBucket(v) \/ AddToBlackhole(v) \/ SkipVictim(v) \/ ScheduleVictim(v)
        PROVE  UNCHANGED vars
    BY <2>2 DEF TakeRefreshBucket, AddToBlackhole, SkipVictim, ScheduleVictim
  <2>3. ASSUME NEW v \in Victims, NEW w \in Workers, NEW k \in Keys, CallBanActions(v, w, k)
        PROVE  SpawnBan(w, k)
    BY <2>3 DEF CallBanActions
  <2>4. ASSUME NEW v \in Victims,
               RemoveOrphan(v) \/ BeginCapture(v) \/ EnableRefreshCapture(v)
        PROVE  ReserveCapture(v) \/ AbandonCapture(v) \/ UNCHANGED vars
    BY <2>4 DEF RemoveOrphan, BeginCapture, EnableRefreshCapture
  <2>5. ASSUME NEW v \in Victims, ProcessRefreshBucket(v)
        PROVE  AbandonCapture(v) \/ \E w \in Workers, r \in RefreshResults : SpawnRefresh(w, v, r)
    BY <2>5 DEF ProcessRefreshBucket
  <2> QED
    BY <1>4, <2>1, <2>2, <2>3, <2>4, <2>5 DEF BucketLoop, Next, Environment
<1>5. CASE Cleaner
  <2>1. ASSUME NEW v \in Victims, NEW w \in Workers, CallUnbanActions(v, w) PROVE SpawnUnban(w, v)
    BY <2>1 DEF CallUnbanActions
  <2>2. ASSUME NEW v \in Victims, CopyBanList \/ CleanupDone \/ KeepBan(v) \/ EraseBan(v)
        PROVE  UNCHANGED vars
    BY <2>2 DEF CopyBanList, CleanupDone, KeepBan, EraseBan
  <2>3. CASE CopyBanList \/ CleanupDone
    BY <2>3 DEF CopyBanList, CleanupDone
  <2> QED
    BY <1>5, <2>1, <2>2, <2>3 DEF Cleaner, Next, Environment
<1>6. CASE Api
  <2>1. ASSUME NEW c \in ApiCalls, NEW v \in Victims, ApiBan(c, v) \/ ApiUnban(c, v)
        PROVE  UNCHANGED vars
    BY <2>1 DEF ApiBan, ApiUnban
  <2>2. ASSUME NEW c \in ApiCalls, ApiUnbanDetails(c) \/ ApiUnbanRemove(c) PROVE UNCHANGED vars
    BY <2>2 DEF ApiUnbanDetails, ApiUnbanRemove
  <2>3. ASSUME NEW c \in ApiCalls, api[c].pc \in {"call_ban", "call_unban"}
        PROVE  api[c].victim \in Victims
    BY <2>3 DEF MitigationTypeOK, ApiStates, NotRunning
  <2>4. ASSUME NEW c \in ApiCalls, NEW w \in Workers, ApiCallBan(c, w)
        PROVE  \E k \in Keys : SpawnBan(w, k)
    <3>1. api[c].victim \in Victims /\ SpawnBan(w, ManualKey(api[c].victim))
      BY <2>3, <2>4 DEF ApiCallBan
    <3>2. ManualKey(api[c].victim) \in Keys
      BY <3>1, ProtocolOnlyKeyInKeys DEF ManualKey
    <3> QED
      BY <3>1, <3>2
  <2>5. ASSUME NEW c \in ApiCalls, NEW w \in Workers, ApiCallUnban(c, w)
        PROVE  \E v \in Victims : SpawnUnban(w, v)
    <3>1. api[c].victim \in Victims /\ SpawnUnban(w, api[c].victim)
      BY <2>3, <2>5 DEF ApiCallUnban
    <3> QED
      BY <3>1
  <2> QED
    BY <1>6, <2>1, <2>2, <2>4, <2>5 DEF Api, Next, Environment
<1>7. CASE GobgpStep
  BY <1>7 DEF GobgpStep, Next, Environment
<1> QED
  BY <1>1, <1>2, <1>3, <1>4, <1>5, <1>6, <1>7 DEF MitigationNext

\* Refinement: the detector, the bucket thread, the cleanup thread and the API start BAN,
\* UNBAN and refresh threads only in ways GobgpAction allows its environment, so
\* everything proved of GobgpAction's Spec holds of the whole.
THEOREM MitigationImplementsThreads == MitigationSpec => Spec
<1>1. MitigationInit => Init
  BY DEF MitigationInit
<1>2. MitigationInv => MitigationTypeOK
  BY DEF MitigationInv
<1> QED
  BY <1>1, <1>2, MitigationInvHolds, StepIsThreadStep, PTL DEF MitigationSpec, Spec

\* In the composition too, a refresh that an UNBAN has overtaken adds nothing, whichever of
\* the cleanup thread and the API ordered that UNBAN.
THEOREM ComposedUnbanBeatsRefresh == MitigationSpec => []NoPathAfterUnban
  BY MitigationImplementsThreads, UnbanBeatsRefresh, PTL

\* With the detector, the cleanup thread and the API around them the threads keep the table
\* and GoBGP together: no path is out of reach, an installed rule is in GoBGP, and no
\* escalation opens a gap before its victim's UNBAN, whatever answers are lost or late.
THEOREM ComposedPathsAgree == MitigationSpec => [](PathsTracked /\ InstalledInRib) /\ CoverageKept
  BY MitigationImplementsThreads, PathsStayTracked, InstalledAreInRib, CoverageIsKept, PTL

=============================================================================
