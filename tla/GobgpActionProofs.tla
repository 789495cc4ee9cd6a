------------------------- MODULE GobgpActionProofs -------------------------
(***************************************************************************)
(* Theorems about GobgpAction, for every value of its constants: the       *)
(* tables and the orders of the threads, and the paths GoBGP holds.        *)
(***************************************************************************)
EXTENDS GobgpAction, FlowspecLifecycleProofs, FiniteSetTheorems

(***************************************************************************)
(* Types.                                                                  *)
(***************************************************************************)

\* The initial state has its types.
LEMMA InitTypeOK == Init => TypeOK
  BY LifecycleAssumption DEF Init, LifecycleInit, TypeOK, LifecycleTypeOK, RuleStates, Orders,
     Replies, NoDels, Idle, NoReply

\* What a thread's order and reply look like, by their tag.
LEMMA OrderShape ==
    ASSUME TypeOK, NEW w \in Workers
    PROVE  /\ order[w].op = "ban" => order[w].key \in Keys
           /\ order[w].op \in {"unban", "refresh"} => order[w].victim \in Victims
           /\ order[w] = Idle <=> order[w].op = "idle"
  BY DEF TypeOK, Orders, Idle

\* The fields of an answer that is not reported yet.
LEMMA ReplyShape ==
    ASSUME TypeOK, NEW w \in Workers
    PROVE  /\ reply[w].rpc = "AddPath" =>
                /\ reply[w].key \in Keys
                /\ reply[w].uuid \in Uuids \cup {NoUuid}
           /\ reply[w].rpc = "DeletePath" => reply[w].key \in Keys /\ reply[w].status \in {"ok", "error"}
           /\ reply[w] = NoReply <=> reply[w].rpc = "none"
  BY DEF TypeOK, Replies, NoReply

\* The UUIDs a withdrawal copies from the table.
LEMMA RequestsType ==
    ASSUME LifecycleTypeOK, NEW S
    PROVE  RequestsOf(S) \in [Keys -> Uuids \cup {NoUuid}]
  BY DEF RequestsOf, LifecycleTypeOK

\* Every step keeps the types.
LEMMA StepTypeOK == TypeOK /\ [Next]_vars => TypeOK'
<1> SUFFICES ASSUME TypeOK, [Next]_vars PROVE TypeOK'
  OBVIOUS
<1> USE DEF thread_vars, gobgp_vars
<1>0. LifecycleTypeOK
  BY DEF TypeOK
<1>1. ASSUME NEW w \in Workers, NEW k \in Keys, SpawnBan(w, k) PROVE TypeOK'
  BY <1>1 DEF SpawnBan, TypeOK, LifecycleTypeOK, lifecycle_vars, Orders
<1>2. ASSUME NEW w \in Workers, NEW v \in Victims, SpawnUnban(w, v) PROVE TypeOK'
  BY <1>2 DEF SpawnUnban, TypeOK, LifecycleTypeOK, lifecycle_vars, Orders
<1>3. ASSUME NEW w \in Workers, NEW v \in Victims, NEW r \in RefreshResults,
             SpawnRefresh(w, v, r)
      PROVE TypeOK'
  BY <1>3, GobgpActionAssumption
     DEF SpawnRefresh, TypeOK, LifecycleTypeOK, lifecycle_vars, Orders
<1>4. ASSUME NEW v \in Victims, ReserveCapture(v) PROVE TypeOK'
  BY <1>0, <1>4, BeginCaptureType DEF ReserveCapture, TypeOK
<1>5. ASSUME NEW v \in Victims, AbandonCapture(v) PROVE TypeOK'
  BY <1>0, <1>5, FinishCaptureType DEF AbandonCapture, TypeOK
<1>6. ASSUME NEW c \in late, ExecuteLate(c) PROVE TypeOK'
  <2>1. c.key \in Keys /\ c.uuid \in Uuids
    BY DEF TypeOK, LateCall
  <2> QED
    BY <1>6, <2>1 DEF ExecuteLate, Without, WithPath, PathsOfOthers, LostOfOthers, TypeOK,
       LifecycleTypeOK, lifecycle_vars, Path
<1>7. ASSUME NEW w \in Workers, StartBan(w) PROVE TypeOK'
  <2>1. order[w].key \in Keys
    BY <1>7, OrderShape DEF StartBan
  <2>2. LifecycleTypeOK'
    BY <1>0, <1>7, EmplaceType DEF StartBan
  <2>3. begin_announce(order[w].key) \subseteq Keys
    BY <2>1 DEF begin_announce
  <2> QED
    BY <1>7, <2>2, <2>3 DEF StartBan, TypeOK, Orders
<1>8. ASSUME NEW w \in Workers, StartUnban(w) PROVE TypeOK'
  <2>1. order[w].victim \in Victims
    BY <1>8, OrderShape DEF StartUnban
  <2>2. LifecycleTypeOK'
    BY <1>0, <1>8, <2>1, BeginWithdrawType DEF StartUnban
  <2>3. RequestsOf(RulesOfVictim(order[w].victim)) \in [Keys -> Uuids \cup {NoUuid}]
    BY <1>0, RequestsType
  <2> QED
    BY <1>8, <2>1, <2>2, <2>3 DEF StartUnban, TypeOK, Orders
<1>9. ASSUME NEW w \in Workers, RefreshProtocol(w) PROVE TypeOK'
  <2> DEFINE v == order[w].victim
             result == Head(results[w])
             key == ProtocolOnlyKey(v, result.protocol)
             requests == {PortKey(v, result.protocol, p) : p \in result.significant_ports}
             announce == IF result.protocol = "ICMP" THEN begin_refresh_announce(key)
                         ELSE begin_refresh_protocol_rules(key, requests)
  <2>1. v \in Victims /\ result \in ProtocolResult /\ Tail(results[w]) \in Seq(ProtocolResult)
    BY <1>9, OrderShape DEF RefreshProtocol, TypeOK
  <2>2. key \in Keys
    BY <2>1, ProtocolOnlyKeyInKeys DEF ProtocolResult
  <2>3. result.protocol # "ICMP" => requests \subseteq Keys
    BY <2>1, PortKeyInKeys DEF ProtocolResult, Protocols
  <2>4. announce \subseteq Keys
    BY <2>2, <2>3 DEF begin_refresh_announce, begin_refresh_protocol_rules
  <2>5. LifecycleTypeOK'
    BY <1>0, <1>9, EmplaceType DEF RefreshProtocol
  <2>6. /\ adds' = [adds EXCEPT ![w] = announce]
        /\ escalate' = [escalate EXCEPT ![w] =
                           IF result.protocol = "ICMP" THEN {} ELSE announce \cap {key}]
        /\ results' = [results EXCEPT ![w] = Tail(results[w])]
        /\ UNCHANGED <<order, dels, reply, captures, gobgp_vars, overtaken>>
    BY <1>9 DEF RefreshProtocol
  <2> HIDE DEF announce, key
  <2> QED
    BY <2>1, <2>4, <2>5, <2>6 DEF TypeOK
<1>10. ASSUME NEW w \in Workers, FinishRefresh(w) PROVE TypeOK'
  <2>1. order[w].victim \in Victims
    BY <1>10, OrderShape DEF FinishRefresh
  <2> QED
    BY <1>0, <1>10, <2>1, FinishCaptureType DEF FinishRefresh, TypeOK, Orders
<1>11. ASSUME NEW w \in Workers, NEW k \in Keys, AddPath(w, k) PROVE TypeOK'
  <2>1. rib' \subseteq Path /\ late' \subseteq LateCall /\ lost' \subseteq Uuids
    BY <1>11 DEF AddPath, WithPath, PathsOfOthers, LostOfOthers, gobgp_vars, TypeOK, Path, LateCall
  <2>2. PICK u \in Uuids \cup {NoUuid} :
           reply' = [reply EXCEPT ![w] = [rpc |-> "AddPath", key |-> k, uuid |-> u]]
    BY <1>11 DEF AddPath
  <2>3. reply' \in [Workers -> Replies]
    BY <2>2 DEF TypeOK, Replies
  <2> QED
    BY <1>11, <2>1, <2>3 DEF AddPath, TypeOK, LifecycleTypeOK, lifecycle_vars
<1>12. ASSUME NEW w \in Workers, NEW k \in Keys, DeletePath(w, k) PROVE TypeOK'
  <2>1. dels[w][k] \in Uuids
    BY <1>12 DEF DeletePath, TypeOK
  <2>2. rib' \subseteq Path /\ late' \subseteq LateCall
    BY <1>12, <2>1 DEF DeletePath, Without, TypeOK, Path, LateCall
  <2>3. PICK status \in {"ok", "error"} :
           reply' = [reply EXCEPT ![w] = [rpc |-> "DeletePath", key |-> k, status |-> status]]
    BY <1>12 DEF DeletePath
  <2>4. reply' \in [Workers -> Replies]
    BY <2>3 DEF TypeOK, Replies
  <2> QED
    BY <1>12, <2>2, <2>4 DEF DeletePath, TypeOK, LifecycleTypeOK, lifecycle_vars
<1>13. ASSUME NEW w \in Workers, NEW k \in Keys, CleanupRedundantPorts(w, k) PROVE TypeOK'
  <2>1. LifecycleTypeOK'
    BY <1>0, <1>13, CleanupType DEF CleanupRedundantPorts
  <2>2. RequestsOf(EscalationCleanup(k)) \in [Keys -> Uuids \cup {NoUuid}]
    BY <1>0, RequestsType
  <2> QED
    BY <1>13, <2>1, <2>2 DEF CleanupRedundantPorts, TypeOK
<1>14. ASSUME NEW w \in Workers, ReportAdd(w) PROVE TypeOK'
  <2>1. reply[w].key \in Keys /\ reply[w].uuid \in Uuids \cup {NoUuid}
    BY <1>14, ReplyShape DEF ReportAdd
  <2>2. LifecycleTypeOK'
    BY <1>0, <1>14, <2>1, FailAnnounceType, CompleteAnnounceType DEF ReportAdd
  <2> QED
    BY <1>14, <2>1, <2>2 DEF ReportAdd, TypeOK, Replies
<1>15. ASSUME NEW w \in Workers, ReportDelete(w) PROVE TypeOK'
  <2>1. reply[w].key \in Keys
    BY <1>15, ReplyShape DEF ReportDelete
  <2>2. LifecycleTypeOK'
    BY <1>0, <1>15, <2>1, CompleteWithdrawType DEF ReportDelete
  <2> QED
    BY <1>15, <2>1, <2>2 DEF ReportDelete, TypeOK, Replies
<1>16. CASE UNCHANGED vars
  BY <1>16 DEF vars, TypeOK, LifecycleTypeOK, lifecycle_vars
<1> QED
  BY <1>1, <1>2, <1>3, <1>4, <1>5, <1>6, <1>7, <1>8, <1>9, <1>10, <1>11, <1>12, <1>13,
     <1>14, <1>15, <1>16 DEF Next, Environment, ThreadStep

\* TypeOK holds in every reachable state: the table, the threads and GoBGP's paths only
\* ever hold rule keys that build_gobgp_flowspec_rule_key accepts.
THEOREM TypeCorrect == Spec => []TypeOK
  BY InitTypeOK, StepTypeOK, PTL DEF Spec

(***************************************************************************)
(* Threads use the table through its methods.                              *)
(***************************************************************************)

\* The order and the local variables of a thread fit together in every step.
LEMMA StepThreadShape == TypeOK /\ ThreadShape /\ [Next]_vars => ThreadShape'
<1> SUFFICES ASSUME TypeOK, ThreadShape, [Next]_vars PROVE ThreadShape'
  OBVIOUS
<1> USE DEF thread_vars
<1>1. ASSUME NEW w \in Workers, NEW k \in Keys, SpawnBan(w, k) PROVE ThreadShape'
  BY <1>1 DEF SpawnBan, Free, TypeOK, ThreadShape, BetweenRules
<1>2. ASSUME NEW w \in Workers, NEW v \in Victims, SpawnUnban(w, v) PROVE ThreadShape'
  BY <1>2 DEF SpawnUnban, Free, TypeOK, ThreadShape, BetweenRules
<1>3. ASSUME NEW w \in Workers, NEW v \in Victims, NEW r \in RefreshResults,
             SpawnRefresh(w, v, r)
      PROVE ThreadShape'
  BY <1>3 DEF SpawnRefresh, Free, TypeOK, ThreadShape, BetweenRules
<1>4. ASSUME UNCHANGED thread_vars PROVE ThreadShape'
  BY <1>4 DEF ThreadShape, BetweenRules
<1>5. ASSUME NEW w \in Workers, StartBan(w) PROVE ThreadShape'
  BY <1>5 DEF StartBan, TypeOK, ThreadShape, BetweenRules, Idle, NoReply
<1>6. ASSUME NEW w \in Workers, StartUnban(w) PROVE ThreadShape'
  BY <1>6 DEF StartUnban, TypeOK, ThreadShape, BetweenRules, Idle, NoReply
<1>7. ASSUME NEW w \in Workers, RefreshProtocol(w) PROVE ThreadShape'
  <2> DEFINE result == Head(results[w])
             key == ProtocolOnlyKey(order[w].victim, result.protocol)
  <2>1. result.protocol # "ICMP" => key.destination_port = NoPort /\ key.protocol \in PortProtocols
    <3>1. results[w] # <<>> /\ results[w] \in Seq(ProtocolResult)
      BY <1>7 DEF RefreshProtocol, TypeOK
    <3>2. result \in ProtocolResult
      BY <3>1
    <3> QED
      BY <3>2 DEF ProtocolResult, Protocols, ProtocolOnlyKey
  <2>2. /\ order[w].op = "refresh"
        /\ BetweenRules(w)
        /\ order' = order /\ dels' = dels /\ reply' = reply
        /\ \E S : adds' = [adds EXCEPT ![w] = S]
        /\ \E S : escalate' = [escalate EXCEPT ![w] =
                                  IF result.protocol = "ICMP" THEN {} ELSE S \cap {key}]
    BY <1>7 DEF RefreshProtocol
  <2> HIDE DEF key, result
  <2>3. /\ \A k \in escalate'[w] : result.protocol # "ICMP" /\ k = key
        /\ \A x \in Workers \ {w} : escalate'[x] = escalate[x] /\ adds'[x] = adds[x]
    BY <2>2 DEF TypeOK
  <2> QED
    BY <2>1, <2>2, <2>3 DEF ThreadShape, BetweenRules, NoReply
<1>8. ASSUME NEW w \in Workers, FinishRefresh(w) PROVE ThreadShape'
  BY <1>8 DEF FinishRefresh, TypeOK, ThreadShape, BetweenRules, Idle
<1>9. ASSUME NEW w \in Workers, NEW k \in Keys, AddPath(w, k) PROVE ThreadShape'
  <2>1. PICK u \in Uuids \cup {NoUuid} :
           reply' = [reply EXCEPT ![w] = [rpc |-> "AddPath", key |-> k, uuid |-> u]]
    BY <1>9 DEF AddPath
  <2> QED
    BY <1>9, <2>1 DEF AddPath, TypeOK, ThreadShape, BetweenRules
<1>10. ASSUME NEW w \in Workers, NEW k \in Keys, DeletePath(w, k) PROVE ThreadShape'
  <2>1. PICK status \in {"ok", "error"} :
           reply' = [reply EXCEPT ![w] = [rpc |-> "DeletePath", key |-> k, status |-> status]]
    BY <1>10 DEF DeletePath
  <2>2. dels[w] # NoDels
    BY <1>10 DEF DeletePath, NoDels
  <2> QED
    BY <1>10, <2>1, <2>2 DEF DeletePath, TypeOK, ThreadShape, BetweenRules
<1>11. ASSUME NEW w \in Workers, NEW k \in Keys, CleanupRedundantPorts(w, k) PROVE ThreadShape'
  BY <1>11 DEF CleanupRedundantPorts, TypeOK, ThreadShape, BetweenRules, NoReply
<1>12. ASSUME NEW w \in Workers, ReportAdd(w) PROVE ThreadShape'
  BY <1>12 DEF ReportAdd, TypeOK, ThreadShape, BetweenRules, NoReply
<1>13. ASSUME NEW w \in Workers, ReportDelete(w) PROVE ThreadShape'
  BY <1>13 DEF ReportDelete, TypeOK, ThreadShape, BetweenRules, NoReply
<1> QED
  BY <1>1, <1>2, <1>3, <1>4, <1>5, <1>6, <1>7, <1>8, <1>9, <1>10, <1>11, <1>12, <1>13
     DEF Next, Environment, ThreadStep, ReserveCapture, AbandonCapture, ExecuteLate, vars

\* What a thread does to the table in one step, one method of the table does.
LEMMA StepIsMethod == TypeOK /\ ThreadShape /\ [Next]_vars => [LifecycleNext]_lifecycle_vars
<1> SUFFICES ASSUME TypeOK, ThreadShape, [Next]_vars PROVE [LifecycleNext]_lifecycle_vars
  OBVIOUS
<1>1. ASSUME NEW w \in Workers, StartBan(w) PROVE LifecycleNext
  BY <1>1, OrderShape DEF StartBan, LifecycleNext
<1>2. ASSUME NEW w \in Workers, StartUnban(w) PROVE LifecycleNext
  BY <1>2, OrderShape DEF StartUnban, LifecycleNext
<1>3. ASSUME NEW w \in Workers, RefreshProtocol(w) PROVE LifecycleNext
  <2> DEFINE v == order[w].victim
             result == Head(results[w])
             key == ProtocolOnlyKey(v, result.protocol)
             requests == {PortKey(v, result.protocol, p) : p \in result.significant_ports}
  <2>1. v \in Victims /\ result \in ProtocolResult
    BY <1>3, OrderShape DEF RefreshProtocol, TypeOK
  <2>2. CASE result.protocol = "ICMP"
    <3>1. key \in Keys
      BY <2>1, ProtocolOnlyKeyInKeys DEF ProtocolResult
    <3>2. Emplace(begin_refresh_announce(key))
      BY <1>3, <2>2 DEF RefreshProtocol
    <3> QED
      BY <3>1, <3>2 DEF LifecycleNext
  <2>3. CASE result.protocol # "ICMP"
    <3>1. result.protocol \in PortProtocols /\ result.significant_ports \in SUBSET Ports
      BY <2>1, <2>3 DEF ProtocolResult, Protocols
    <3>2. Emplace(begin_refresh_protocol_rules(key, requests))
      BY <1>3, <2>3 DEF RefreshProtocol
    <3> QED
      BY <2>1, <3>1, <3>2 DEF LifecycleNext
  <2> QED
    BY <2>2, <2>3
<1>4. ASSUME NEW w \in Workers, FinishRefresh(w) PROVE LifecycleNext
  BY <1>4, OrderShape DEF FinishRefresh, LifecycleNext
<1>5. ASSUME NEW w \in Workers, NEW k \in Keys, CleanupRedundantPorts(w, k) PROVE LifecycleNext
  <2>1. k.destination_port = NoPort /\ k.protocol \in PortProtocols /\ k.destination_ipv4 \in Victims
    BY <1>5, KeyShape DEF CleanupRedundantPorts, ThreadShape
  <2>2. k = ProtocolOnlyKey(k.destination_ipv4, k.protocol)
    BY <2>1 DEF ProtocolOnlyKey, Keys
  <2>3. begin_protocol_only_escalation_cleanup(ProtocolOnlyKey(k.destination_ipv4, k.protocol))
    BY <1>5, <2>2 DEF CleanupRedundantPorts
  <2> QED
    BY <2>1, <2>3 DEF LifecycleNext
<1>6. ASSUME NEW w \in Workers, ReportAdd(w) PROVE LifecycleNext
  <2>1. reply[w].key \in Keys /\ reply[w].uuid \in Uuids \cup {NoUuid}
    BY <1>6, ReplyShape DEF ReportAdd
  <2> QED
    BY <1>6, <2>1 DEF ReportAdd, LifecycleNext
<1>7. ASSUME NEW w \in Workers, ReportDelete(w) PROVE LifecycleNext
  <2>1. reply[w].key \in Keys /\ dels[w][reply[w].key] \in Uuids
    BY <1>7, ReplyShape DEF ReportDelete, ThreadShape, TypeOK
  <2>2. complete_withdraw(reply[w].key, dels[w][reply[w].key], reply[w].status = "ok")
    BY <1>7 DEF ReportDelete
  <2>3. (reply[w].status = "ok") \in BOOLEAN
    OBVIOUS
  <2> QED
    BY <2>1, <2>2, <2>3, Zenon DEF LifecycleNext
<1>8. ASSUME NEW v \in Victims, ReserveCapture(v) \/ AbandonCapture(v) PROVE LifecycleNext
  BY <1>8 DEF ReserveCapture, AbandonCapture, LifecycleNext
<1>9. ASSUME NEW w \in Workers, NEW k \in Keys,
             SpawnBan(w, k) \/ AddPath(w, k) \/ DeletePath(w, k)
      PROVE  UNCHANGED lifecycle_vars
  BY <1>9 DEF SpawnBan, AddPath, DeletePath
<1>10. ASSUME NEW w \in Workers, NEW v \in Victims,
              SpawnUnban(w, v) \/ \E r \in RefreshResults : SpawnRefresh(w, v, r)
       PROVE  UNCHANGED lifecycle_vars
  BY <1>10 DEF SpawnUnban, SpawnRefresh
<1> QED
  BY <1>1, <1>2, <1>3, <1>4, <1>5, <1>6, <1>7, <1>8, <1>9, <1>10
     DEF Next, Environment, ThreadStep, ExecuteLate, vars

\* Every behaviour of the threads is a behaviour of the table on its own: the refinement
\* that carries the theorems about the table over to the running system.
THEOREM MethodsOnly == Spec => UsesTableMethods
<1>1. Init => TypeOK /\ ThreadShape /\ LifecycleInit
  BY InitTypeOK DEF Init, ThreadShape, BetweenRules, Idle, NoReply
<1> QED
  BY <1>1, StepTypeOK, StepThreadShape, StepIsMethod, PTL DEF Spec, UsesTableMethods, LifecycleSpec

(***************************************************************************)
(* Ownership of the unfinished calls.                                      *)
(***************************************************************************)

ThreadInv ==
    /\ TypeOK
    /\ TableInv
    /\ ThreadShape
    /\ OneAnnouncer
    /\ OneDeleter
    /\ OneRefresh
    /\ OvertakenFenced

\* What the table enters as announcing was absent before.
LEMMA AnnouncedWasAbsent ==
    ASSUME NEW w \in Workers, TypeOK, StartBan(w) \/ RefreshProtocol(w)
    PROVE  \E S \in SUBSET Keys :
             /\ \A k \in S : rule_state[k] = "absent"
             /\ Emplace(S)
             /\ adds' = [adds EXCEPT ![w] = S]
<1>1. CASE StartBan(w)
  <2>1. order[w].key \in Keys
    BY <1>1, OrderShape DEF StartBan
  <2> QED
    BY <1>1, <2>1 DEF StartBan, begin_announce, AnnounceAllowed
<1>2. CASE RefreshProtocol(w)
  <2> DEFINE v == order[w].victim
             result == Head(results[w])
             key == ProtocolOnlyKey(v, result.protocol)
             requests == {PortKey(v, result.protocol, p) : p \in result.significant_ports}
             announce == IF result.protocol = "ICMP" THEN begin_refresh_announce(key)
                         ELSE begin_refresh_protocol_rules(key, requests)
  <2>1. v \in Victims /\ result \in ProtocolResult
    BY <1>2, OrderShape DEF RefreshProtocol, TypeOK
  <2>2. key \in Keys
    BY <2>1, ProtocolOnlyKeyInKeys DEF ProtocolResult
  <2>3. result.protocol # "ICMP" => requests \subseteq Keys
    BY <2>1, PortKeyInKeys DEF ProtocolResult, Protocols
  <2>4. Emplace(announce) /\ adds' = [adds EXCEPT ![w] = announce]
    BY <1>2 DEF RefreshProtocol
  <2> HIDE DEF key, requests, result
  <2>5. announce \in SUBSET Keys /\ \A k \in announce : rule_state[k] = "absent"
    BY <2>2, <2>3 DEF begin_refresh_announce, begin_refresh_protocol_rules, AnnounceAllowed
  <2> QED
    BY <2>4, <2>5
<1> QED
  BY <1>1, <1>2

\* An escalation cleanup or an UNBAN marks a running AddPath, and leaves it running.
LEMMA WithdrawStartKeepsAdds ==
    ASSUME LifecycleTypeOK, UuidShape, NEW S,
           rule_state' = StatesAfterWithdrawStart(S), add_path_uuid' = add_path_uuid
    PROVE  \A k \in Keys : AddPending(k)' <=> AddPending(k)
  BY DEF AddPending, StatesAfterWithdrawStart, Withdrawable, UuidShape, LifecycleTypeOK

\* Every step keeps one announcer per unfinished announcement.
LEMMA StepOneAnnouncer == ThreadInv /\ [Next]_vars => OneAnnouncer'
<1> SUFFICES ASSUME ThreadInv, [Next]_vars PROVE OneAnnouncer'
  OBVIOUS
<1>0. TypeOK /\ LifecycleTypeOK /\ UuidShape /\ ThreadShape /\ OneAnnouncer /\ OneDeleter
  BY DEF ThreadInv, TableInv
<1>1. ASSUME UNCHANGED <<rule_state, add_path_uuid, adds>> PROVE OneAnnouncer'
  BY <1>0, <1>1 DEF OneAnnouncer, AddPending
<1>2. ASSUME NEW w \in Workers, StartBan(w) \/ RefreshProtocol(w) PROVE OneAnnouncer'
  <2>1. adds[w] = {}
    BY <1>0, <1>2 DEF StartBan, RefreshProtocol, ThreadShape, BetweenRules
  <2>2. PICK S \in SUBSET Keys :
             /\ \A k \in S : rule_state[k] = "absent"
             /\ Emplace(S)
             /\ adds' = [adds EXCEPT ![w] = S]
    BY <1>0, <1>2, AnnouncedWasAbsent
  <2>3. \A k \in Keys : AddPending(k)' <=> AddPending(k) \/ k \in S
    BY <2>2 DEF Emplace, AddPending
  <2>4. \A k \in S : ~AddPending(k)
    BY <2>2 DEF AddPending
  <2>5. \A x \in Workers : adds'[x] = IF x = w THEN S ELSE adds[x]
    BY <1>0, <2>2 DEF TypeOK
  <2> QED
    BY <1>0, <2>1, <2>3, <2>4, <2>5 DEF OneAnnouncer
<1>3. ASSUME NEW w \in Workers, StartUnban(w) \/ \E k \in Keys : CleanupRedundantPorts(w, k)
      PROVE OneAnnouncer'
  <2>1. /\ \E S : rule_state' = StatesAfterWithdrawStart(S)
        /\ UNCHANGED <<add_path_uuid, adds>>
    BY <1>3 DEF StartUnban, CleanupRedundantPorts, begin_withdraw_for_victim,
                begin_protocol_only_escalation_cleanup
  <2> QED
    BY <1>0, <2>1, WithdrawStartKeepsAdds DEF OneAnnouncer
<1>4. ASSUME NEW w \in Workers, ReportAdd(w) PROVE OneAnnouncer'
  <2>1. PICK k \in Keys, u \in Uuids \cup {NoUuid} :
           k = reply[w].key /\ u = reply[w].uuid /\ k \in adds[w]
    BY <1>0, <1>4, ReplyShape DEF ReportAdd, ThreadShape
  <2>2. AddPending(k)
    BY <1>0, <2>1 DEF OneAnnouncer
  <2>3. IF u = NoUuid THEN fail_announce(k) ELSE complete_announce(k, u)
    BY <1>4, <2>1 DEF ReportAdd
  <2>4. ~AddPending(k)'
    BY <1>0, <2>2, <2>3
       DEF AddPending, fail_announce, complete_announce, announce_completion, LifecycleTypeOK
  <2>5. \A m \in Keys : m # k => (AddPending(m)' <=> AddPending(m))
    BY <1>0, <2>3
       DEF AddPending, fail_announce, complete_announce, LifecycleTypeOK, lifecycle_vars
  <2>6. \A x \in Workers : adds'[x] = IF x = w THEN adds[x] \ {k} ELSE adds[x]
    BY <1>0, <1>4, <2>1 DEF ReportAdd, TypeOK
  <2>7. \A x \in Workers : x # w => k \notin adds[x]
    BY <1>0, <2>1 DEF OneAnnouncer
  <2>8. \A x \in Workers, m \in Keys : m \in adds'[x] <=> m \in adds[x] /\ m # k
    BY <2>6, <2>7
  <2>9. \A m \in Keys : AddPending(m)' <=> \E x \in Workers : m \in adds'[x]
    BY <1>0, <2>4, <2>5, <2>8 DEF OneAnnouncer
  <2>10. \A x, y \in Workers : x # y => adds'[x] \cap adds'[y] = {}
    BY <1>0, <2>6 DEF OneAnnouncer
  <2> QED
    BY <2>9, <2>10 DEF OneAnnouncer
<1>5. ASSUME NEW w \in Workers, ReportDelete(w) PROVE OneAnnouncer'
  <2> DEFINE k == reply[w].key
  <2>1. k \in Keys /\ dels[w][k] # NoUuid
    BY <1>0, <1>5, ReplyShape DEF ReportDelete, ThreadShape
  <2>2. rule_state[k] = "withdrawing" /\ add_path_uuid[k] = dels[w][k]
    BY <1>0, <2>1 DEF OneDeleter
  <2>3. complete_withdraw(k, dels[w][k], reply[w].status = "ok") /\ adds' = adds
    BY <1>5 DEF ReportDelete
  <2>4. \A m \in Keys : AddPending(m)' <=> AddPending(m)
    BY <1>0, <2>1, <2>2, <2>3
       DEF AddPending, complete_withdraw, LifecycleTypeOK, lifecycle_vars
  <2> QED
    BY <1>0, <2>3, <2>4 DEF OneAnnouncer
<1> QED
  BY <1>1, <1>2, <1>3, <1>4, <1>5
     DEF Next, Environment, ThreadStep, SpawnBan, SpawnUnban, SpawnRefresh, ReserveCapture,
         AbandonCapture, ExecuteLate, FinishRefresh, AddPath, DeletePath, thread_vars,
         lifecycle_vars, begin_refresh_capture, finish_refresh_capture, vars

\* A rule some thread owes a DeletePath for is out of reach of every other method.
LEMMA StepOneDeleter == ThreadInv /\ [Next]_vars => OneDeleter'
<1> SUFFICES ASSUME ThreadInv, [Next]_vars PROVE OneDeleter'
  OBVIOUS
<1>0. TypeOK /\ LifecycleTypeOK /\ UuidShape /\ ThreadShape /\ OneAnnouncer /\ OneDeleter
  BY DEF ThreadInv, TableInv
<1>1. ASSUME UNCHANGED <<rule_state, add_path_uuid, dels>> PROVE OneDeleter'
  BY <1>0, <1>1 DEF OneDeleter
<1>2. ASSUME NEW w \in Workers, StartBan(w) \/ RefreshProtocol(w) PROVE OneDeleter'
  <2>1. PICK S \in SUBSET Keys : (\A k \in S : rule_state[k] = "absent") /\ Emplace(S)
    BY <1>0, <1>2, AnnouncedWasAbsent
  <2>2. dels' = dels
    BY <1>2 DEF StartBan, RefreshProtocol
  <2>3. \A k \in Keys : /\ rule_state'[k] = "withdrawing" <=> rule_state[k] = "withdrawing"
                        /\ rule_state[k] = "withdrawing" => add_path_uuid'[k] = add_path_uuid[k]
    BY <2>1 DEF Emplace
  <2> QED
    BY <1>0, <2>2, <2>3 DEF OneDeleter
<1>3. ASSUME NEW w \in Workers, NEW S \in SUBSET Keys, dels[w] = NoDels,
             rule_state' = StatesAfterWithdrawStart(S),
             dels' = [dels EXCEPT ![w] = RequestsOf(S)],
             add_path_uuid' = add_path_uuid
      PROVE  OneDeleter'
  <2>1. \A k \in Keys : /\ k \in S /\ Withdrawable(k) => add_path_uuid[k] # NoUuid
                        /\ Withdrawable(k) => rule_state[k] # "withdrawing"
    BY <1>0 DEF Withdrawable, UuidShape
  <2>2. \A k \in Keys : rule_state'[k] = "withdrawing" <=>
                          rule_state[k] = "withdrawing" \/ (k \in S /\ Withdrawable(k))
    BY <1>3 DEF StatesAfterWithdrawStart, Withdrawable
  <2>3. \A x \in Workers, k \in Keys :
          dels'[x][k] = IF x # w THEN dels[x][k]
                        ELSE IF k \in S /\ Withdrawable(k) THEN add_path_uuid[k] ELSE NoUuid
    BY <1>0, <1>3 DEF TypeOK, RequestsOf, withdraw_requests
  <2>4. \A k \in Keys : dels[w][k] = NoUuid
    BY <1>3 DEF NoDels
  <2> QED
    BY <1>0, <1>3, <2>1, <2>2, <2>3, <2>4 DEF OneDeleter
<1>4. ASSUME NEW w \in Workers, StartUnban(w) PROVE OneDeleter'
  <2>1. dels[w] = NoDels
    BY <1>0, <1>4 DEF StartUnban, ThreadShape, BetweenRules
  <2> QED
    BY <1>3, <1>4, <2>1 DEF StartUnban, begin_withdraw_for_victim, RulesOfVictim
<1>5. ASSUME NEW w \in Workers, NEW k \in Keys, CleanupRedundantPorts(w, k) PROVE OneDeleter'
  <2>1. EscalationCleanup(k) \in SUBSET Keys
    BY DEF EscalationCleanup
  <2> QED
    BY <1>3, <1>5, <2>1 DEF CleanupRedundantPorts, begin_protocol_only_escalation_cleanup
<1>6. ASSUME NEW w \in Workers, ReportAdd(w) PROVE OneDeleter'
  <2>1. PICK k \in Keys, u \in Uuids \cup {NoUuid} :
           k = reply[w].key /\ u = reply[w].uuid /\ k \in adds[w]
    BY <1>0, <1>6, ReplyShape DEF ReportAdd, ThreadShape
  <2>2. AddPending(k)
    BY <1>0, <2>1 DEF OneAnnouncer
  <2>3. \A x \in Workers : dels[x][k] = NoUuid
    BY <1>0, <2>2 DEF OneDeleter, AddPending
  <2>4. IF u = NoUuid THEN fail_announce(k) ELSE complete_announce(k, u)
    BY <1>6, <2>1 DEF ReportAdd
  <2>5. \A m \in Keys \ {k} : rule_state'[m] = rule_state[m] /\ add_path_uuid'[m] = add_path_uuid[m]
    BY <1>0, <2>4 DEF fail_announce, complete_announce, LifecycleTypeOK, lifecycle_vars
  <2>6. \A x \in Workers, m \in Keys : x # w \/ m # k => dels'[x][m] = dels[x][m]
    BY <1>0, <1>6, <2>1 DEF ReportAdd, TypeOK
  <2>7. CASE u # NoUuid /\ announce_completion(k) = "withdraw_required"
    <3>1. rule_state'[k] = "withdrawing" /\ add_path_uuid'[k] = u
      BY <1>0, <2>4, <2>7 DEF complete_announce, LifecycleTypeOK
    <3>2. dels'[w][k] = u
      BY <1>0, <1>6, <2>1, <2>7 DEF ReportAdd, TypeOK
    <3> QED
      BY <1>0, <2>3, <2>5, <2>6, <2>7, <3>1, <3>2 DEF OneDeleter
  <2>8. CASE ~(u # NoUuid /\ announce_completion(k) = "withdraw_required")
    <3>1. rule_state'[k] # "withdrawing"
      BY <1>0, <2>2, <2>4, <2>8
         DEF fail_announce, complete_announce, announce_completion, AddPending, LifecycleTypeOK
    <3>2. dels'[w][k] = NoUuid
      BY <1>0, <1>6, <2>1, <2>3, <2>8 DEF ReportAdd, TypeOK
    <3> QED
      BY <1>0, <2>3, <2>5, <2>6, <3>1, <3>2 DEF OneDeleter
  <2> QED
    BY <2>7, <2>8
<1>7. ASSUME NEW w \in Workers, ReportDelete(w) PROVE OneDeleter'
  <2>1. PICK k \in Keys : k = reply[w].key /\ dels[w][k] # NoUuid
    BY <1>0, <1>7, ReplyShape DEF ReportDelete, ThreadShape
  <2>2. /\ rule_state[k] = "withdrawing"
        /\ add_path_uuid[k] = dels[w][k]
        /\ \A x \in Workers : x # w => dels[x][k] = NoUuid
    BY <1>0, <2>1 DEF OneDeleter
  <2>3. complete_withdraw(k, dels[w][k], reply[w].status = "ok")
    BY <1>7, <2>1 DEF ReportDelete
  <2>4. rule_state'[k] # "withdrawing"
    BY <1>0, <2>2, <2>3 DEF complete_withdraw, LifecycleTypeOK
  <2>5. \A m \in Keys \ {k} : rule_state'[m] = rule_state[m] /\ add_path_uuid'[m] = add_path_uuid[m]
    BY <1>0, <2>3 DEF complete_withdraw, LifecycleTypeOK, lifecycle_vars
  <2>6. \A x \in Workers, m \in Keys :
          dels'[x][m] = IF x = w /\ m = k THEN NoUuid ELSE dels[x][m]
    BY <1>0, <1>7, <2>1 DEF ReportDelete, TypeOK
  <2> QED
    BY <1>0, <2>2, <2>4, <2>5, <2>6 DEF OneDeleter
<1> QED
  BY <1>1, <1>2, <1>4, <1>5, <1>6, <1>7
     DEF Next, Environment, ThreadStep, SpawnBan, SpawnUnban, SpawnRefresh, ReserveCapture,
         AbandonCapture, ExecuteLate, FinishRefresh, AddPath, DeletePath, thread_vars,
         lifecycle_vars, begin_refresh_capture, finish_refresh_capture, vars

\* Every step keeps one owner per reservation.
LEMMA StepOneRefresh == ThreadInv /\ [Next]_vars => OneRefresh'
<1> SUFFICES ASSUME ThreadInv, [Next]_vars PROVE OneRefresh'
  OBVIOUS
<1>0. TypeOK /\ OneRefresh
  BY DEF ThreadInv
<1>1. ASSUME NEW w \in Workers, NEW o \in Orders, order[w].op # "refresh", o.op # "refresh",
             order' = [order EXCEPT ![w] = o],
             UNCHANGED <<captures, victims_refresh_in_progress>>
      PROVE  OneRefresh'
  <2>1. \A x \in Workers : order'[x] = IF x = w THEN o ELSE order[x]
    BY <1>0, <1>1 DEF TypeOK
  <2> QED
    BY <1>0, <1>1, <2>1 DEF OneRefresh
<1>2. ASSUME UNCHANGED <<order, captures, victims_refresh_in_progress>> PROVE OneRefresh'
  BY <1>0, <1>2 DEF OneRefresh
<1>3. ASSUME NEW w \in Workers, NEW v \in Victims, NEW r \in RefreshResults,
             SpawnRefresh(w, v, r)
      PROVE  OneRefresh'
  <2>1. \A x \in Workers : order'[x] = IF x = w THEN [op |-> "refresh", victim |-> v] ELSE order[x]
    BY <1>0, <1>3 DEF SpawnRefresh, TypeOK
  <2>2. /\ order[w].op # "refresh"
        /\ v \in captures /\ captures' = captures \ {v}
        /\ victims_refresh_in_progress' = victims_refresh_in_progress
    BY <1>3 DEF SpawnRefresh, Free, Idle, lifecycle_vars
  <2>3. \A x \in Workers : order[x] # [op |-> "refresh", victim |-> v]
    BY <1>0, <2>2 DEF OneRefresh
  <2> QED
    BY <1>0, <2>1, <2>2, <2>3 DEF OneRefresh
<1>4. ASSUME NEW v \in Victims, ReserveCapture(v) PROVE OneRefresh'
  <2>1. /\ order' = order
        /\ captures' = captures \cup {v}
        /\ v \notin victims_refresh_in_progress
        /\ victims_refresh_in_progress' = victims_refresh_in_progress \cup {v}
    BY <1>4 DEF ReserveCapture, begin_refresh_capture, CaptureAllowed, thread_vars
  <2>2. \A x \in Workers : order[x] # [op |-> "refresh", victim |-> v]
    BY <1>0, <2>1 DEF OneRefresh
  <2>3. \A x \in Workers : order[x].op = "refresh" => order[x].victim # v
    BY <1>0, <2>2 DEF TypeOK, Orders, Idle
  <2> QED
    BY <1>0, <2>1, <2>3 DEF OneRefresh
<1>5. ASSUME NEW v \in Victims, AbandonCapture(v) PROVE OneRefresh'
  <2>1. /\ order' = order
        /\ v \in captures /\ captures' = captures \ {v}
        /\ victims_refresh_in_progress' = victims_refresh_in_progress \ {v}
    BY <1>5 DEF AbandonCapture, finish_refresh_capture, thread_vars
  <2>2. \A x \in Workers : order[x] # [op |-> "refresh", victim |-> v]
    BY <1>0, <2>1 DEF OneRefresh
  <2> QED
    BY <1>0, <2>1, <2>2 DEF OneRefresh
<1>6. ASSUME NEW w \in Workers, FinishRefresh(w) PROVE OneRefresh'
  <2>1. PICK v \in Victims : order[w] = [op |-> "refresh", victim |-> v]
    BY <1>0, <1>6 DEF FinishRefresh, TypeOK, Orders, Idle
  <2>2. \A x \in Workers : order'[x] = IF x = w THEN Idle ELSE order[x]
    BY <1>0, <1>6 DEF FinishRefresh, TypeOK
  <2>3. /\ captures' = captures
        /\ victims_refresh_in_progress' = victims_refresh_in_progress \ {v}
    BY <1>6, <2>1 DEF FinishRefresh, finish_refresh_capture
  <2>4. v \notin captures /\ \A x \in Workers : x # w => order[x] # [op |-> "refresh", victim |-> v]
    BY <1>0, <2>1 DEF OneRefresh
  <2>5. Idle.op # "refresh"
    BY DEF Idle
  <2> QED
    BY <1>0, <2>1, <2>2, <2>3, <2>4, <2>5 DEF OneRefresh
<1>7. ASSUME NEW w \in Workers, NEW k \in Keys, SpawnBan(w, k) PROVE OneRefresh'
  <2>1. [op |-> "ban", key |-> k] \in Orders
    BY DEF Orders
  <2>2. order[w].op # "refresh"
    BY <1>7 DEF SpawnBan, Free, Idle
  <2>3. /\ order' = [order EXCEPT ![w] = [op |-> "ban", key |-> k]]
        /\ UNCHANGED <<captures, victims_refresh_in_progress>>
    BY <1>7 DEF SpawnBan, lifecycle_vars
  <2> QED
    BY <1>1, <2>1, <2>2, <2>3
<1>8. ASSUME NEW w \in Workers, NEW v \in Victims, SpawnUnban(w, v) PROVE OneRefresh'
  <2>1. [op |-> "unban", victim |-> v] \in Orders
    BY DEF Orders
  <2>2. order[w].op # "refresh"
    BY <1>8 DEF SpawnUnban, Free, Idle
  <2>3. /\ order' = [order EXCEPT ![w] = [op |-> "unban", victim |-> v]]
        /\ UNCHANGED <<captures, victims_refresh_in_progress>>
    BY <1>8 DEF SpawnUnban, lifecycle_vars
  <2> QED
    BY <1>1, <2>1, <2>2, <2>3
<1>9. ASSUME NEW w \in Workers, StartBan(w) \/ StartUnban(w) PROVE OneRefresh'
  BY <1>1, <1>9 DEF StartBan, StartUnban, Idle, Orders, Emplace, begin_withdraw_for_victim
<1>10. ASSUME NEW w \in Workers, ReportAdd(w) PROVE OneRefresh'
  BY <1>2, <1>10 DEF ReportAdd, fail_announce, complete_announce, lifecycle_vars
<1>11. ASSUME NEW w \in Workers, ReportDelete(w) PROVE OneRefresh'
  BY <1>2, <1>11 DEF ReportDelete, complete_withdraw, lifecycle_vars
<1>12. ASSUME NEW w \in Workers, RefreshProtocol(w) PROVE OneRefresh'
  BY <1>2, <1>12 DEF RefreshProtocol, Emplace
<1>13. ASSUME NEW w \in Workers, NEW k \in Keys,
              AddPath(w, k) \/ DeletePath(w, k) \/ CleanupRedundantPorts(w, k)
       PROVE  OneRefresh'
  BY <1>2, <1>13 DEF AddPath, DeletePath, CleanupRedundantPorts, lifecycle_vars,
                     begin_protocol_only_escalation_cleanup
<1> QED
  BY <1>2, <1>3, <1>4, <1>5, <1>6, <1>7, <1>8, <1>9, <1>10, <1>11, <1>12, <1>13
     DEF Next, Environment, ThreadStep, ExecuteLate, thread_vars, lifecycle_vars, vars

\* The fence an UNBAN raised over a reserved capture outlives that capture.
LEMMA StepOvertakenFenced == ThreadInv /\ [Next]_vars => OvertakenFenced'
<1> SUFFICES ASSUME ThreadInv, [Next]_vars PROVE OvertakenFenced'
  OBVIOUS
<1>0. TypeOK /\ OvertakenFenced
  BY DEF ThreadInv
<1>1. ASSUME UNCHANGED <<victims_withdraw_requested, victims_refresh_in_progress, overtaken>>
      PROVE  OvertakenFenced'
  BY <1>0, <1>1 DEF OvertakenFenced
<1>2. ASSUME NEW v \in Victims, ReserveCapture(v) PROVE OvertakenFenced'
  BY <1>0, <1>2 DEF ReserveCapture, begin_refresh_capture, OvertakenFenced
<1>3. ASSUME NEW v \in Victims, finish_refresh_capture(v), overtaken' = overtaken \ {v}
      PROVE  OvertakenFenced'
  BY <1>0, <1>3, FenceCases DEF finish_refresh_capture, OvertakenFenced
<1>4. ASSUME NEW w \in Workers, StartUnban(w) PROVE OvertakenFenced'
  <2> DEFINE v == order[w].victim
  <2>1. /\ victims_withdraw_requested' =
             ClearFenceIfFinished(v, victims_withdraw_requested \cup {v}, rule_state',
                                  victims_refresh_in_progress)
        /\ victims_refresh_in_progress' = victims_refresh_in_progress
        /\ overtaken' = overtaken \cup ({v} \cap victims_refresh_in_progress)
    BY <1>4 DEF StartUnban, begin_withdraw_for_victim
  <2> HIDE DEF v
  <2> QED
    BY <1>0, <2>1, FenceCases DEF OvertakenFenced
<1>5. ASSUME NEW w \in Workers, ReportAdd(w) \/ ReportDelete(w) PROVE OvertakenFenced'
  <2>1. /\ \/ victims_withdraw_requested' = victims_withdraw_requested
           \/ \E v, states : victims_withdraw_requested' =
                ClearFenceIfFinished(v, victims_withdraw_requested, states,
                                     victims_refresh_in_progress)
        /\ UNCHANGED <<victims_refresh_in_progress, overtaken>>
    BY <1>5 DEF ReportAdd, ReportDelete, fail_announce, complete_announce, complete_withdraw,
                lifecycle_vars
  <2> QED
    BY <1>0, <2>1, FenceCases DEF OvertakenFenced
<1>6. ASSUME NEW w \in Workers, StartBan(w) \/ RefreshProtocol(w) PROVE OvertakenFenced'
  BY <1>1, <1>6 DEF StartBan, RefreshProtocol, Emplace
<1>7. ASSUME NEW w \in Workers, NEW k \in Keys,
             AddPath(w, k) \/ DeletePath(w, k) \/ CleanupRedundantPorts(w, k)
      PROVE  OvertakenFenced'
  BY <1>1, <1>7 DEF AddPath, DeletePath, CleanupRedundantPorts, lifecycle_vars,
                    begin_protocol_only_escalation_cleanup
<1>8. ASSUME NEW w \in Workers, FinishRefresh(w) PROVE OvertakenFenced'
  <2>1. order[w].victim \in Victims
    BY <1>0, <1>8, OrderShape DEF FinishRefresh
  <2> QED
    BY <1>3, <1>8, <2>1 DEF FinishRefresh
<1> QED
  BY <1>1, <1>2, <1>3, <1>4, <1>5, <1>6, <1>7, <1>8
     DEF Next, Environment, ThreadStep, ExecuteLate, SpawnBan, SpawnUnban, SpawnRefresh,
         AbandonCapture, lifecycle_vars, vars

\* The initial state satisfies the threads' invariant.
LEMMA InitThreadInv == Init => ThreadInv
<1> SUFFICES ASSUME Init PROVE ThreadInv
  OBVIOUS
<1>1. TypeOK /\ TableInv
  BY InitTypeOK, InitTableInv DEF Init
<1>2. ThreadShape
  BY DEF Init, ThreadShape, BetweenRules, Idle, NoReply
<1>3. OneAnnouncer /\ OneDeleter
  BY DEF Init, LifecycleInit, OneAnnouncer, OneDeleter, AddPending, NoDels
<1>4. OneRefresh /\ OvertakenFenced
  BY DEF Init, LifecycleInit, OneRefresh, OvertakenFenced, Idle
<1> QED
  BY <1>1, <1>2, <1>3, <1>4 DEF ThreadInv

\* Every step keeps it.
LEMMA StepThreadInv == ThreadInv /\ [Next]_vars => ThreadInv'
<1> SUFFICES ASSUME ThreadInv, [Next]_vars PROVE ThreadInv'
  OBVIOUS
<1>1. TypeOK' /\ ThreadShape'
  BY StepTypeOK, StepThreadShape DEF ThreadInv
<1>2. TableInv'
  BY StepIsMethod, StepTableInv DEF ThreadInv
<1>3. OneAnnouncer' /\ OneDeleter' /\ OneRefresh' /\ OvertakenFenced'
  BY StepOneAnnouncer, StepOneDeleter, StepOneRefresh, StepOvertakenFenced
<1> QED
  BY <1>1, <1>2, <1>3 DEF ThreadInv

\* The threads' invariant holds in every behaviour.
LEMMA ThreadInvHolds == Spec => []ThreadInv
  BY InitThreadInv, StepThreadInv, PTL DEF Spec

\* However many BAN, UNBAN and refresh threads run, a rule that waits for an AddPath has
\* exactly one thread that will report it: no rule is stranded or announced twice.
THEOREM AnnouncerIsUnique == Spec => []OneAnnouncer
<1>1. ThreadInv => OneAnnouncer
  BY DEF ThreadInv
<1> QED
  BY <1>1, ThreadInvHolds, PTL

\* A withdrawing rule has exactly one thread that owes its DeletePath, and that thread
\* names the path the table names.
THEOREM DeleterIsUnique == Spec => []OneDeleter
<1>1. ThreadInv => OneDeleter
  BY DEF ThreadInv
<1> QED
  BY <1>1, ThreadInvHolds, PTL

\* A victim's refresh reservation has exactly one capture or thread that will end it.
THEOREM RefreshIsUnique == Spec => []OneRefresh
<1>1. ThreadInv => OneRefresh
  BY DEF ThreadInv
<1> QED
  BY <1>1, ThreadInvHolds, PTL

\* complete_announce and complete_withdraw find the rule in the state the reporting thread
\* left it in: their "not updated" and "not erased" branches are dead.
THEOREM CompletionsApply == Spec => []NoIgnoredCompletion
<1>1. ThreadInv => NoIgnoredCompletion
  <2> SUFFICES ASSUME ThreadInv, NEW w \in Workers
               PROVE  /\ reply[w].rpc = "AddPath" => announce_completion(reply[w].key) # "ignored"
                      /\ reply[w].rpc = "DeletePath" =>
                           /\ rule_state[reply[w].key] = "withdrawing"
                           /\ add_path_uuid[reply[w].key] = dels[w][reply[w].key]
    BY DEF NoIgnoredCompletion
  <2>0. TypeOK /\ ThreadShape /\ OneAnnouncer /\ OneDeleter
    BY DEF ThreadInv
  <2>1. ASSUME reply[w].rpc = "AddPath" PROVE announce_completion(reply[w].key) # "ignored"
    <3>1. AddPending(reply[w].key)
      BY <2>0, <2>1, ReplyShape DEF ThreadShape, OneAnnouncer
    <3> QED
      BY <3>1 DEF AddPending, announce_completion
  <2>2. ASSUME reply[w].rpc = "DeletePath"
        PROVE  /\ rule_state[reply[w].key] = "withdrawing"
               /\ add_path_uuid[reply[w].key] = dels[w][reply[w].key]
    BY <2>0, <2>2, ReplyShape DEF ThreadShape, OneDeleter
  <2> QED
    BY <2>1, <2>2
<1> QED
  BY <1>1, ThreadInvHolds, PTL

\* A refresh that was reserved before an UNBAN never leaves a rule announcing or installed
\* after it, at whatever point of its capture, classification or calls the UNBAN came.
THEOREM UnbanBeatsRefresh == Spec => []NoPathAfterUnban
<1>1. ThreadInv => NoPathAfterUnban
  BY DEF ThreadInv, TableInv, OvertakenFenced, FenceExcludesLive, NoPathAfterUnban
<1> QED
  BY <1>1, ThreadInvHolds, PTL

(***************************************************************************)
(* The limit on port rules.                                                *)
(***************************************************************************)

\* Counting the port rules of a family is counting their ports.
LEMMA PortRulesAreTheirPorts ==
    ASSUME NEW v, NEW proto, NEW P \in SUBSET Ports, NEW K,
           \A p \in P : PortKey(v, proto, p) \in K,
           \A k \in K : \E p \in P : k = PortKey(v, proto, p)
    PROVE  /\ IsFiniteSet(P) /\ IsFiniteSet(K)
           /\ Cardinality(K) = Cardinality(P)
<1> DEFINE f == [p \in P |-> PortKey(v, proto, p)]
<1>1. IsFiniteSet(P)
  BY LifecycleAssumption, FS_Subset
<1>2. f \in [P -> K] /\ \A p, q \in P : f[p] = f[q] => p = q
  BY DEF PortKey
<1>3. \A k \in K : \E p \in P : f[p] = k
  OBVIOUS
<1>4. f \in Injection(P, K)
  BY <1>2 DEF Injection, IsInjective
<1>5. f \in Surjection(P, K)
  BY <1>2, <1>3 DEF Surjection
<1>6. ExistsBijection(P, K)
  BY <1>4, <1>5 DEF ExistsBijection, Bijection
<1> QED
  BY <1>1, <1>6, FS_Bijection

\* The ports of the rules a victim and protocol have in the table.
BusyPorts(v, proto) == {p \in Ports : rule_state[PortKey(v, proto, p)] # "absent"}

\* The rules a refresh counts are those of the ports with an entry.
LEMMA ExistingAreBusy ==
    ASSUME NEW v \in Victims, NEW proto \in PortProtocols
    PROVE  ExistingPortRules(ProtocolOnlyKey(v, proto)) =
             {PortKey(v, proto, p) : p \in BusyPorts(v, proto)}
<1> DEFINE E == ExistingPortRules(ProtocolOnlyKey(v, proto))
           K == {PortKey(v, proto, p) : p \in BusyPorts(v, proto)}
<1>1. ASSUME NEW k \in E PROVE k \in K
  <2>1. /\ k \in Keys /\ rule_state[k] # "absent"
        /\ k.destination_ipv4 = v /\ k.protocol = proto /\ k.destination_port # NoPort
    BY DEF ExistingPortRules, SamePortFamily, ProtocolOnlyKey
  <2>2. k.destination_port \in Ports /\ k = PortKey(v, proto, k.destination_port)
    BY <2>1, KeyShape DEF PortKey
  <2> QED
    BY <2>1, <2>2 DEF BusyPorts
<1>2. ASSUME NEW p \in BusyPorts(v, proto) PROVE PortKey(v, proto, p) \in E
  <2>1. p \in Ports /\ PortKey(v, proto, p) \in Keys
    BY PortKeyInKeys DEF BusyPorts
  <2> QED
    BY <2>1, LifecycleAssumption
       DEF BusyPorts, ExistingPortRules, SamePortFamily, ProtocolOnlyKey, PortKey
<1> QED
  BY <1>1, <1>2

\* A refresh plan that stays with port rules leaves their number within the limit.
LEMMA PlanWithinLimit ==
    ASSUME LifecycleTypeOK, NEW v \in Victims, NEW proto \in PortProtocols, NEW R \in SUBSET Ports,
           NEW S, S = {k \in {PortKey(v, proto, p) : p \in R} : rule_state[k] = "absent"},
           Cardinality(ExistingPortRules(ProtocolOnlyKey(v, proto))) + Cardinality(S) <= MaxPortRules,
           Emplace(S)
    PROVE  Cardinality(BusyPorts(v, proto)') <= MaxPortRules
<1> DEFINE B == BusyPorts(v, proto)
           N == {p \in R : rule_state[PortKey(v, proto, p)] = "absent"}
<1>1. B \in SUBSET Ports /\ N \in SUBSET Ports
  BY DEF BusyPorts
<1>2. S = {PortKey(v, proto, p) : p \in N}
  OBVIOUS
<1>3. \A p \in Ports : PortKey(v, proto, p) \in S <=> p \in N
  BY DEF PortKey
<1>4. B' = B \cup N
  <2>1. \A p \in Ports : rule_state'[PortKey(v, proto, p)] =
                         IF p \in N THEN "announcing" ELSE rule_state[PortKey(v, proto, p)]
    BY <1>3, PortKeyInKeys DEF Emplace
  <2> QED
    BY <1>1, <2>1 DEF BusyPorts
<1> HIDE DEF B, N
<1>5. /\ IsFiniteSet(B) /\ IsFiniteSet(N)
      /\ Cardinality(ExistingPortRules(ProtocolOnlyKey(v, proto))) = Cardinality(B)
      /\ Cardinality(S) = Cardinality(N)
  <2> DEFINE KB == {PortKey(v, proto, p) : p \in B}
             KN == {PortKey(v, proto, p) : p \in N}
  <2>1. IsFiniteSet(B) /\ Cardinality(KB) = Cardinality(B)
    <3>1. /\ \A p \in B : PortKey(v, proto, p) \in KB
          /\ \A k \in KB : \E p \in B : k = PortKey(v, proto, p)
      OBVIOUS
    <3> HIDE DEF KB
    <3> QED
      BY <1>1, <3>1, PortRulesAreTheirPorts
  <2>2. IsFiniteSet(N) /\ Cardinality(KN) = Cardinality(N)
    <3>1. /\ \A p \in N : PortKey(v, proto, p) \in KN
          /\ \A k \in KN : \E p \in N : k = PortKey(v, proto, p)
      OBVIOUS
    <3> HIDE DEF KN
    <3> QED
      BY <1>1, <3>1, PortRulesAreTheirPorts
  <2>3. ExistingPortRules(ProtocolOnlyKey(v, proto)) = KB
    BY ExistingAreBusy DEF B
  <2> HIDE DEF KB, KN
  <2> QED
    BY <1>2, <2>1, <2>2, <2>3 DEF KN
<1>6. Cardinality(B \cup N) <= Cardinality(B) + Cardinality(N)
  <2>1. IsFiniteSet(B \cap N) /\ Cardinality(B \cup N) =
          Cardinality(B) + Cardinality(N) - Cardinality(B \cap N)
    BY <1>5, FS_Union, FS_Intersection
  <2> QED
    BY <1>5, <2>1, FS_CardinalityType
<1>7. IsFiniteSet(B \cup N)
  BY <1>5, FS_Union
<1> QED
  <2>1. BusyPorts(v, proto)' = B \cup N
    BY <1>4 DEF B
  <2>2. /\ Cardinality(B) \in Nat /\ Cardinality(N) \in Nat /\ Cardinality(B \cup N) \in Nat
        /\ MaxPortRules \in Nat
    BY <1>5, <1>7, LifecycleAssumption, FS_CardinalityType
  <2> QED
    BY <1>5, <1>6, <2>1, <2>2

\* A refresh never takes a victim and protocol over the configured number of port rules:
\* it counts the rules other threads are announcing, in the critical section that enters
\* its own, and escalates to the protocol-only rule instead.
THEOREM LimitRespected == Spec => RefreshRespectsLimit
<1> DEFINE Within(w) ==
             RefreshProtocol(w) =>
               \A v \in Victims, proto \in PortProtocols :
                 LET count == Cardinality({p \in Ports : rule_state[PortKey(v, proto, p)] # "absent"})
                 IN  count' <= MaxPortRules \/ count' <= count
<1>1. ASSUME TypeOK, NEW w \in Workers PROVE Within(w)
  <2> SUFFICES ASSUME RefreshProtocol(w), NEW v \in Victims, NEW proto \in PortProtocols
               PROVE  \/ Cardinality(BusyPorts(v, proto)') <= MaxPortRules
                      \/ Cardinality(BusyPorts(v, proto)') <= Cardinality(BusyPorts(v, proto))
    BY DEF BusyPorts
  <2> DEFINE victim == order[w].victim
             result == Head(results[w])
             key == ProtocolOnlyKey(victim, result.protocol)
             requests == {PortKey(victim, result.protocol, p) : p \in result.significant_ports}
             new == {k \in requests : rule_state[k] = "absent"}
             announce == IF result.protocol = "ICMP" THEN begin_refresh_announce(key)
                         ELSE begin_refresh_protocol_rules(key, requests)
  <2>1. victim \in Victims /\ result \in ProtocolResult /\ LifecycleTypeOK
    BY <1>1, OrderShape DEF RefreshProtocol, TypeOK
  <2>2. Emplace(announce)
    BY DEF RefreshProtocol
  <2>3. CASE \A p \in Ports : PortKey(v, proto, p) \notin announce
    <3> HIDE DEF announce
    <3>1. \A p \in Ports : rule_state'[PortKey(v, proto, p)] = rule_state[PortKey(v, proto, p)]
      BY <2>2, <2>3, PortKeyInKeys DEF Emplace
    <3>2. BusyPorts(v, proto)' = BusyPorts(v, proto)
      BY <3>1 DEF BusyPorts
    <3>3. Cardinality(BusyPorts(v, proto)) \in Nat
      BY LifecycleAssumption, FS_Subset, FS_CardinalityType DEF BusyPorts
    <3> QED
      BY <3>2, <3>3
  <2>4. CASE \E p \in Ports : PortKey(v, proto, p) \in announce
    <3>1. PICK port \in Ports : PortKey(v, proto, port) \in announce
      BY <2>4
    <3>2. PortKey(v, proto, port) # key
      BY LifecycleAssumption DEF PortKey, ProtocolOnlyKey
    <3>3. result.protocol # "ICMP"
      BY <3>1, <3>2 DEF begin_refresh_announce
    <3>4. /\ announce = new /\ PortKey(v, proto, port) \in requests
          /\ ~(Cardinality(ExistingPortRules(key)) + Cardinality(new) > MaxPortRules)
      BY <3>1, <3>2, <3>3 DEF begin_refresh_protocol_rules
    <3>5. victim = v /\ result.protocol = proto
      BY <3>4 DEF PortKey
    <3>6. result.significant_ports \in SUBSET Ports
      BY <2>1 DEF ProtocolResult
    <3> DEFINE R == result.significant_ports
    <3>7. new = {k \in {PortKey(v, proto, p) : p \in R} : rule_state[k] = "absent"}
      BY <3>5
    <3>8. key = ProtocolOnlyKey(v, proto)
      BY <3>5
    <3>9. Emplace(new)
      BY <2>2, <3>4
    <3> HIDE DEF new, key, R, announce
    <3>10. Cardinality(ExistingPortRules(key)) \in Nat /\ Cardinality(new) \in Nat
      <4> DEFINE N == {q \in R : rule_state[PortKey(v, proto, q)] = "absent"}
                 B == BusyPorts(v, proto)
      <4>1. /\ \A p \in N : PortKey(v, proto, p) \in new
            /\ \A k \in new : \E p \in N : k = PortKey(v, proto, p)
        BY <3>7
      <4>2. N \in SUBSET Ports /\ B \in SUBSET Ports
        BY <3>6 DEF R, BusyPorts
      <4>3. /\ \A p \in B : PortKey(v, proto, p) \in ExistingPortRules(key)
            /\ \A k \in ExistingPortRules(key) : \E p \in B : k = PortKey(v, proto, p)
        BY <3>8, ExistingAreBusy
      <4> HIDE DEF N, B
      <4>4. IsFiniteSet(new)
        BY <4>1, <4>2, PortRulesAreTheirPorts
      <4>5. IsFiniteSet(ExistingPortRules(key))
        BY <4>2, <4>3, PortRulesAreTheirPorts
      <4> QED
        BY <4>4, <4>5, FS_CardinalityType
    <3>11. Cardinality(ExistingPortRules(key)) + Cardinality(new) <= MaxPortRules
      BY <3>4, <3>10, LifecycleAssumption
    <3>12. R \in SUBSET Ports
      BY <3>6 DEF R
    <3> QED
      BY <2>1, <3>7, <3>8, <3>9, <3>11, <3>12, PlanWithinLimit
  <2> QED
    BY <2>3, <2>4
<1>2. TypeOK /\ [Next]_vars => [\A w \in Workers : Within(w)]_vars
  BY <1>1
<1> QED
  BY <1>2, TypeCorrect, PTL DEF Spec, RefreshRespectsLimit

-----------------------------------------------------------------------------
(* The lifecycle table and the paths GoBGP holds, when answers are lost,   *)
(* or calls executed after their deadline, for any number of threads,      *)
(* rules, UUIDs and late calls.                                            *)

(***************************************************************************)
(* PathsTracked and InstalledInRib are not inductive: a DeletePath names a *)
(* path by its UUID alone, so they rest on a UUID naming one path only     *)
(* (UuidsUnique), on what an answer on its way says of the paths           *)
(* (ReplyInRib) and on what a late call can still do (LateShape).          *)
(***************************************************************************)
RibInv ==
    /\ UuidsUnique
    /\ ReplyInRib
    /\ LateShape
    /\ PathsTracked
    /\ InstalledInRib

\* The states of a rule that is on its way out.
Leaving == {"withdraw_requested", "withdrawing"}

\* The types of GoBGP's paths, of late calls and of the UUIDs in the table.
LEMMA RibShape ==
    ASSUME TypeOK
    PROVE  /\ \A p \in rib : /\ p.key \in Keys /\ p.uuid \in Uuids
                             /\ p = [key |-> p.key, uuid |-> p.uuid]
           /\ \A c \in late : c.key \in Keys /\ c.uuid \in Uuids
           /\ \A k \in Keys : add_path_uuid[k] \in Uuids \cup {NoUuid}
           /\ NoUuid \notin Uuids
<1>1. \A p \in rib : /\ p.key \in Keys /\ p.uuid \in Uuids
                     /\ p = [key |-> p.key, uuid |-> p.uuid]
  BY DEF TypeOK, Path
<1>2. \A c \in late : c.key \in Keys /\ c.uuid \in Uuids
  BY DEF TypeOK, LateCall
<1>3. \A k \in Keys : add_path_uuid[k] \in Uuids \cup {NoUuid}
  BY DEF TypeOK, LifecycleTypeOK
<1> QED
  BY <1>1, <1>2, <1>3, LifecycleAssumption

\* Steps that only move rules in the table, or start threads: no UUID changes, no rule
\* becomes installed, a rule on its way out stays so, and the DeletePath a thread has an
\* answer for stays owed.
LEMMA TableStepKeepsRib ==
    ASSUME TypeOK, RibInv,
           UNCHANGED <<rib, late, lost, reply>>,
           \A k \in Keys : /\ add_path_uuid'[k] = add_path_uuid[k]
                           /\ rule_state'[k] = "installed" => rule_state[k] = "installed"
                           /\ rule_state[k] \in Leaving => rule_state'[k] \in Leaving,
           \A w \in Workers : reply[w].rpc = "DeletePath" => dels'[w] = dels[w]
    PROVE  RibInv'
<1>1. UuidsUnique'
  BY DEF RibInv, UuidsUnique
<1>2. ReplyInRib'
  BY DEF RibInv, ReplyInRib, Held
<1>3. LateShape'
  BY RibShape DEF RibInv, LateShape, Leaving
<1>4. PathsTracked'
  BY RibShape DEF RibInv, PathsTracked
<1>5. InstalledInRib'
  BY DEF RibInv, InstalledInRib, Held
<1> QED
  BY <1>1, <1>2, <1>3, <1>4, <1>5 DEF RibInv

\* A UUID that is not in use is nowhere.
LEMMA FreshUuid ==
    ASSUME NEW u \in Uuids \ UsedUuids
    PROVE  /\ \A p \in rib : p.uuid # u
           /\ \A c \in late : c.uuid # u
           /\ \A k \in Keys : add_path_uuid[k] # u
           /\ \A x \in Workers : reply[x].rpc = "AddPath" => reply[x].uuid # u
  BY DEF UsedUuids, Answered

\* A new path takes the place of the one of the same key.  The other paths stay as they
\* were, and a rule of that key stays held if nobody was told the new UUID.
LEMMA ReplacementKeepsRib ==
    ASSUME TypeOK, RibInv, NEW k \in Keys, NEW u \in Uuids,
           \A p \in rib : p.uuid # u,
           \A m \in Keys : add_path_uuid[m] # u,
           \A c \in late' : c \in late /\ c.uuid # u,
           rib' = WithPath(k, u),
           lost' = LostOfOthers(k) \/ lost' = LostOfOthers(k) \cup {u},
           UNCHANGED <<rule_state, add_path_uuid>>,
           u \in lost' \/ rule_state[k] # "installed"
    PROVE  /\ UuidsUnique'
           /\ LateShape'
           /\ InstalledInRib'
           /\ \A m \in Keys, v \in Uuids \cup {NoUuid} : Held(m, v) /\ (m # k \/ u \in lost') => Held(m, v)'
           /\ \A p \in rib' : (p \in rib /\ p.key # k) \/ p = [key |-> k, uuid |-> u]
           /\ \A p \in rib' : p.uuid \in lost /\ p.key # k => p.uuid \in lost'
           /\ \A l \in lost' : l \in lost \/ l = u
<1> DEFINE new == [key |-> k, uuid |-> u]
<1>1. /\ \A p \in rib' : (p \in rib /\ p.key # k) \/ p = new
      /\ \A p \in rib : p.key # k => p \in rib'
      /\ new \in rib' /\ new.key = k /\ new.uuid = u
  BY DEF WithPath, PathsOfOthers
<1>2. \A l \in lost' : l = u \/ (l \in lost /\ \E p \in rib : p.key # k /\ p.uuid = l)
  BY DEF LostOfOthers, PathsOfOthers
<1>3. \A p \in rib : p.key # k /\ p.uuid \in lost => p.uuid \in lost'
  BY DEF LostOfOthers, PathsOfOthers
<1> HIDE DEF new
<1>4. UuidsUnique'
  <2>1. \A p, q \in rib' : p.uuid = q.uuid \/ p.key = q.key => p = q
    BY <1>1 DEF RibInv, UuidsUnique
  <2>2. \A p \in rib', m \in Keys : p.uuid = add_path_uuid[m] => p.key = m /\ p.uuid \notin lost'
    BY <1>1, <1>2 DEF RibInv, UuidsUnique
  <2>3. lost' \subseteq {p.uuid : p \in rib'}
    BY <1>1, <1>2
  <2> QED
    BY <2>1, <2>2, <2>3 DEF RibInv, UuidsUnique
<1>5. LateShape'
  <2>1. \A c \in late', p \in rib' : p.uuid = c.uuid => p \in rib
    BY <1>1
  <2> QED
    BY <2>1 DEF RibInv, LateShape
<1>6. ASSUME NEW m \in Keys, NEW v \in Uuids \cup {NoUuid}, Held(m, v), m # k \/ u \in lost'
      PROVE  Held(m, v)'
  <2>1. PICK p \in rib : p.key = m /\ (p.uuid = v \/ p.uuid \in lost)
    BY <1>6 DEF Held
  <2>2. CASE m # k
    <3>1. p \in rib' /\ (p.uuid = v \/ p.uuid \in lost')
      BY <1>1, <1>3, <2>1, <2>2
    <3> QED
      BY <2>1, <3>1 DEF Held
  <2>3. CASE m = k
    BY <1>1, <1>6, <2>3 DEF Held
  <2> QED
    BY <2>2, <2>3
<1>7. InstalledInRib'
  <2> SUFFICES ASSUME NEW m \in Keys, rule_state[m] = "installed"
               PROVE  Held(m, add_path_uuid[m])'
    BY DEF InstalledInRib
  <2>1. Held(m, add_path_uuid[m])
    BY DEF RibInv, InstalledInRib
  <2>3. PICK v \in Uuids \cup {NoUuid} : v = add_path_uuid[m] /\ v = add_path_uuid'[m]
    BY RibShape
  <2>4. Held(m, v) /\ (m # k \/ u \in lost')
    BY <2>1, <2>3
  <2>5. Held(m, v)'
    BY <1>6, <2>4
  <2> QED
    BY <2>3, <2>5 DEF Held
<1>8. \A p \in rib' : p.uuid \in lost /\ p.key # k => p.uuid \in lost'
  BY <1>1, <1>3
<1> QED
  BY <1>1, <1>2, <1>4, <1>5, <1>6, <1>7, <1>8 DEF new

\* What a thread's unreported answer says, step by step: as long as the paths it rests on
\* are held, and no UUID it names appears elsewhere, ReplyInRib stays.
AnswerFits(w) ==
    /\ Held(reply[w].key, reply[w].uuid)
    /\ \A p \in rib : p.uuid = reply[w].uuid => p.key = reply[w].key
    /\ reply[w].uuid \notin lost \cup {c.uuid : c \in late}
    /\ reply[w].uuid \notin {add_path_uuid[k] : k \in Keys}
    /\ \A x \in Workers :
         x # w /\ reply[x].rpc = "AddPath" => reply[x].uuid # reply[w].uuid

\* GoBGP gives a new path a UUID that neither a path, a call nor the table holds.
LEMMA AddPathKeepsRib ==
    ASSUME ThreadInv, RibInv, NEW w \in Workers, NEW k \in Keys, AddPath(w, k)
    PROVE  RibInv'
<1>0. TypeOK /\ OneDeleter /\ ThreadShape /\ OneAnnouncer
  BY DEF ThreadInv
<1>1. /\ reply[w] = NoReply
      /\ k \in adds[w]
      /\ UNCHANGED <<rule_state, add_path_uuid, dels>>
  BY DEF AddPath, lifecycle_vars
<1>2. \A x \in Workers, m \in Keys : dels[x][m] # NoUuid => dels[x][m] = add_path_uuid[m]
  BY <1>0 DEF OneDeleter
<1>3. \A x \in Workers : reply[x].rpc = "DeletePath" =>
        reply[x].key \in Keys /\ dels[x][reply[x].key] = add_path_uuid[reply[x].key]
  BY <1>0, <1>2, ReplyShape DEF ThreadShape
<1>4. \A x \in Workers : reply[x].rpc = "AddPath" => x # w /\ reply[x].key \in Keys /\ reply[x].key # k
  BY <1>0, <1>1, ReplyShape DEF ThreadShape, OneAnnouncer, NoReply
<1>5. rule_state[k] # "installed"
  BY <1>0, <1>1 DEF OneAnnouncer, AddPending
<1>6. PICK v \in Uuids \cup {NoUuid} :
        /\ reply' = [reply EXCEPT ![w] = [rpc |-> "AddPath", key |-> k, uuid |-> v]]
        /\ \/ v = NoUuid /\ UNCHANGED gobgp_vars
           \/ \E u \in Uuids \ UsedUuids :
                \/ /\ rib' = WithPath(k, u) /\ late' = late
                   /\ \/ v = u /\ lost' = LostOfOthers(k)
                      \/ v = NoUuid /\ lost' = LostOfOthers(k) \cup {u}
                \/ /\ v = NoUuid
                   /\ late' = late \cup {[rpc |-> "AddPath", key |-> k, uuid |-> u]}
                   /\ UNCHANGED <<rib, lost>>
  BY DEF AddPath
<1>7. \A x \in Workers : reply'[x] = IF x = w THEN [rpc |-> "AddPath", key |-> k, uuid |-> v]
                                     ELSE reply[x]
  BY <1>0, <1>6 DEF TypeOK
<1>8. \A x \in Workers : reply[x].rpc = "AddPath" => reply'[x] = reply[x]
  BY <1>1, <1>7 DEF NoReply
<1>9. \A x \in Workers : reply'[x].rpc = "AddPath" /\ x # w => reply'[x] = reply[x]
  BY <1>7
<1>10. \A x \in Workers : reply'[x].rpc = "DeletePath" => reply'[x] = reply[x]
  BY <1>7
<1>11. CASE v = NoUuid /\ UNCHANGED gobgp_vars
  <2>1. UNCHANGED <<rib, late, lost>>
    BY <1>11 DEF gobgp_vars
  <2>2. UuidsUnique' /\ LateShape' /\ InstalledInRib'
    BY <1>1, <2>1 DEF RibInv, UuidsUnique, LateShape, InstalledInRib, Held
  <2>3. ReplyInRib'
    BY <1>1, <1>7, <1>11, <2>1 DEF RibInv, ReplyInRib, Held
  <2>4. PathsTracked'
    BY <1>1, <1>8, <2>1 DEF RibInv, PathsTracked
  <2> QED
    BY <2>2, <2>3, <2>4 DEF RibInv
<1>12. ASSUME NEW u \in Uuids \ UsedUuids, rib' = WithPath(k, u), late' = late,
              \/ v = u /\ lost' = LostOfOthers(k)
              \/ v = NoUuid /\ lost' = LostOfOthers(k) \cup {u}
       PROVE  RibInv'
  <2>1. /\ \A p \in rib : p.uuid # u
        /\ \A c \in late : c.uuid # u
        /\ \A m \in Keys : add_path_uuid[m] # u
        /\ \A x \in Workers : reply[x].rpc = "AddPath" => reply[x].uuid # u
    BY FreshUuid
  <2>2. u \notin lost
    BY <2>1 DEF RibInv, UuidsUnique
  <2>3. /\ UuidsUnique'
        /\ LateShape'
        /\ InstalledInRib'
        /\ \A m \in Keys, z \in Uuids \cup {NoUuid} : Held(m, z) /\ (m # k \/ u \in lost') => Held(m, z)'
        /\ \A p \in rib' : (p \in rib /\ p.key # k) \/ p = [key |-> k, uuid |-> u]
        /\ \A p \in rib' : p.uuid \in lost /\ p.key # k => p.uuid \in lost'
        /\ \A l \in lost' : l \in lost \/ l = u
    BY <1>0, <1>1, <1>5, <1>12, <2>1, ReplacementKeepsRib
  <2>4. v = u => u \notin lost'
    BY <1>12, <2>2, LifecycleAssumption DEF LostOfOthers
  <2>5. v = NoUuid => u \in lost'
    BY <1>12, LifecycleAssumption
  <2>6. v = u \/ v = NoUuid
    BY <1>12
  <2>7. ReplyInRib'
    <3>1. ASSUME NEW x \in Workers, reply'[x].rpc = "AddPath", reply'[x].uuid # NoUuid
          PROVE  AnswerFits(x)'
      <4>1. CASE x = w
        <5>1. reply'[x].key = k /\ reply'[x].uuid = u /\ v = u
          BY <1>7, <2>6, <3>1, <4>1
        <5>2. Held(reply[x].key, reply[x].uuid)'
          <6>1. [key |-> k, uuid |-> u] \in rib'
            BY <1>12 DEF WithPath
          <6> QED
            BY <5>1, <6>1 DEF Held
        <5>3. \A p \in rib' : p.uuid = u => p.key = k
          BY <2>1, <2>3
        <5>4. u \notin lost' \cup {c.uuid : c \in late'}
          BY <1>12, <2>1, <2>4, <5>1
        <5>5. \A y \in Workers : y # w /\ reply'[y].rpc = "AddPath" => reply'[y].uuid # u
          BY <1>7, <2>1
        <5>6. u \notin {add_path_uuid'[m] : m \in Keys}
          BY <1>1, <2>1
        <5> QED
          BY <4>1, <5>1, <5>2, <5>3, <5>4, <5>5, <5>6 DEF AnswerFits
      <4>2. CASE x # w
        <5>1. reply'[x] = reply[x] /\ reply[x].key \in Keys /\ reply[x].key # k
               /\ reply[x].uuid \in Uuids \cup {NoUuid}
          BY <1>0, <1>4, <1>9, <3>1, <4>2, ReplyShape
        <5>2. AnswerFits(x)
          BY <3>1, <5>1 DEF RibInv, ReplyInRib, AnswerFits
        <5>3. reply[x].uuid # u /\ reply[x].uuid # v
          BY <2>1, <2>6, <3>1, <5>1
        <5>4. Held(reply[x].key, reply[x].uuid)'
          <6>1. PICK m \in Keys, z \in Uuids \cup {NoUuid} : m = reply[x].key /\ z = reply[x].uuid
            BY <5>1
          <6>2. Held(m, z)'
            BY <2>3, <5>1, <5>2, <6>1 DEF AnswerFits
          <6> QED
            BY <5>1, <6>1, <6>2 DEF Held
        <5>5. \A p \in rib' : p.uuid = reply[x].uuid => p.key = reply[x].key
          BY <2>3, <5>2, <5>3 DEF AnswerFits
        <5>6. reply[x].uuid \notin lost' \cup {c.uuid : c \in late'}
          BY <1>12, <2>3, <5>2, <5>3 DEF AnswerFits
        <5>7. \A y \in Workers : y # x /\ reply'[y].rpc = "AddPath" => reply'[y].uuid # reply[x].uuid
          BY <1>7, <5>2, <5>3 DEF AnswerFits
        <5>8. reply[x].uuid \notin {add_path_uuid'[m] : m \in Keys}
          BY <1>1, <5>2 DEF AnswerFits
        <5> QED
          BY <5>1, <5>4, <5>5, <5>6, <5>7, <5>8 DEF AnswerFits
      <4> QED
        BY <4>1, <4>2
    <3>2. ASSUME NEW x \in Workers, reply'[x].rpc = "DeletePath", reply'[x].status = "ok"
          PROVE  \A p \in rib' : p.uuid # dels'[x][reply'[x].key]
      <4>1. reply'[x] = reply[x]
        BY <1>10, <3>2
      <4>2. \A p \in rib : p.uuid # dels[x][reply[x].key]
        BY <3>2, <4>1 DEF RibInv, ReplyInRib
      <4>3. u # dels[x][reply[x].key]
        BY <1>3, <2>1, <3>2, <4>1
      <4> QED
        BY <1>1, <2>3, <4>1, <4>2, <4>3
    <3> QED
      BY <3>1, <3>2 DEF ReplyInRib, AnswerFits
  <2>8. PathsTracked'
    <3>1. ASSUME NEW p \in rib'
          PROVE  \/ p.uuid \in lost'
                 \/ add_path_uuid'[p.key] = p.uuid
                 \/ \E x \in Workers : reply'[x] = [rpc |-> "AddPath", key |-> p.key, uuid |-> p.uuid]
      <4>1. CASE p \in rib /\ p.key # k
        <5>1. ASSUME NEW x \in Workers, reply[x] = [rpc |-> "AddPath", key |-> p.key, uuid |-> p.uuid]
              PROVE  reply'[x] = reply[x]
          BY <1>8, <5>1
        <5> QED
          BY <1>1, <2>3, <4>1, <5>1 DEF RibInv, PathsTracked
      <4>2. CASE p = [key |-> k, uuid |-> u]
        BY <1>7, <2>5, <2>6, <4>2
      <4> QED
        BY <2>3, <4>1, <4>2
    <3> QED
      BY <3>1 DEF PathsTracked
  <2> QED
    BY <2>3, <2>7, <2>8 DEF RibInv
<1>13. ASSUME NEW u \in Uuids \ UsedUuids, v = NoUuid,
              late' = late \cup {[rpc |-> "AddPath", key |-> k, uuid |-> u]},
              UNCHANGED <<rib, lost>>
       PROVE  RibInv'
  <2>1. /\ \A p \in rib : p.uuid # u
        /\ \A c \in late : c.uuid # u
        /\ \A m \in Keys : add_path_uuid[m] # u
        /\ \A x \in Workers : reply[x].rpc = "AddPath" => reply[x].uuid # u
    BY FreshUuid
  <2>2. UuidsUnique' /\ InstalledInRib'
    BY <1>1, <1>13 DEF RibInv, UuidsUnique, InstalledInRib, Held
  <2>3. LateShape'
    BY <1>1, <1>13, <2>1 DEF RibInv, LateShape
  <2>4. ReplyInRib'
    <3>1. ASSUME NEW x \in Workers, reply'[x].rpc = "AddPath", reply'[x].uuid # NoUuid
          PROVE  AnswerFits(x)'
      <4>1. x # w /\ reply'[x] = reply[x]
        BY <1>7, <1>9, <1>13, <3>1
      <4>2. AnswerFits(x) /\ reply[x].uuid # u
        BY <2>1, <3>1, <4>1 DEF RibInv, ReplyInRib, AnswerFits
      <4>3. \A y \in Workers : y # x /\ reply'[y].rpc = "AddPath" => reply'[y].uuid # reply[x].uuid
        BY <1>7, <1>13, <3>1, <4>1, <4>2 DEF AnswerFits
      <4> QED
        BY <1>1, <1>13, <4>1, <4>2, <4>3 DEF AnswerFits, Held
    <3>2. ASSUME NEW x \in Workers, reply'[x].rpc = "DeletePath", reply'[x].status = "ok"
          PROVE  \A p \in rib' : p.uuid # dels'[x][reply'[x].key]
      <4>1. reply'[x] = reply[x]
        BY <1>10, <3>2
      <4> QED
        BY <1>1, <1>13, <3>2, <4>1 DEF RibInv, ReplyInRib
    <3> QED
      BY <3>1, <3>2 DEF ReplyInRib, AnswerFits
  <2>5. PathsTracked'
    BY <1>1, <1>8, <1>13 DEF RibInv, PathsTracked
  <2> QED
    BY <2>2, <2>3, <2>4, <2>5 DEF RibInv
<1> QED
  BY <1>6, <1>11, <1>12, <1>13

\* A path that goes away is the table's path of one rule, and that rule is on its way out.
LEMMA RemovalKeepsRib ==
    ASSUME TypeOK, RibInv, NEW u \in Uuids,
           rib' = Without(u),
           UNCHANGED <<rule_state, add_path_uuid, lost>>,
           \A k \in Keys : add_path_uuid[k] = u => rule_state[k] \in Leaving,
           \A p \in rib : p.uuid = u => add_path_uuid[p.key] = u
    PROVE  /\ UuidsUnique'
           /\ InstalledInRib'
           /\ \A w \in Workers :
                reply[w].rpc = "AddPath" /\ reply[w].uuid # NoUuid =>
                  \E p \in rib' : p.key = reply[w].key /\ (p.uuid = reply[w].uuid \/ p.uuid \in lost')
<1>1. rib' \subseteq rib /\ \A p \in rib : p.uuid # u => p \in rib'
  BY DEF Without
<1>2. lost' \subseteq {p.uuid : p \in rib'}
  <2> SUFFICES ASSUME NEW l \in lost PROVE \E p \in rib' : p.uuid = l
    OBVIOUS
  <2>1. PICK p \in rib : p.uuid = l
    BY DEF RibInv, UuidsUnique
  <2>2. p.uuid # u
    BY <2>1, RibShape DEF RibInv, UuidsUnique
  <2> QED
    BY <1>1, <2>1, <2>2
<1>3. UuidsUnique'
  BY <1>1, <1>2 DEF RibInv, UuidsUnique
<1>4. \A p \in rib : p.uuid \in lost => p \in rib'
  BY <1>1, RibShape DEF RibInv, UuidsUnique
<1>5. ASSUME NEW k \in Keys, rule_state[k] = "installed"
      PROVE  \E p \in rib' : p.key = k /\ (p.uuid = add_path_uuid[k] \/ p.uuid \in lost)
  <2>1. PICK p \in rib : p.key = k /\ (p.uuid = add_path_uuid[k] \/ p.uuid \in lost)
    BY <1>5 DEF RibInv, InstalledInRib, Held
  <2>2. p \in rib'
    BY <1>1, <1>4, <1>5, <2>1 DEF Leaving
  <2> QED
    BY <2>1, <2>2
<1>6. InstalledInRib'
  BY <1>5 DEF InstalledInRib, Held
<1>7. ASSUME NEW w \in Workers, reply[w].rpc = "AddPath", reply[w].uuid # NoUuid
      PROVE  \E p \in rib' : p.key = reply[w].key /\ (p.uuid = reply[w].uuid \/ p.uuid \in lost')
  <2>1. PICK p \in rib : p.key = reply[w].key /\ (p.uuid = reply[w].uuid \/ p.uuid \in lost)
    BY <1>7 DEF RibInv, ReplyInRib, Held
  <2>2. \A k \in Keys : reply[w].uuid # add_path_uuid[k]
    BY <1>7 DEF RibInv, ReplyInRib
  <2>3. p.key \in Keys
    BY RibShape
  <2>4. p \in rib'
    BY <1>1, <1>4, <2>1, <2>2, <2>3
  <2> QED
    BY <2>1, <2>4
<1> QED
  BY <1>3, <1>6, <1>7

\* DeletePath, in each of its outcomes, keeps the invariant.
LEMMA DeletePathKeepsRib ==
    ASSUME ThreadInv, RibInv, NEW w \in Workers, NEW k \in Keys, DeletePath(w, k)
    PROVE  RibInv'
<1> DEFINE u == dels[w][k]
<1>0. TypeOK /\ OneDeleter
  BY DEF ThreadInv
<1>1. /\ u = add_path_uuid[k] /\ u \in Uuids
      /\ rule_state[k] = "withdrawing"
  BY <1>0 DEF DeletePath, OneDeleter, TypeOK
<1>2. /\ reply[w] = NoReply
      /\ UNCHANGED <<rule_state, add_path_uuid, dels, lost>>
  BY DEF DeletePath, lifecycle_vars
<1>3. \A m \in Keys : add_path_uuid[m] = u => m = k
  BY <1>1, RibShape, <1>0 DEF RibInv, UuidsUnique
<1>4. \A m \in Keys : add_path_uuid[m] = u => rule_state[m] \in Leaving
  BY <1>1, <1>3 DEF Leaving
<1>5. \A p \in rib : p.uuid = u => p.key = k /\ add_path_uuid[p.key] = u
  BY <1>1 DEF RibInv, UuidsUnique
<1>6. PICK status \in {"ok", "error"} :
        /\ reply' = [reply EXCEPT ![w] = [rpc |-> "DeletePath", key |-> k, status |-> status]]
        /\ \/ rib' = Without(u) /\ late' = late
           \/ rib' = rib /\ late' = late /\ status = "error"
           \/ /\ rib' = rib /\ status = "error"
              /\ late' = late \cup {[rpc |-> "DeletePath", key |-> k, uuid |-> u]}
  BY DEF DeletePath
<1> HIDE DEF u
<1>7. \A x \in Workers :
        reply'[x] = IF x = w THEN [rpc |-> "DeletePath", key |-> k, status |-> status] ELSE reply[x]
  BY <1>0, <1>6 DEF TypeOK
<1>8. rib' \subseteq rib /\ (rib' = rib \/ rib' = Without(u))
  BY <1>6 DEF Without
<1>9. /\ UuidsUnique'
      /\ InstalledInRib'
      /\ \A x \in Workers :
            reply[x].rpc = "AddPath" /\ reply[x].uuid # NoUuid =>
              \E p \in rib' : p.key = reply[x].key /\ (p.uuid = reply[x].uuid \/ p.uuid \in lost')
  <2>1. CASE rib' = rib
    BY <1>2, <2>1 DEF RibInv, UuidsUnique, InstalledInRib, ReplyInRib, Held
  <2>2. CASE rib' = Without(u)
    BY <1>0, <1>1, <1>2, <1>4, <1>5, <2>2, RemovalKeepsRib
  <2> QED
    BY <1>8, <2>1, <2>2
<1>10. \A c \in late' : c \in late \/ (c.rpc = "DeletePath" /\ c.uuid = u)
  BY <1>6
<1>11. ReplyInRib'
  <2>1. ASSUME NEW x \in Workers, reply'[x].rpc = "AddPath", reply'[x].uuid # NoUuid
        PROVE  AnswerFits(x)'
    <3>1. reply'[x] = reply[x]
      BY <1>7, <2>1
    <3>2. AnswerFits(x)
      BY <2>1, <3>1 DEF RibInv, ReplyInRib, AnswerFits
    <3>3. reply[x].uuid # u
      BY <1>1, <3>2 DEF AnswerFits
    <3>4. Held(reply[x].key, reply[x].uuid)'
      BY <1>9, <2>1, <3>1 DEF Held
    <3>5. /\ reply[x].uuid \notin lost' \cup {c.uuid : c \in late'}
          /\ reply[x].uuid \notin {add_path_uuid'[m] : m \in Keys}
          /\ \A p \in rib' : p.uuid = reply[x].uuid => p.key = reply[x].key
      BY <1>2, <1>8, <1>10, <3>2, <3>3 DEF AnswerFits
    <3>6. \A y \in Workers : y # x /\ reply'[y].rpc = "AddPath" => reply'[y].uuid # reply[x].uuid
      BY <1>7, <3>2 DEF AnswerFits
    <3> QED
      BY <3>1, <3>4, <3>5, <3>6 DEF AnswerFits
  <2>2. ASSUME NEW x \in Workers, reply'[x].rpc = "DeletePath", reply'[x].status = "ok"
        PROVE  \A p \in rib' : p.uuid # dels'[x][reply'[x].key]
    <3>1. CASE x = w
      <4>1. status = "ok" /\ reply'[x].key = k
        BY <1>7, <2>2, <3>1
      <4>2. rib' = Without(u)
        BY <1>6, <4>1
      <4> QED
        BY <1>2, <3>1, <4>1, <4>2 DEF Without, u
    <3>2. CASE x # w
      BY <1>2, <1>7, <1>8, <2>2, <3>2 DEF RibInv, ReplyInRib
    <3> QED
      BY <3>1, <3>2
  <2> QED
    BY <2>1, <2>2 DEF ReplyInRib, AnswerFits
<1>12. LateShape'
  <2>1. ASSUME NEW c \in late', c.rpc = "AddPath"
        PROVE  /\ \A p \in rib' : p.uuid # c.uuid
               /\ \A m \in Keys : add_path_uuid'[m] # c.uuid
               /\ \A d \in late' : d.uuid = c.uuid => d = c
    <3>1. c \in late
      BY <1>10, <2>1
    <3>2. c.uuid # u
      BY <1>1, <2>1, <3>1 DEF RibInv, LateShape
    <3> QED
      BY <1>2, <1>8, <1>10, <2>1, <3>1, <3>2 DEF RibInv, LateShape
  <2>2. ASSUME NEW c \in late', c.rpc = "DeletePath"
        PROVE  /\ \A m \in Keys : add_path_uuid'[m] = c.uuid =>
                    rule_state'[m] \in {"withdraw_requested", "withdrawing"}
               /\ \A p \in rib' : p.uuid = c.uuid => add_path_uuid'[p.key] = p.uuid
    <3>1. CASE c \in late
      BY <1>2, <1>8, <2>2, <3>1 DEF RibInv, LateShape
    <3>2. CASE c.uuid = u
      BY <1>2, <1>4, <1>5, <1>8, <3>2 DEF Leaving
    <3> QED
      BY <1>10, <3>1, <3>2
  <2> QED
    BY <2>1, <2>2 DEF LateShape
<1>13. PathsTracked'
  <2>1. \A x \in Workers : reply[x].rpc = "AddPath" => reply'[x] = reply[x]
    BY <1>2, <1>7 DEF NoReply
  <2> QED
    BY <1>2, <1>8, <2>1 DEF RibInv, PathsTracked
<1> QED
  BY <1>9, <1>11, <1>12, <1>13 DEF RibInv

\* A call executed after its deadline adds a path nobody knows, or removes one that is
\* being withdrawn anyway.
LEMMA ExecuteLateKeepsRib ==
    ASSUME ThreadInv, RibInv, NEW c \in late, ExecuteLate(c)
    PROVE  RibInv'
<1>0. TypeOK /\ OneDeleter /\ ThreadShape
  BY DEF ThreadInv
<1>1. /\ UNCHANGED <<rule_state, add_path_uuid, dels, reply>>
      /\ late' = late \ {c}
      /\ c.uuid \in Uuids /\ c.key \in Keys
  BY <1>0, RibShape DEF ExecuteLate, lifecycle_vars, thread_vars
<1>2. CASE UNCHANGED <<rib, lost>>
  <2>1. UuidsUnique' /\ InstalledInRib' /\ PathsTracked'
    BY <1>1, <1>2 DEF RibInv, UuidsUnique, InstalledInRib, PathsTracked, Held
  <2>2. ReplyInRib' /\ LateShape'
    BY <1>1, <1>2 DEF RibInv, ReplyInRib, LateShape, Held
  <2> QED
    BY <2>1, <2>2 DEF RibInv
<1>3. CASE c.rpc = "AddPath" /\ rib' = WithPath(c.key, c.uuid)
           /\ lost' = LostOfOthers(c.key) \cup {c.uuid}
  <2>1. /\ \A p \in rib : p.uuid # c.uuid
        /\ \A m \in Keys : add_path_uuid[m] # c.uuid
        /\ \A d \in late' : d \in late /\ d.uuid # c.uuid
    BY <1>1, <1>3 DEF RibInv, LateShape
  <2>2. /\ UuidsUnique'
        /\ LateShape'
        /\ InstalledInRib'
        /\ \A m \in Keys, z \in Uuids \cup {NoUuid} : Held(m, z) /\ (m # c.key \/ c.uuid \in lost') => Held(m, z)'
        /\ \A p \in rib' : (p \in rib /\ p.key # c.key) \/ p = [key |-> c.key, uuid |-> c.uuid]
        /\ \A p \in rib' : p.uuid \in lost /\ p.key # c.key => p.uuid \in lost'
        /\ \A l \in lost' : l \in lost \/ l = c.uuid
    BY <1>0, <1>1, <1>3, <2>1, ReplacementKeepsRib
  <2>3. c.uuid \in lost'
    BY <1>3
  <2>4. PathsTracked'
    BY <1>1, <2>2, <2>3 DEF RibInv, PathsTracked
  <2>5. ReplyInRib'
    <3>1. ASSUME NEW x \in Workers, reply'[x].rpc = "AddPath", reply'[x].uuid # NoUuid
          PROVE  AnswerFits(x)'
      <4>1. /\ AnswerFits(x) /\ reply'[x] = reply[x]
            /\ reply[x].key \in Keys /\ reply[x].uuid \in Uuids \cup {NoUuid}
        BY <1>0, <1>1, <3>1, ReplyShape DEF RibInv, ReplyInRib, AnswerFits
      <4>2. reply[x].uuid # c.uuid
        BY <4>1 DEF AnswerFits
      <4>3. Held(reply[x].key, reply[x].uuid)'
        <5>1. PICK m \in Keys, z \in Uuids \cup {NoUuid} : m = reply[x].key /\ z = reply[x].uuid
          BY <4>1
        <5>2. Held(m, z)'
          BY <2>2, <2>3, <4>1, <5>1 DEF AnswerFits
        <5> QED
          BY <4>1, <5>1, <5>2 DEF Held
      <4>4. \A p \in rib' : p.uuid = reply[x].uuid => p.key = reply[x].key
        BY <2>2, <4>1, <4>2 DEF AnswerFits
      <4>5. reply[x].uuid \notin lost' \cup {d.uuid : d \in late'}
        BY <2>1, <2>2, <4>1, <4>2 DEF AnswerFits
      <4> QED
        BY <1>1, <4>1, <4>3, <4>4, <4>5 DEF AnswerFits
    <3>2. ASSUME NEW x \in Workers, reply'[x].rpc = "DeletePath", reply'[x].status = "ok"
          PROVE  \A p \in rib' : p.uuid # dels'[x][reply'[x].key]
      <4>1. reply[x].key \in Keys /\ dels[x][reply[x].key] = add_path_uuid[reply[x].key]
        BY <1>0, <1>1, <3>2, ReplyShape DEF ThreadShape, OneDeleter
      <4>2. reply'[x] = reply[x] /\ dels'[x] = dels[x]
        BY <1>1
      <4>3. \A p \in rib : p.uuid # dels[x][reply[x].key]
        BY <3>2, <4>2 DEF RibInv, ReplyInRib
      <4>4. c.uuid # dels[x][reply[x].key]
        BY <2>1, <4>1
      <4> QED
        BY <2>2, <4>2, <4>3, <4>4
    <3> QED
      BY <3>1, <3>2 DEF ReplyInRib, AnswerFits
  <2> QED
    BY <2>2, <2>4, <2>5 DEF RibInv
<1>4. CASE c.rpc = "DeletePath" /\ rib' = Without(c.uuid) /\ lost' = lost
  <2>1. /\ \A m \in Keys : add_path_uuid[m] = c.uuid => rule_state[m] \in Leaving
        /\ \A p \in rib : p.uuid = c.uuid => add_path_uuid[p.key] = c.uuid
    BY <1>4 DEF RibInv, LateShape, Leaving
  <2>2. rib' \subseteq rib
    BY <1>4 DEF Without
  <2>3. /\ UuidsUnique'
        /\ InstalledInRib'
        /\ \A w \in Workers :
              reply[w].rpc = "AddPath" /\ reply[w].uuid # NoUuid =>
                \E p \in rib' : p.key = reply[w].key /\ (p.uuid = reply[w].uuid \/ p.uuid \in lost')
    BY <1>0, <1>1, <1>4, <2>1, RemovalKeepsRib
  <2>4. ReplyInRib'
    BY <1>1, <1>4, <2>2, <2>3 DEF RibInv, ReplyInRib, Held
  <2>5. LateShape'
    BY <1>1, <2>2 DEF RibInv, LateShape
  <2>6. PathsTracked'
    BY <1>1, <1>4, <2>2 DEF RibInv, PathsTracked
  <2> QED
    BY <2>3, <2>4, <2>5, <2>6 DEF RibInv
<1> QED
  BY <1>2, <1>3, <1>4 DEF ExecuteLate

\* The thread hands the UUID of its path over to the table, or forgets a rule without one.
LEMMA ReportAddKeepsRib ==
    ASSUME ThreadInv, RibInv, NEW w \in Workers, ReportAdd(w)
    PROVE  RibInv'
<1>0. TypeOK /\ LifecycleTypeOK /\ UuidShape /\ ThreadShape /\ OneAnnouncer /\ OneDeleter
  BY DEF ThreadInv, TableInv
<1>1. PICK k \in Keys, u \in Uuids \cup {NoUuid} :
         k = reply[w].key /\ u = reply[w].uuid /\ k \in adds[w]
  BY <1>0, ReplyShape DEF ReportAdd, ThreadShape
<1>2. AddPending(k) /\ add_path_uuid[k] = NoUuid
  BY <1>0, <1>1 DEF OneAnnouncer, AddPending, UuidShape
<1>3. /\ IF u = NoUuid THEN fail_announce(k) ELSE complete_announce(k, u)
      /\ UNCHANGED <<rib, late, lost>>
      /\ \A x \in Workers : reply'[x] = IF x = w THEN NoReply ELSE reply[x]
  BY <1>0, <1>1 DEF ReportAdd, gobgp_vars, TypeOK
<1>4. \A x \in Workers : reply'[x].rpc = "AddPath" => x # w /\ reply'[x] = reply[x]
  BY <1>3 DEF NoReply
<1>5. ASSUME NEW x \in Workers, reply'[x].rpc = "DeletePath"
      PROVE  x # w /\ reply'[x] = reply[x] /\ dels'[x] = dels[x]
  BY <1>0, <1>3, <1>5 DEF NoReply, ReportAdd, TypeOK
<1>6. CASE u = NoUuid
  <2>1. /\ rule_state' = [rule_state EXCEPT ![k] = "absent"]
        /\ add_path_uuid' = add_path_uuid
    BY <1>2, <1>3, <1>6 DEF fail_announce, AddPending
  <2>2. UuidsUnique'
    BY <1>3, <2>1 DEF RibInv, UuidsUnique
  <2>3. InstalledInRib'
    BY <1>0, <1>3, <2>1 DEF RibInv, InstalledInRib, LifecycleTypeOK, Held
  <2>4. LateShape'
    <3>1. \A m \in Keys : add_path_uuid[m] \in Uuids => rule_state'[m] = rule_state[m]
      BY <1>0, <1>2, <2>1, RibShape DEF LifecycleTypeOK
    <3> QED
      BY <1>0, <1>3, <2>1, <3>1, RibShape DEF RibInv, LateShape
  <2>5. ReplyInRib'
    BY <1>3, <1>4, <1>5, <2>1 DEF RibInv, ReplyInRib, Held
  <2>6. PathsTracked'
    <3>1. ASSUME NEW p \in rib, NEW x \in Workers,
                 reply[x] = [rpc |-> "AddPath", key |-> p.key, uuid |-> p.uuid]
          PROVE  reply'[x] = reply[x]
      <4>1. reply[x].uuid = p.uuid /\ p.uuid # NoUuid
        BY <1>0, <3>1, RibShape
      <4>2. x # w
        BY <1>1, <1>6, <4>1
      <4> QED
        BY <1>3, <4>2
    <3> QED
      BY <1>3, <2>1, <3>1 DEF RibInv, PathsTracked
  <2> QED
    BY <2>2, <2>3, <2>4, <2>5, <2>6 DEF RibInv
<1>7. CASE u # NoUuid
  <2>0. reply[w].rpc = "AddPath"
    BY DEF ReportAdd
  <2>1. /\ Held(k, u)
        /\ \A p \in rib : p.uuid = u => p.key = k
        /\ \A x \in Workers : x # w /\ reply[x].rpc = "AddPath" => reply[x].uuid # u
        /\ u \notin lost
        /\ \A c \in late : c.uuid # u
        /\ \A m \in Keys : add_path_uuid[m] # u
    BY <1>1, <1>7, <2>0 DEF RibInv, ReplyInRib
  <2>2. /\ \A m \in Keys : add_path_uuid'[m] = IF m = k THEN u ELSE add_path_uuid[m]
        /\ \A m \in Keys : m # k => rule_state'[m] = rule_state[m]
    BY <1>0, <1>2, <1>3, <1>7
       DEF complete_announce, announce_completion, AddPending, LifecycleTypeOK
  <2>3. UuidsUnique'
    <3>1. \A j, m \in Keys : add_path_uuid'[j] = add_path_uuid'[m] => j = m \/ add_path_uuid'[j] = NoUuid
      BY <2>1, <2>2 DEF RibInv, UuidsUnique
    <3>2. \A p \in rib, m \in Keys : p.uuid = add_path_uuid'[m] => p.key = m /\ p.uuid \notin lost
      BY <2>1, <2>2 DEF RibInv, UuidsUnique
    <3> QED
      BY <1>3, <3>1, <3>2 DEF RibInv, UuidsUnique
  <2>4. InstalledInRib'
    BY <1>3, <2>1, <2>2 DEF RibInv, InstalledInRib, Held
  <2>5. LateShape'
    <3>1. \A p \in rib : add_path_uuid[p.key] = p.uuid => add_path_uuid'[p.key] = p.uuid
      BY <1>0, <1>2, <2>2, RibShape
    <3>2. \A c \in late, m \in Keys : add_path_uuid'[m] = c.uuid =>
            add_path_uuid[m] = c.uuid /\ rule_state'[m] = rule_state[m]
      BY <2>1, <2>2
    <3> QED
      BY <1>3, <3>1, <3>2 DEF RibInv, LateShape
  <2>6. ReplyInRib'
    <3>1. ASSUME NEW x \in Workers, reply'[x].rpc = "AddPath", reply'[x].uuid # NoUuid
          PROVE  AnswerFits(x)'
      <4>1. x # w /\ reply'[x] = reply[x]
        BY <1>4, <3>1
      <4>2. AnswerFits(x) /\ reply[x].uuid # u
        BY <2>1, <3>1, <4>1 DEF RibInv, ReplyInRib, AnswerFits
      <4>3. \A y \in Workers : y # x /\ reply'[y].rpc = "AddPath" => reply'[y].uuid # reply[x].uuid
        BY <1>4, <4>2 DEF AnswerFits
      <4>4. reply[x].uuid \notin {add_path_uuid'[m] : m \in Keys}
        BY <2>2, <4>2 DEF AnswerFits
      <4> QED
        BY <1>3, <4>1, <4>2, <4>3, <4>4 DEF AnswerFits, Held
    <3>2. ASSUME NEW x \in Workers, reply'[x].rpc = "DeletePath", reply'[x].status = "ok"
          PROVE  \A p \in rib' : p.uuid # dels'[x][reply'[x].key]
      BY <1>3, <1>5, <3>2 DEF RibInv, ReplyInRib
    <3> QED
      BY <3>1, <3>2 DEF ReplyInRib, AnswerFits
  <2>7. PathsTracked'
    <3>1. ASSUME NEW p \in rib
          PROVE  \/ p.uuid \in lost
                 \/ add_path_uuid'[p.key] = p.uuid
                 \/ \E x \in Workers : reply'[x] = [rpc |-> "AddPath", key |-> p.key, uuid |-> p.uuid]
      <4>1. CASE add_path_uuid[p.key] = p.uuid
        BY <1>0, <1>2, <2>2, <4>1, RibShape
      <4>2. ASSUME NEW x \in Workers,
                   reply[x] = [rpc |-> "AddPath", key |-> p.key, uuid |-> p.uuid]
            PROVE  \/ add_path_uuid'[p.key] = p.uuid
                   \/ reply'[x] = [rpc |-> "AddPath", key |-> p.key, uuid |-> p.uuid]
        BY <1>1, <1>3, <2>2, <4>2
      <4> QED
        BY <4>1, <4>2 DEF RibInv, PathsTracked
    <3> QED
      BY <1>3, <3>1 DEF PathsTracked
  <2> QED
    BY <2>3, <2>4, <2>5, <2>6, <2>7 DEF RibInv
<1> QED
  BY <1>6, <1>7

\* The table forgets the UUID of a path only when GoBGP has confirmed that it is gone.
LEMMA ReportDeleteKeepsRib ==
    ASSUME ThreadInv, RibInv, NEW w \in Workers, ReportDelete(w)
    PROVE  RibInv'
<1>0. TypeOK /\ LifecycleTypeOK /\ ThreadShape /\ OneDeleter
  BY DEF ThreadInv, TableInv
<1>1. PICK k \in Keys : k = reply[w].key /\ dels[w][k] # NoUuid
  BY <1>0, ReplyShape DEF ReportDelete, ThreadShape
<1>2. rule_state[k] = "withdrawing" /\ add_path_uuid[k] = dels[w][k]
  BY <1>0, <1>1 DEF OneDeleter
<1>3. /\ complete_withdraw(k, dels[w][k], reply[w].status = "ok")
      /\ UNCHANGED <<rib, late, lost>>
      /\ reply[w].rpc = "DeletePath"
      /\ \A x \in Workers : reply'[x] = IF x = w THEN NoReply ELSE reply[x]
      /\ \A x \in Workers : x # w => dels'[x] = dels[x]
  BY <1>0, <1>1 DEF ReportDelete, gobgp_vars, TypeOK
<1>4. \A x \in Workers : reply'[x].rpc # "none" => x # w /\ reply'[x] = reply[x] /\ dels'[x] = dels[x]
  BY <1>3 DEF NoReply
<1>5. /\ \A m \in Keys : m # k => rule_state'[m] = rule_state[m] /\ add_path_uuid'[m] = add_path_uuid[m]
      /\ \/ rule_state'[k] = "withdraw_requested" /\ add_path_uuid'[k] = add_path_uuid[k]
         \/ /\ reply[w].status = "ok"
            /\ rule_state'[k] = "absent" /\ add_path_uuid'[k] = NoUuid
  BY <1>0, <1>2, <1>3 DEF complete_withdraw, LifecycleTypeOK
<1>6. \A m \in Keys : add_path_uuid'[m] = add_path_uuid[m] \/ add_path_uuid'[m] = NoUuid
  BY <1>5
<1>7. \A p \in rib : add_path_uuid[p.key] = p.uuid => add_path_uuid'[p.key] = p.uuid
  <2>1. reply[w].status = "ok" => \A p \in rib : p.uuid # add_path_uuid[k]
    BY <1>1, <1>2, <1>3 DEF RibInv, ReplyInRib
  <2> QED
    BY <1>0, <1>5, <2>1, RibShape
<1>8. UuidsUnique'
  <2>1. \A j, m \in Keys : add_path_uuid'[j] = add_path_uuid'[m] => j = m \/ add_path_uuid'[j] = NoUuid
    BY <1>6 DEF RibInv, UuidsUnique
  <2>2. \A p \in rib, m \in Keys : p.uuid = add_path_uuid'[m] => p.key = m /\ p.uuid \notin lost
    BY <1>0, <1>6, RibShape DEF RibInv, UuidsUnique
  <2> QED
    BY <1>3, <2>1, <2>2 DEF RibInv, UuidsUnique
<1>9. InstalledInRib'
  BY <1>3, <1>5 DEF RibInv, InstalledInRib, Held
<1>10. LateShape'
  <2>1. \A c \in late, m \in Keys : add_path_uuid'[m] = c.uuid => add_path_uuid[m] = c.uuid
    BY <1>0, <1>6, RibShape
  <2>2. \A c \in late, m \in Keys :
          add_path_uuid'[m] = c.uuid /\ rule_state[m] \in Leaving => rule_state'[m] \in Leaving
    BY <1>0, <1>5, RibShape DEF Leaving
  <2> QED
    BY <1>0, <1>3, <1>7, <2>1, <2>2, RibShape DEF RibInv, LateShape, Leaving
<1>11. ReplyInRib'
  <2>1. ASSUME NEW x \in Workers, reply'[x].rpc = "AddPath", reply'[x].uuid # NoUuid
        PROVE  AnswerFits(x)'
    <3>1. reply'[x] = reply[x] /\ AnswerFits(x)
      BY <1>4, <2>1 DEF RibInv, ReplyInRib, AnswerFits
    <3>2. \A y \in Workers : y # x /\ reply'[y].rpc = "AddPath" => reply'[y].uuid # reply[x].uuid
      BY <1>4, <3>1 DEF AnswerFits
    <3>3. reply[x].uuid \notin {add_path_uuid'[m] : m \in Keys}
      BY <1>6, <2>1, <3>1 DEF AnswerFits
    <3> QED
      BY <1>3, <3>1, <3>2, <3>3 DEF AnswerFits, Held
  <2>2. ASSUME NEW x \in Workers, reply'[x].rpc = "DeletePath", reply'[x].status = "ok"
        PROVE  \A p \in rib' : p.uuid # dels'[x][reply'[x].key]
    BY <1>3, <1>4, <2>2 DEF RibInv, ReplyInRib
  <2> QED
    BY <2>1, <2>2 DEF ReplyInRib, AnswerFits
<1>12. PathsTracked'
  <2>1. \A x \in Workers : reply[x].rpc = "AddPath" => reply'[x] = reply[x]
    BY <1>3
  <2> QED
    BY <1>3, <1>7, <2>1 DEF RibInv, PathsTracked
<1> QED
  BY <1>8, <1>9, <1>10, <1>11, <1>12 DEF RibInv

-----------------------------------------------------------------------------
\* The empty GoBGP satisfies the invariant.
LEMMA InitRibInv == Init => RibInv
<1> SUFFICES ASSUME Init PROVE RibInv
  OBVIOUS
<1>1. UuidsUnique /\ LateShape /\ PathsTracked
  BY DEF Init, LifecycleInit, UuidsUnique, LateShape, PathsTracked
<1>2. ReplyInRib /\ InstalledInRib
  BY DEF Init, LifecycleInit, ReplyInRib, InstalledInRib, NoReply
<1> QED
  BY <1>1, <1>2 DEF RibInv

\* Every step keeps it.
LEMMA StepRibInv == ThreadInv /\ RibInv /\ [Next]_vars => RibInv'
<1> SUFFICES ASSUME ThreadInv, RibInv, [Next]_vars PROVE RibInv'
  OBVIOUS
<1>0. TypeOK /\ LifecycleTypeOK /\ UuidShape /\ ThreadShape
  BY DEF ThreadInv, TableInv
<1>1. ASSUME UNCHANGED <<rule_state, add_path_uuid, dels, reply, rib, late, lost>>
      PROVE  RibInv'
  BY <1>0, <1>1, TableStepKeepsRib
<1>2. CASE UNCHANGED vars
  BY <1>1, <1>2 DEF vars, lifecycle_vars, thread_vars, gobgp_vars
<1>3. ASSUME NEW w \in Workers, NEW k \in Keys, SpawnBan(w, k)
      PROVE  RibInv'
  BY <1>1, <1>3 DEF SpawnBan, lifecycle_vars, gobgp_vars
<1>4. ASSUME NEW w \in Workers, NEW v \in Victims, NEW r,
             SpawnUnban(w, v) \/ SpawnRefresh(w, v, r)
      PROVE  RibInv'
  BY <1>1, <1>4 DEF SpawnUnban, SpawnRefresh, lifecycle_vars, gobgp_vars
<1>5. ASSUME NEW v \in Victims, ReserveCapture(v) \/ AbandonCapture(v)
      PROVE  RibInv'
  BY <1>1, <1>5 DEF ReserveCapture, AbandonCapture, begin_refresh_capture,
                    finish_refresh_capture, thread_vars, gobgp_vars
<1>6. ASSUME NEW w \in Workers, FinishRefresh(w)
      PROVE  RibInv'
  BY <1>1, <1>6 DEF FinishRefresh, finish_refresh_capture, gobgp_vars
<1>7. ASSUME NEW w \in Workers, StartBan(w) \/ RefreshProtocol(w)
      PROVE  RibInv'
  <2>1. PICK S \in SUBSET Keys : (\A k \in S : rule_state[k] = "absent") /\ Emplace(S)
    BY <1>0, <1>7, AnnouncedWasAbsent
  <2>2. \A k \in Keys : /\ add_path_uuid'[k] = add_path_uuid[k]
                        /\ rule_state'[k] = "installed" => rule_state[k] = "installed"
                        /\ rule_state[k] \in Leaving => rule_state'[k] \in Leaving
    BY <1>0, <2>1 DEF Emplace, UuidShape, Leaving
  <2>3. UNCHANGED <<rib, late, lost, reply, dels>>
    BY <1>7 DEF StartBan, RefreshProtocol, gobgp_vars
  <2> QED
    BY <1>0, <2>2, <2>3, TableStepKeepsRib
<1>8. ASSUME NEW w \in Workers, NEW S, rule_state' = StatesAfterWithdrawStart(S),
             reply[w] = NoReply, \A x \in Workers : x # w => dels'[x] = dels[x],
             UNCHANGED <<add_path_uuid, rib, late, lost, reply>>
      PROVE  RibInv'
  <2>1. \A k \in Keys : /\ rule_state'[k] = "installed" => rule_state[k] = "installed"
                        /\ rule_state[k] \in Leaving => rule_state'[k] \in Leaving
    BY <1>8 DEF StatesAfterWithdrawStart, Leaving, Withdrawable
  <2>2. \A x \in Workers : reply[x].rpc = "DeletePath" => dels'[x] = dels[x]
    BY <1>8 DEF NoReply
  <2> QED
    BY <1>0, <1>8, <2>1, <2>2, TableStepKeepsRib
<1>9. ASSUME NEW w \in Workers, StartUnban(w)
      PROVE  RibInv'
  <2>1. reply[w] = NoReply
    BY <1>0, <1>9 DEF StartUnban, ThreadShape, BetweenRules
  <2>2. rule_state' = StatesAfterWithdrawStart(RulesOfVictim(order[w].victim))
    BY <1>9 DEF StartUnban, begin_withdraw_for_victim
  <2>3. /\ \A x \in Workers : x # w => dels'[x] = dels[x]
        /\ UNCHANGED <<add_path_uuid, rib, late, lost, reply>>
    BY <1>0, <1>9 DEF StartUnban, begin_withdraw_for_victim, gobgp_vars, TypeOK
  <2> QED
    BY <1>8, <2>1, <2>2, <2>3
<1>10. ASSUME NEW w \in Workers, NEW k \in Keys, CleanupRedundantPorts(w, k)
       PROVE  RibInv'
  <2>1. reply[w] = NoReply
    BY <1>10 DEF CleanupRedundantPorts
  <2>2. rule_state' = StatesAfterWithdrawStart(EscalationCleanup(k))
    BY <1>10 DEF CleanupRedundantPorts, begin_protocol_only_escalation_cleanup
  <2>3. /\ \A x \in Workers : x # w => dels'[x] = dels[x]
        /\ UNCHANGED <<add_path_uuid, rib, late, lost, reply>>
    BY <1>0, <1>10
       DEF CleanupRedundantPorts, begin_protocol_only_escalation_cleanup, gobgp_vars, TypeOK
  <2> QED
    BY <1>8, <2>1, <2>2, <2>3
<1>11. ASSUME NEW w \in Workers, NEW k \in Keys, AddPath(w, k) \/ DeletePath(w, k)
       PROVE  RibInv'
  BY <1>11, AddPathKeepsRib, DeletePathKeepsRib
<1>12. ASSUME NEW w \in Workers, ReportAdd(w) \/ ReportDelete(w)
       PROVE  RibInv'
  BY <1>12, ReportAddKeepsRib, ReportDeleteKeepsRib
<1>13. ASSUME NEW c \in late, ExecuteLate(c)
       PROVE  RibInv'
  BY <1>13, ExecuteLateKeepsRib
<1> QED
  BY <1>2, <1>3, <1>4, <1>5, <1>6, <1>7, <1>9, <1>10, <1>11, <1>12, <1>13
     DEF Next, Environment, ThreadStep

\* The invariant that relates table and GoBGP holds in every behaviour.
LEMMA RibInvHolds == Spec => [](ThreadInv /\ RibInv)
<1>1. Init => ThreadInv /\ RibInv
  BY InitThreadInv, InitRibInv
<1>2. ThreadInv /\ RibInv /\ [Next]_vars => (ThreadInv /\ RibInv)'
  BY StepThreadInv, StepRibInv
<1> QED
  BY <1>1, <1>2, PTL DEF Spec

\* No path is orphaned: every path in GoBGP whose AddPath was not answered with an error
\* is known by its UUID to the table, or to the thread that is about to report it.
THEOREM PathsStayTracked == Spec => []PathsTracked
<1>1. RibInv => PathsTracked
  BY DEF RibInv
<1> QED
  BY <1>1, RibInvHolds, PTL

\* A rule the table calls installed is in GoBGP: no DeletePath, however late GoBGP runs
\* it, removes the path of a rule that has not been ordered out.  An AddPath that GoBGP
\* runs late replaces the rule's path and leaves one whose UUID the table does not hold.
THEOREM InstalledAreInRib == Spec => []InstalledInRib
<1>1. RibInv => InstalledInRib
  BY DEF RibInv
<1> QED
  BY <1>1, RibInvHolds, PTL

-----------------------------------------------------------------------------
\* A path that a withdrawal takes away leaves the protocol-only path behind, unless an
\* UNBAN of the victim runs.
LEMMA RemovalKeepsCoverage ==
    ASSUME ThreadInv, RibInv, NEW u \in Uuids, rib' = Without(u),
           \A p \in rib : p.uuid = u =>
             add_path_uuid[p.key] = u /\ rule_state[p.key] \in Leaving
    PROVE  \A p \in rib :
             \/ p.key.destination_ipv4 \in victims_withdraw_requested
             \/ \E q \in rib' :
                  q.key \in {p.key, ProtocolOnlyKey(p.key.destination_ipv4, p.key.protocol)}
<1>0. TypeOK /\ UuidShape /\ EscalationCovered
  BY DEF ThreadInv, TableInv
<1> SUFFICES ASSUME NEW p \in rib, p.key.destination_ipv4 \notin victims_withdraw_requested
             PROVE  \E q \in rib' :
                      q.key \in {p.key, ProtocolOnlyKey(p.key.destination_ipv4, p.key.protocol)}
  OBVIOUS
<1>1. p.key \in Keys /\ p.uuid \in Uuids
  BY <1>0, RibShape
<1>2. CASE p.uuid # u
  <2>1. p \in rib'
    BY <1>2 DEF Without
  <2> QED
    BY <2>1
<1>3. CASE p.uuid = u
  <2> DEFINE m == ProtocolOnlyKey(p.key.destination_ipv4, p.key.protocol)
  <2>1. m \in Keys /\ m.destination_port = NoPort
    BY <1>1, KeyShape, ProtocolOnlyKeyInKeys DEF ProtocolOnlyKey
  <2>2. p.key.destination_port # NoPort /\ rule_state[m] = "installed"
    BY <1>0, <1>1, <1>3 DEF EscalationCovered, Leaving
  <2> HIDE DEF m
  <2>3. PICK q \in rib : q.key = m /\ (q.uuid = add_path_uuid[m] \/ q.uuid \in lost)
    BY <2>1, <2>2 DEF RibInv, InstalledInRib, Held
  <2>4. add_path_uuid[p.key] = u /\ m # p.key
    BY <1>3, <2>1, <2>2
  <2>5. q.uuid # u
    BY <1>1, <1>3, <2>3, <2>4 DEF RibInv, UuidsUnique
  <2>6. q \in rib'
    BY <2>5 DEF Without
  <2> QED
    BY <2>3, <2>6 DEF m
<1> QED
  BY <1>2, <1>3

\* While no UNBAN of the victim runs, a path leaves GoBGP only when its protocol-only path
\* is there and stays: an escalation never opens a gap, not even through a DeletePath that
\* GoBGP executes after its deadline.
THEOREM CoverageIsKept == Spec => CoverageKept
<1> DEFINE Covered ==
             \A p \in rib :
               \/ p.key.destination_ipv4 \in victims_withdraw_requested
               \/ \E q \in rib' :
                    q.key \in {p.key, ProtocolOnlyKey(p.key.destination_ipv4, p.key.protocol)}
<1> DEFINE KeysStay == \A p \in rib : \E q \in rib' : q.key = p.key
<1>0. \A k, u : rib' = WithPath(k, u) => KeysStay
  <2> SUFFICES ASSUME NEW k, NEW u, rib' = WithPath(k, u), NEW p \in rib
               PROVE  \E q \in rib' : q.key = p.key
    OBVIOUS
  <2>1. CASE p.key # k
    BY <2>1 DEF WithPath, PathsOfOthers
  <2>2. CASE p.key = k
    <3>1. [key |-> k, uuid |-> u] \in rib' /\ [key |-> k, uuid |-> u].key = k
      BY DEF WithPath
    <3> QED
      BY <2>2, <3>1
  <2> QED
    BY <2>1, <2>2
<1>1. ASSUME KeysStay PROVE Covered
  BY <1>1
<1> HIDE DEF KeysStay
<1>2. ASSUME ThreadInv, RibInv, NEW w \in Workers, NEW k \in Keys, DeletePath(w, k)
      PROVE  Covered
  <2> DEFINE u == dels[w][k]
  <2>0. TypeOK /\ OneDeleter
    BY <1>2 DEF ThreadInv
  <2>1. u = add_path_uuid[k] /\ u \in Uuids /\ rule_state[k] = "withdrawing"
    BY <1>2, <2>0 DEF DeletePath, OneDeleter, TypeOK
  <2>2. \A p \in rib : p.uuid = u => p.key = k
    BY <1>2, <2>1 DEF RibInv, UuidsUnique
  <2>3. rib' = rib \/ rib' = Without(u)
    BY <1>2 DEF DeletePath
  <2>5. rib' = rib => KeysStay
    BY DEF KeysStay
  <2> HIDE DEF u, Covered
  <2>4. CASE rib' = Without(u)
    <3>1. \A p \in rib : p.uuid = u =>
            add_path_uuid[p.key] = u /\ rule_state[p.key] \in Leaving
      BY <2>1, <2>2 DEF Leaving
    <3> QED
      BY <1>2, <2>1, <2>4, <3>1, RemovalKeepsCoverage DEF Covered
  <2> QED
    BY <1>1, <2>3, <2>4, <2>5
<1>3. ASSUME ThreadInv, RibInv, NEW c \in late, ExecuteLate(c)
      PROVE  Covered
  <2>0. TypeOK
    BY <1>3 DEF ThreadInv
  <2>1. KeysStay \/ (c.rpc = "DeletePath" /\ rib' = Without(c.uuid))
    <3>1. rib' = rib => KeysStay
      BY DEF KeysStay
    <3> QED
      BY <1>0, <1>3, <3>1 DEF ExecuteLate
  <2>2. CASE c.rpc = "DeletePath" /\ rib' = Without(c.uuid)
    <3>1. c.uuid \in Uuids
      BY <2>0, RibShape
    <3>2. \A p \in rib : p.uuid = c.uuid =>
            add_path_uuid[p.key] = c.uuid /\ rule_state[p.key] \in Leaving
      BY <1>3, <2>0, <2>2, RibShape DEF RibInv, LateShape, Leaving
    <3> QED
      BY <1>3, <2>2, <3>1, <3>2, RemovalKeepsCoverage
  <2> HIDE DEF Covered
  <2> QED
    BY <1>1, <2>1, <2>2
<1>4. ThreadInv /\ RibInv /\ [Next]_vars => [Covered]_vars
  <2> SUFFICES ASSUME ThreadInv, RibInv, [Next]_vars PROVE [Covered]_vars
    OBVIOUS
  <2> HIDE DEF Covered
  <2>0. rib' = rib => KeysStay
    BY DEF KeysStay
  <2>1. \/ KeysStay
        \/ \E w \in Workers, k \in Keys : DeletePath(w, k)
        \/ \E c \in late : ExecuteLate(c)
    <3>1. CASE UNCHANGED vars
      BY <2>0, <3>1 DEF vars, gobgp_vars
    <3>2. CASE Environment
      <4>1. \/ \E w \in Workers, k \in Keys : SpawnBan(w, k)
            \/ \E w \in Workers, v \in Victims : SpawnUnban(w, v)
            \/ \E w \in Workers, v \in Victims, r \in RefreshResults : SpawnRefresh(w, v, r)
            \/ \E v \in Victims : ReserveCapture(v) \/ AbandonCapture(v)
            \/ \E c \in late : ExecuteLate(c)
        BY <3>2 DEF Environment
      <4>2. rib' = rib \/ \E c \in late : ExecuteLate(c)
        BY <4>1 DEF SpawnBan, SpawnUnban, SpawnRefresh, ReserveCapture, AbandonCapture, gobgp_vars
      <4> QED
        BY <2>0, <4>2
    <3>3. ASSUME NEW w \in Workers, ThreadStep(w)
          PROVE  KeysStay \/ \E k \in Keys : DeletePath(w, k)
      <4>1. ASSUME NEW k \in Keys, AddPath(w, k) PROVE KeysStay
        BY <1>0, <2>0, <4>1 DEF AddPath, gobgp_vars
      <4>2. ASSUME NEW k \in Keys, CleanupRedundantPorts(w, k) PROVE rib' = rib
        BY <4>2 DEF CleanupRedundantPorts, gobgp_vars
      <4>3. StartBan(w) \/ StartUnban(w) \/ RefreshProtocol(w) \/ FinishRefresh(w) => rib' = rib
        BY DEF StartBan, StartUnban, RefreshProtocol, FinishRefresh, gobgp_vars
      <4>4. ReportAdd(w) \/ ReportDelete(w) => rib' = rib
        BY DEF ReportAdd, ReportDelete, gobgp_vars
      <4> QED
        BY <2>0, <3>3, <4>1, <4>2, <4>3, <4>4 DEF ThreadStep
    <3> QED
      BY <3>1, <3>2, <3>3 DEF Next
  <2> QED
    BY <1>1, <1>2, <1>3, <2>1
<1> QED
  BY <1>4, RibInvHolds, PTL DEF Spec, CoverageKept

=============================================================================
