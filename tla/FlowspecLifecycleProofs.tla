---------------------- MODULE FlowspecLifecycleProofs ----------------------
(* Theorems about the lifecycle table under every sequence of calls.        *)
EXTENDS FlowspecLifecycle, TLAPS

\* The fields of a rule's key, which determine it.
LEMMA KeyShape ==
    ASSUME NEW k \in Keys
    PROVE  /\ k.destination_ipv4 \in Victims
           /\ k.protocol \in Protocols \cup {NoProtocol}
           /\ k.destination_port \in Ports \cup {NoPort}
           /\ k = [destination_ipv4 |-> k.destination_ipv4, protocol |-> k.protocol,
                   destination_port |-> k.destination_port]
  BY DEF Keys

\* A protocol-only key is a key.
LEMMA ProtocolOnlyKeyInKeys ==
    ASSUME NEW v \in Victims, NEW proto \in Protocols \cup {NoProtocol}
    PROVE  ProtocolOnlyKey(v, proto) \in Keys
  BY DEF Keys, ProtocolOnlyKey

\* A port key is a key.
LEMMA PortKeyInKeys ==
    ASSUME NEW v \in Victims, NEW proto \in PortProtocols, NEW port \in Ports
    PROVE  PortKey(v, proto, port) \in Keys
  BY DEF Keys, PortKey, Protocols

-----------------------------------------------------------------------------
\* The table's methods keep its types.
LEMMA EmplaceType ==
    ASSUME LifecycleTypeOK, NEW S, Emplace(S)
    PROVE  LifecycleTypeOK'
  BY DEF Emplace, LifecycleTypeOK, RuleStates

\* ClearFenceIfFinished only removes victims.
LEMMA FenceType ==
    ASSUME NEW v, NEW fence \in SUBSET Victims, NEW states, NEW refresh
    PROVE  ClearFenceIfFinished(v, fence, states, refresh) \subseteq Victims
  BY DEF ClearFenceIfFinished

\* Each method keeps the types: a failed announcement,
LEMMA FailAnnounceType ==
    ASSUME LifecycleTypeOK, NEW k \in Keys, fail_announce(k)
    PROVE  LifecycleTypeOK'
  BY FenceType DEF fail_announce, LifecycleTypeOK, RuleStates, lifecycle_vars

\* a completed announcement,
LEMMA CompleteAnnounceType ==
    ASSUME LifecycleTypeOK, NEW k \in Keys, NEW u \in Uuids, complete_announce(k, u)
    PROVE  LifecycleTypeOK'
  BY DEF complete_announce, LifecycleTypeOK, RuleStates, lifecycle_vars

\* the start of a victim's withdrawal,
LEMMA BeginWithdrawType ==
    ASSUME LifecycleTypeOK, NEW v \in Victims, begin_withdraw_for_victim(v)
    PROVE  LifecycleTypeOK'
  BY FenceType DEF begin_withdraw_for_victim, LifecycleTypeOK, RuleStates, StatesAfterWithdrawStart

\* the cleanup of port rules after an escalation,
LEMMA CleanupType ==
    ASSUME LifecycleTypeOK, NEW k \in Keys, begin_protocol_only_escalation_cleanup(k)
    PROVE  LifecycleTypeOK'
  BY DEF begin_protocol_only_escalation_cleanup, LifecycleTypeOK, RuleStates,
         StatesAfterWithdrawStart

\* a completed withdrawal,
LEMMA CompleteWithdrawType ==
    ASSUME LifecycleTypeOK, NEW k \in Keys, NEW u, NEW ok, complete_withdraw(k, u, ok)
    PROVE  LifecycleTypeOK'
  BY FenceType DEF complete_withdraw, LifecycleTypeOK, RuleStates, lifecycle_vars

\* a reservation of a capture,
LEMMA BeginCaptureType ==
    ASSUME LifecycleTypeOK, NEW v \in Victims, begin_refresh_capture(v)
    PROVE  LifecycleTypeOK'
  BY DEF begin_refresh_capture, LifecycleTypeOK

\* and its end.
LEMMA FinishCaptureType ==
    ASSUME LifecycleTypeOK, NEW v \in Victims, finish_refresh_capture(v)
    PROVE  LifecycleTypeOK'
  BY FenceType DEF finish_refresh_capture, LifecycleTypeOK

\* Every call keeps the table's types.
LEMMA LifecycleStepType == LifecycleTypeOK /\ [LifecycleNext]_lifecycle_vars => LifecycleTypeOK'
<1> SUFFICES ASSUME LifecycleTypeOK, [LifecycleNext]_lifecycle_vars PROVE LifecycleTypeOK'
  OBVIOUS
<1>1. CASE UNCHANGED lifecycle_vars
  BY <1>1 DEF lifecycle_vars, LifecycleTypeOK
<1>2. CASE LifecycleNext
  <2>1. \A v \in Victims, proto \in PortProtocols : ProtocolOnlyKey(v, proto) \in Keys
    BY ProtocolOnlyKeyInKeys DEF Protocols
  <2> QED
    BY <1>2, <2>1, EmplaceType, FailAnnounceType, CompleteAnnounceType, BeginWithdrawType,
       CleanupType, CompleteWithdrawType, BeginCaptureType, FinishCaptureType
       DEF LifecycleNext
<1> QED
  BY <1>1, <1>2

-----------------------------------------------------------------------------
(***************************************************************************)
(* The invariant of the table.  UuidShape and FenceExcludesLive are what   *)
(* makes EscalationCovered inductive: a protocol-only rule leaves          *)
(* "installed" only together with the fence going up, and the fence comes  *)
(* down only when no rule of the victim is left.                           *)
(***************************************************************************)
TableInv ==
    /\ LifecycleTypeOK
    /\ UuidShape
    /\ FenceHasReason
    /\ FenceExcludesLive
    /\ EscalationCovered

\* When ClearFenceIfFinished keeps a fence and when it drops one.
LEMMA FenceCases ==
    ASSUME NEW v, NEW fence, NEW states, NEW refresh, NEW x
    PROVE  /\ x \in ClearFenceIfFinished(v, fence, states, refresh) => x \in fence
           /\ x \in fence /\ x \notin ClearFenceIfFinished(v, fence, states, refresh) =>
                x = v /\ v \notin refresh /\ ~VictimHasRules(v, states)
           /\ x = v /\ x \in ClearFenceIfFinished(v, fence, states, refresh) =>
                v \in refresh \/ VictimHasRules(v, states)
  BY DEF ClearFenceIfFinished

\* A refresh plan only enters keys that are absent, of a victim that is not fenced.
LEMMA PlanAllowed ==
    ASSUME NEW v \in Victims, NEW proto \in PortProtocols, NEW P \in SUBSET Ports
    PROVE  \A x \in begin_refresh_protocol_rules(ProtocolOnlyKey(v, proto),
                                                 {PortKey(v, proto, p) : p \in P}) :
             AnnounceAllowed(x)
  BY DEF begin_refresh_protocol_rules, AnnounceAllowed, PortKey, ProtocolOnlyKey

\* Entering rules that may be announced keeps the table's invariant,
LEMMA EmplaceKeeps ==
    ASSUME TableInv, NEW S, \A x \in S : AnnounceAllowed(x), Emplace(S)
    PROVE  TableInv'
<1>1. LifecycleTypeOK'
  BY EmplaceType DEF TableInv
<1>2. UuidShape'
  BY DEF TableInv, UuidShape, Emplace
<1>3. FenceHasReason'
  BY DEF TableInv, FenceHasReason, VictimHasRules, Emplace
<1>4. FenceExcludesLive'
  BY DEF TableInv, FenceExcludesLive, Emplace, AnnounceAllowed
<1>5. EscalationCovered'
  <2> SUFFICES ASSUME NEW k \in Keys,
                      rule_state'[k] \in {"withdraw_requested", "withdrawing"},
                      k.destination_ipv4 \notin victims_withdraw_requested'
               PROVE  /\ k.destination_port # NoPort
                      /\ rule_state'[ProtocolOnlyKey(k.destination_ipv4, k.protocol)] = "installed"
    BY DEF EscalationCovered
  <2>1. rule_state[k] = rule_state'[k] /\ victims_withdraw_requested' = victims_withdraw_requested
    BY DEF Emplace
  <2>2. ProtocolOnlyKey(k.destination_ipv4, k.protocol) \in Keys
    BY KeyShape, ProtocolOnlyKeyInKeys
  <2>3. rule_state[ProtocolOnlyKey(k.destination_ipv4, k.protocol)] = "installed"
    BY <2>1 DEF TableInv, EscalationCovered
  <2> QED
    BY <2>1, <2>2, <2>3 DEF TableInv, EscalationCovered, Emplace, AnnounceAllowed
<1> QED
  BY <1>1, <1>2, <1>3, <1>4, <1>5 DEF TableInv

\* Erasing a rule that is not installed, and then looking at the fence.
LEMMA EraseKeeps ==
    ASSUME TableInv, NEW k \in Keys,
           rule_state[k] # "installed",
           rule_state' = [rule_state EXCEPT ![k] = "absent"],
           victims_refresh_in_progress' = victims_refresh_in_progress,
           victims_withdraw_requested' =
             ClearFenceIfFinished(k.destination_ipv4, victims_withdraw_requested, rule_state',
                                  victims_refresh_in_progress)
    PROVE  FenceHasReason' /\ FenceExcludesLive' /\ EscalationCovered'
<1> USE DEF TableInv
<1>1. \A m \in Keys : rule_state'[m] = IF m = k THEN "absent" ELSE rule_state[m]
  BY DEF LifecycleTypeOK
<1>2. victims_withdraw_requested' \subseteq victims_withdraw_requested
  BY DEF ClearFenceIfFinished
<1>3. FenceHasReason'
  <2> SUFFICES ASSUME NEW v \in victims_withdraw_requested',
                      v \notin victims_refresh_in_progress
               PROVE  VictimHasRules(v, rule_state')
    BY DEF FenceHasReason, VictimHasRules
  <2>1. CASE v = k.destination_ipv4
    BY <2>1 DEF ClearFenceIfFinished
  <2>2. CASE v # k.destination_ipv4
    BY <1>1, <1>2, <2>2 DEF FenceHasReason, VictimHasRules
  <2> QED
    BY <2>1, <2>2
<1>4. FenceExcludesLive'
  <2> SUFFICES ASSUME NEW m \in Keys,
                      m.destination_ipv4 \in victims_withdraw_requested'
               PROVE  rule_state'[m] \notin {"announcing", "installed"}
    BY DEF FenceExcludesLive
  <2>1. rule_state[m] \notin {"announcing", "installed"}
    BY <1>2 DEF FenceExcludesLive
  <2> QED
    BY <1>1, <2>1
<1>5. EscalationCovered'
  <2> SUFFICES ASSUME NEW m \in Keys,
                      rule_state'[m] \in {"withdraw_requested", "withdrawing"},
                      m.destination_ipv4 \notin victims_withdraw_requested'
               PROVE  /\ m.destination_port # NoPort
                      /\ rule_state'[ProtocolOnlyKey(m.destination_ipv4, m.protocol)] = "installed"
    BY DEF EscalationCovered
  <2>1. m.destination_ipv4 \notin victims_withdraw_requested
    BY DEF ClearFenceIfFinished, VictimHasRules
  <2>2. ProtocolOnlyKey(m.destination_ipv4, m.protocol) \in Keys
    BY KeyShape, ProtocolOnlyKeyInKeys
  <2> QED
    BY <1>1, <2>1, <2>2 DEF EscalationCovered
<1> QED
  BY <1>3, <1>4, <1>5

\* so does a failed announcement,
LEMMA FailAnnounceKeeps ==
    ASSUME TableInv, NEW k \in Keys, fail_announce(k)
    PROVE  TableInv'
<1> USE DEF TableInv
<1>1. LifecycleTypeOK'
  BY FailAnnounceType
<1>2. CASE UNCHANGED lifecycle_vars
  BY <1>2 DEF lifecycle_vars, LifecycleTypeOK, UuidShape, FenceHasReason, FenceExcludesLive,
              EscalationCovered, VictimHasRules
<1>3. CASE ~UNCHANGED lifecycle_vars
  <2> DEFINE v == k.destination_ipv4
  <2>1. /\ rule_state' = [rule_state EXCEPT ![k] = "absent"]
        /\ rule_state[k] \in {"announcing", "withdraw_requested"}
        /\ add_path_uuid[k] = NoUuid
        /\ add_path_uuid' = add_path_uuid
        /\ victims_refresh_in_progress' = victims_refresh_in_progress
        /\ victims_withdraw_requested' =
             ClearFenceIfFinished(v, victims_withdraw_requested, rule_state',
                                  victims_refresh_in_progress)
    BY <1>3 DEF fail_announce, UuidShape
  <2>2. UuidShape'
    BY <2>1 DEF UuidShape, LifecycleTypeOK
  <2>3. FenceHasReason' /\ FenceExcludesLive' /\ EscalationCovered'
    BY <2>1, EraseKeeps
  <2> QED
    BY <1>1, <2>2, <2>3
<1> QED
  BY <1>2, <1>3

\* a completed one,
LEMMA CompleteAnnounceKeeps ==
    ASSUME TableInv, NEW k \in Keys, NEW u \in Uuids, complete_announce(k, u)
    PROVE  TableInv'
<1> USE DEF TableInv
<1>1. LifecycleTypeOK'
  BY CompleteAnnounceType
<1>2. UuidShape'
  BY LifecycleAssumption
     DEF complete_announce, lifecycle_vars, UuidShape, LifecycleTypeOK
<1>3. FenceHasReason'
  BY DEF complete_announce, announce_completion, lifecycle_vars, FenceHasReason,
         VictimHasRules, LifecycleTypeOK
<1>4. FenceExcludesLive'
  BY DEF complete_announce, announce_completion, lifecycle_vars, FenceExcludesLive,
         LifecycleTypeOK
<1>5. EscalationCovered'
  BY KeyShape, ProtocolOnlyKeyInKeys
     DEF complete_announce, announce_completion, lifecycle_vars, EscalationCovered,
         LifecycleTypeOK
<1> QED
  BY <1>1, <1>2, <1>3, <1>4, <1>5

\* the start of a victim's withdrawal,
LEMMA BeginWithdrawKeeps ==
    ASSUME TableInv, NEW v \in Victims, begin_withdraw_for_victim(v)
    PROVE  TableInv'
<1> USE DEF TableInv
<1>1. LifecycleTypeOK'
  BY BeginWithdrawType
<1>2. \A k \in Keys :
         /\ k.destination_ipv4 # v => rule_state'[k] = rule_state[k]
         /\ rule_state'[k] = "absent" <=> rule_state[k] = "absent"
         /\ k.destination_ipv4 = v => rule_state'[k] \notin {"announcing", "installed"}
         /\ rule_state'[k] = "withdrawing" => add_path_uuid[k] # NoUuid
         /\ rule_state'[k] \in {"announcing", "installed"} => rule_state'[k] = rule_state[k]
  BY DEF begin_withdraw_for_victim, StatesAfterWithdrawStart, RulesOfVictim, Withdrawable,
         UuidShape, LifecycleTypeOK, RuleStates
<1>3. /\ add_path_uuid' = add_path_uuid
      /\ victims_refresh_in_progress' = victims_refresh_in_progress
      /\ victims_withdraw_requested' =
           ClearFenceIfFinished(v, victims_withdraw_requested \cup {v}, rule_state',
                                victims_refresh_in_progress)
  BY DEF begin_withdraw_for_victim
<1>4. UuidShape'
  BY <1>2, <1>3 DEF UuidShape
<1>5. FenceHasReason'
  BY <1>2, <1>3, FenceCases DEF FenceHasReason, VictimHasRules
<1>6. FenceExcludesLive'
  BY <1>2, <1>3, FenceCases DEF FenceExcludesLive
<1>7. EscalationCovered'
  <2> SUFFICES ASSUME NEW k \in Keys,
                      rule_state'[k] \in {"withdraw_requested", "withdrawing"},
                      k.destination_ipv4 \notin victims_withdraw_requested'
               PROVE  /\ k.destination_port # NoPort
                      /\ rule_state'[ProtocolOnlyKey(k.destination_ipv4, k.protocol)] = "installed"
    BY DEF EscalationCovered
  <2>1. k.destination_ipv4 # v
    BY <1>3, FenceCases DEF VictimHasRules
  <2>2. k.destination_ipv4 \notin victims_withdraw_requested
    BY <1>3, <2>1, FenceCases
  <2>3. ProtocolOnlyKey(k.destination_ipv4, k.protocol) \in Keys
    BY KeyShape, ProtocolOnlyKeyInKeys
  <2>4. ProtocolOnlyKey(k.destination_ipv4, k.protocol).destination_ipv4 # v
    BY <2>1 DEF ProtocolOnlyKey
  <2> QED
    BY <1>2, <2>1, <2>2, <2>3, <2>4 DEF EscalationCovered
<1> QED
  BY <1>1, <1>4, <1>5, <1>6, <1>7

\* the cleanup after an escalation, whose cover is installed,
LEMMA CleanupKeeps ==
    ASSUME TableInv, NEW v \in Victims, NEW proto \in PortProtocols,
           begin_protocol_only_escalation_cleanup(ProtocolOnlyKey(v, proto))
    PROVE  TableInv'
<1> USE DEF TableInv
<1> DEFINE key == ProtocolOnlyKey(v, proto)
<1>1. key \in Keys /\ key.destination_ipv4 = v /\ key.protocol = proto /\ key.destination_port = NoPort
  BY ProtocolOnlyKeyInKeys DEF Protocols, ProtocolOnlyKey
<1>2. LifecycleTypeOK'
  BY <1>1, CleanupType
<1>3. \A k \in Keys :
         /\ rule_state'[k] # rule_state[k] =>
              /\ SamePortFamily(k, key)
              /\ rule_state[key] = "installed"
              /\ rule_state'[k] \in {"withdraw_requested", "withdrawing"}
              /\ rule_state'[k] = "withdrawing" => add_path_uuid[k] # NoUuid
         /\ rule_state'[k] = "absent" <=> rule_state[k] = "absent"
  BY DEF begin_protocol_only_escalation_cleanup, StatesAfterWithdrawStart, EscalationCleanup,
         Withdrawable, UuidShape, LifecycleTypeOK, RuleStates
<1>4. UNCHANGED <<add_path_uuid, victims_withdraw_requested, victims_refresh_in_progress>>
  BY DEF begin_protocol_only_escalation_cleanup
<1>5. UuidShape'
  BY <1>3, <1>4 DEF UuidShape
<1>6. FenceHasReason'
  BY <1>3, <1>4 DEF FenceHasReason, VictimHasRules
<1>7. FenceExcludesLive'
  BY <1>3, <1>4 DEF FenceExcludesLive
<1>8. EscalationCovered'
  <2> SUFFICES ASSUME NEW k \in Keys,
                      rule_state'[k] \in {"withdraw_requested", "withdrawing"},
                      k.destination_ipv4 \notin victims_withdraw_requested'
               PROVE  /\ k.destination_port # NoPort
                      /\ rule_state'[ProtocolOnlyKey(k.destination_ipv4, k.protocol)] = "installed"
    BY DEF EscalationCovered
  <2> DEFINE cover == ProtocolOnlyKey(k.destination_ipv4, k.protocol)
  <2>1. cover \in Keys /\ cover.destination_port = NoPort
    BY KeyShape, ProtocolOnlyKeyInKeys DEF ProtocolOnlyKey
  <2>2. rule_state'[cover] = rule_state[cover]
    BY <1>3, <2>1 DEF SamePortFamily
  <2>3. CASE rule_state'[k] = rule_state[k]
    BY <1>4, <2>2, <2>3 DEF EscalationCovered
  <2>4. CASE rule_state'[k] # rule_state[k]
    <3>1. SamePortFamily(k, key) /\ rule_state[key] = "installed"
      BY <1>3, <2>4
    <3>2. cover = key /\ k.destination_port # NoPort
      BY <1>1, <3>1 DEF SamePortFamily, ProtocolOnlyKey
    <3> QED
      BY <2>2, <3>1, <3>2
  <2> QED
    BY <2>3, <2>4
<1> QED
  BY <1>2, <1>5, <1>6, <1>7, <1>8

\* a completed withdrawal,
LEMMA CompleteWithdrawKeeps ==
    ASSUME TableInv, NEW k \in Keys, NEW u, NEW ok, complete_withdraw(k, u, ok)
    PROVE  TableInv'
<1> USE DEF TableInv
<1>1. LifecycleTypeOK'
  BY CompleteWithdrawType
<1>2. CASE UNCHANGED lifecycle_vars
  BY <1>2 DEF lifecycle_vars, LifecycleTypeOK, UuidShape, FenceHasReason, FenceExcludesLive,
              EscalationCovered, VictimHasRules
<1>3. CASE /\ rule_state[k] = "withdrawing"
           /\ rule_state' = [rule_state EXCEPT ![k] = "withdraw_requested"]
           /\ UNCHANGED <<add_path_uuid, victims_withdraw_requested, victims_refresh_in_progress>>
  <2>1. UuidShape' /\ FenceExcludesLive'
    BY <1>3 DEF UuidShape, FenceExcludesLive, LifecycleTypeOK
  <2>2. FenceHasReason'
    BY <1>3 DEF FenceHasReason, VictimHasRules, LifecycleTypeOK
  <2>3. EscalationCovered'
    BY <1>3, KeyShape, ProtocolOnlyKeyInKeys DEF EscalationCovered, LifecycleTypeOK
  <2> QED
    BY <1>1, <2>1, <2>2, <2>3
<1>4. CASE /\ rule_state[k] = "withdrawing"
           /\ rule_state' = [rule_state EXCEPT ![k] = "absent"]
           /\ add_path_uuid' = [add_path_uuid EXCEPT ![k] = NoUuid]
           /\ UNCHANGED victims_refresh_in_progress
           /\ victims_withdraw_requested' =
                ClearFenceIfFinished(k.destination_ipv4, victims_withdraw_requested,
                                     rule_state', victims_refresh_in_progress)
  <2>1. UuidShape'
    BY <1>4 DEF UuidShape, LifecycleTypeOK
  <2>2. FenceHasReason' /\ FenceExcludesLive' /\ EscalationCovered'
    BY <1>4, EraseKeeps
  <2> QED
    BY <1>1, <2>1, <2>2
<1> QED
  BY <1>2, <1>3, <1>4 DEF complete_withdraw

\* and the two ends of a reservation.
LEMMA CapturesKeep ==
    ASSUME TableInv, NEW v \in Victims, begin_refresh_capture(v) \/ finish_refresh_capture(v)
    PROVE  TableInv'
<1> USE DEF TableInv
<1>1. LifecycleTypeOK'
  BY BeginCaptureType, FinishCaptureType
<1>2. CASE begin_refresh_capture(v)
  BY <1>1, <1>2 DEF begin_refresh_capture, UuidShape, FenceHasReason, FenceExcludesLive,
                    EscalationCovered, VictimHasRules
<1>3. CASE finish_refresh_capture(v)
  <2>1. UuidShape'
    BY <1>3 DEF finish_refresh_capture, UuidShape
  <2>2. FenceHasReason'
    BY <1>3, FenceCases DEF finish_refresh_capture, FenceHasReason, VictimHasRules
  <2>3. FenceExcludesLive'
    BY <1>3, FenceCases DEF finish_refresh_capture, FenceExcludesLive
  <2>4. EscalationCovered'
    BY <1>3, FenceCases, KeyShape
       DEF finish_refresh_capture, EscalationCovered, LifecycleTypeOK, VictimHasRules
  <2> QED
    BY <1>1, <2>1, <2>2, <2>3, <2>4
<1> QED
  BY <1>2, <1>3

\* The empty table satisfies the invariant.
LEMMA InitTableInv == LifecycleInit => TableInv
  BY DEF LifecycleInit, TableInv, LifecycleTypeOK, RuleStates, UuidShape, FenceHasReason,
         FenceExcludesLive, EscalationCovered

\* Every method call keeps it.
LEMMA StepTableInv == TableInv /\ [LifecycleNext]_lifecycle_vars => TableInv'
<1> SUFFICES ASSUME TableInv, [LifecycleNext]_lifecycle_vars PROVE TableInv'
  OBVIOUS
<1>1. CASE UNCHANGED lifecycle_vars
  BY <1>1 DEF TableInv, lifecycle_vars, LifecycleTypeOK, UuidShape, FenceHasReason,
              FenceExcludesLive, EscalationCovered, VictimHasRules
<1>2. ASSUME NEW k \in Keys, Emplace(begin_announce(k)) \/ Emplace(begin_refresh_announce(k))
      PROVE  TableInv'
  BY <1>2, EmplaceKeeps DEF begin_announce, begin_refresh_announce
<1>3. ASSUME NEW v \in Victims, NEW proto \in PortProtocols, NEW P \in SUBSET Ports,
             Emplace(begin_refresh_protocol_rules(
                         ProtocolOnlyKey(v, proto), {PortKey(v, proto, p) : p \in P}))
      PROVE  TableInv'
  BY <1>3, EmplaceKeeps, PlanAllowed
<1>4. ASSUME NEW k \in Keys,
             \/ fail_announce(k)
             \/ \E u \in Uuids :
                  complete_announce(k, u) \/ \E ok \in BOOLEAN : complete_withdraw(k, u, ok)
      PROVE  TableInv'
  BY <1>4, FailAnnounceKeeps, CompleteAnnounceKeeps, CompleteWithdrawKeeps
<1>5. ASSUME NEW v \in Victims,
             \/ begin_withdraw_for_victim(v)
             \/ begin_refresh_capture(v)
             \/ finish_refresh_capture(v)
             \/ \E proto \in PortProtocols :
                  begin_protocol_only_escalation_cleanup(ProtocolOnlyKey(v, proto))
      PROVE  TableInv'
  BY <1>5, BeginWithdrawKeeps, CapturesKeep, CleanupKeeps
<1> QED
  BY <1>1, <1>2, <1>3, <1>4, <1>5 DEF LifecycleNext

\* The table's invariant holds under every sequence of method calls.
LEMMA TableInvHolds == LifecycleSpec => []TableInv
  BY InitTableInv, StepTableInv, PTL DEF LifecycleSpec

\* Whatever the callers do, in whatever order, a fence that stands has a reason: a rule of
\* the victim is in the table or a refresh of it is reserved, so the call that ends the
\* last of these finds the fence and takes it down.
THEOREM FenceJustified == LifecycleSpec => []FenceHasReason
<1>1. TableInv => FenceHasReason
  BY DEF TableInv
<1> QED
  BY <1>1, TableInvHolds, PTL

\* No live rule stands behind a fence: an UNBAN leaves no rule announcing or installed, and
\* no BAN or refresh enters one before the fence is down.
THEOREM FencedRulesLeave == LifecycleSpec => []FenceExcludesLive
<1>1. TableInv => FenceExcludesLive
  BY DEF TableInv
<1> QED
  BY <1>1, TableInvHolds, PTL

\* Outside an UNBAN only port rules are withdrawn, each while its protocol-only rule is
\* installed: an escalation replaces what it removes.
THEOREM WithdrawalsCovered == LifecycleSpec => []EscalationCovered
<1>1. TableInv => EscalationCovered
  BY DEF TableInv
<1> QED
  BY <1>1, TableInvHolds, PTL

=============================================================================
