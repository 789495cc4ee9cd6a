------------------------- MODULE FlowspecLifecycle -------------------------
(***************************************************************************)
(* gobgp_flowspec_lifecycle_t: the process-wide table of the FlowSpec      *)
(* rules FastNetMon announced through GoBGP.  Every method runs under the  *)
(* one mutex of the class, so every method is one atomic operator here; a  *)
(* caller that needs two methods takes two steps.                          *)
(*                                                                         *)
(* `rules` (a std::map) is kept as two functions on the set of all keys:   *)
(* rule_state, with "absent" for a key the map does not hold, and          *)
(* add_path_uuid, with NoUuid for the empty string.                        *)
(***************************************************************************)
EXTENDS Naturals, FiniteSets

CONSTANTS
    Victims,        \* IPv4 addresses that can be banned
    PortProtocols,  \* protocols with port rules: "TCP", "UDP"
    Ports,          \* destination ports
    Uuids,          \* path identifiers GoBGP hands out
    NoProtocol,     \* protocol_present = false
    NoPort,         \* destination_port_present = false
    NoUuid,         \* the empty UUID string
    MaxPortRules    \* gobgp_flowspec_max_port_rules_per_protocol

ASSUME LifecycleAssumption ==
    /\ PortProtocols \subseteq {"TCP", "UDP"}
    /\ NoProtocol \notin {"TCP", "UDP", "ICMP"}
    /\ IsFiniteSet(Ports) /\ NoPort \notin Ports
    /\ NoUuid \notin Uuids
    /\ MaxPortRules \in Nat \ {0}

VARIABLES
    rule_state,                  \* rules[key].state, or "absent"
    add_path_uuid,               \* rules[key].add_path_uuid
    victims_withdraw_requested,  \* the UNBAN fence
    victims_refresh_in_progress  \* refresh captures reserved and not finished

lifecycle_vars == <<rule_state, add_path_uuid, victims_withdraw_requested,
                    victims_refresh_in_progress>>

Protocols == PortProtocols \cup {"ICMP"}

(***************************************************************************)
(* build_gobgp_flowspec_rule_key accepts a /32 destination with at most    *)
(* one protocol and at most one port, and a port only beside a protocol;   *)
(* build_gobgp_flowspec_ipv4_rule sets a port for TCP and UDP alone.       *)
(***************************************************************************)
Keys ==
    {k \in [destination_ipv4 : Victims,
            protocol         : Protocols \cup {NoProtocol},
            destination_port : Ports \cup {NoPort}] :
        k.destination_port # NoPort => k.protocol \in PortProtocols}

ProtocolOnlyKey(v, proto) ==
    [destination_ipv4 |-> v, protocol |-> proto, destination_port |-> NoPort]

PortKey(v, proto, port) ==
    [destination_ipv4 |-> v, protocol |-> proto, destination_port |-> port]

RuleStates ==
    {"absent", "announcing", "installed", "withdraw_requested", "withdrawing"}

LifecycleTypeOK ==
    /\ rule_state \in [Keys -> RuleStates]
    /\ add_path_uuid \in [Keys -> Uuids \cup {NoUuid}]
    /\ victims_withdraw_requested \subseteq Victims
    /\ victims_refresh_in_progress \subseteq Victims

LifecycleInit ==
    /\ rule_state = [k \in Keys |-> "absent"]
    /\ add_path_uuid = [k \in Keys |-> NoUuid]
    /\ victims_withdraw_requested = {}
    /\ victims_refresh_in_progress = {}

-----------------------------------------------------------------------------
(* The fence and the helpers that look at the table.                       *)

VictimHasRules(v, states) ==
    \E k \in Keys : k.destination_ipv4 = v /\ states[k] # "absent"

\* Mutant: the fence goes as soon as the table is empty, whatever captures are reserved.
FenceIgnoringRefresh(v, fence, states, refresh) ==
    IF VictimHasRules(v, states) THEN fence ELSE fence \ {v}

ClearFenceIfFinished(v, fence, states, refresh) ==
    IF VictimHasRules(v, states) \/ v \in refresh THEN fence ELSE fence \ {v}

\* Mutant: the protocol-only rule counts as one of its own port rules.
SameFamilyAnyPort(k, protocol_only_key) ==
    /\ k.destination_ipv4 = protocol_only_key.destination_ipv4
    /\ k.protocol = protocol_only_key.protocol

SamePortFamily(k, protocol_only_key) ==
    /\ k.destination_ipv4 = protocol_only_key.destination_ipv4
    /\ k.protocol = protocol_only_key.protocol
    /\ k.destination_port # NoPort

\* A rule with a known path whose DeletePath nobody is running.
Withdrawable(k) ==
    \/ rule_state[k] = "installed"
    \/ rule_state[k] = "withdraw_requested" /\ add_path_uuid[k] # NoUuid

-----------------------------------------------------------------------------
(* Announcing.                                                             *)

\* Mutant: the fence is not consulted.
AnnounceAllowedUnfenced(k) == rule_state[k] = "absent"

\* Mutant: a key that is already in the table is announced again.
AnnounceAllowedTwice(k) == k.destination_ipv4 \notin victims_withdraw_requested

AnnounceAllowed(k) ==
    /\ k.destination_ipv4 \notin victims_withdraw_requested
    /\ rule_state[k] = "absent"

\* Enters the keys of S as announcing, with no UUID yet.
Emplace(S) ==
    /\ rule_state' = [k \in Keys |-> IF k \in S THEN "announcing" ELSE rule_state[k]]
    /\ add_path_uuid' = [k \in Keys |-> IF k \in S THEN NoUuid ELSE add_path_uuid[k]]
    /\ UNCHANGED <<victims_withdraw_requested, victims_refresh_in_progress>>

\* begin_announce (BAN) and begin_refresh_announce (ICMP refresh): the keys that
\* the caller must now announce, none when the method returns false.
begin_announce(k) == IF AnnounceAllowed(k) THEN {k} ELSE {}

\* Mutant: the ICMP rule is built with a port.
RefreshAnnounceWithPort(k) ==
    IF AnnounceAllowed(k) THEN {[k EXCEPT !.destination_port = p] : p \in Ports} ELSE {}

begin_refresh_announce(k) == IF AnnounceAllowed(k) THEN {k} ELSE {}

\* Mutant: only rules that GoBGP confirmed count against the limit.
ExistingInstalledPortRules(protocol_only_key) ==
    {k \in Keys : SamePortFamily(k, protocol_only_key) /\ rule_state[k] = "installed"}

ExistingPortRules(protocol_only_key) ==
    {k \in Keys : SamePortFamily(k, protocol_only_key) /\ rule_state[k] # "absent"}

\* begin_refresh_protocol_rules: the keys of the plan, entered as announcing in the
\* same critical section; {protocol_only_key} is the escalation.
begin_refresh_protocol_rules(protocol_only_key, requests) ==
    LET new_port_rules == {k \in requests : rule_state[k] = "absent"}
    IN  IF \/ protocol_only_key.destination_ipv4 \in victims_withdraw_requested
           \/ rule_state[protocol_only_key] # "absent"
           \/ new_port_rules = {}
        THEN {}
        ELSE IF Cardinality(ExistingPortRules(protocol_only_key))
                    + Cardinality(new_port_rules) > MaxPortRules
             THEN {protocol_only_key}
             ELSE new_port_rules

\* fail_announce: the path is taken as not installed and the rule forgotten.
fail_announce(k) ==
    IF \/ rule_state[k] = "announcing"
       \/ rule_state[k] = "withdraw_requested" /\ add_path_uuid[k] = NoUuid
    THEN /\ rule_state' = [rule_state EXCEPT ![k] = "absent"]
         /\ victims_withdraw_requested' =
                ClearFenceIfFinished(k.destination_ipv4, victims_withdraw_requested,
                                     rule_state', victims_refresh_in_progress)
         /\ UNCHANGED <<add_path_uuid, victims_refresh_in_progress>>
    ELSE UNCHANGED lifecycle_vars

\* What complete_announce answers for an AddPath that returned a UUID.
announce_completion(k) ==
    IF rule_state[k] = "announcing" THEN "installed"
    ELSE IF rule_state[k] = "withdraw_requested" /\ add_path_uuid[k] = NoUuid
    THEN "withdraw_required"
    ELSE "ignored"

complete_announce(k, uuid) ==
    IF announce_completion(k) = "ignored"
    THEN UNCHANGED lifecycle_vars
    ELSE /\ rule_state' = [rule_state EXCEPT ![k] =
                             IF announce_completion(k) = "installed"
                             THEN "installed" ELSE "withdrawing"]
         /\ add_path_uuid' = [add_path_uuid EXCEPT ![k] = uuid]
         /\ UNCHANGED <<victims_withdraw_requested, victims_refresh_in_progress>>

-----------------------------------------------------------------------------
(* Withdrawing.                                                            *)

\* The rules a withdrawal that covers the keys of S must delete now.
withdraw_requests(S) == {k \in S : Withdrawable(k)}

\* Mutant: a rule whose AddPath is running is dropped from the table.
StatesDroppingAnnouncing(S) ==
    [k \in Keys |->
        IF k \notin S THEN rule_state[k]
        ELSE IF rule_state[k] = "announcing" THEN "absent"
        ELSE IF Withdrawable(k) THEN "withdrawing"
        ELSE rule_state[k]]

\* Installed rules go to withdrawing, rules whose AddPath is running are only marked.
StatesAfterWithdrawStart(S) ==
    [k \in Keys |->
        IF k \notin S THEN rule_state[k]
        ELSE IF rule_state[k] = "announcing" THEN "withdraw_requested"
        ELSE IF Withdrawable(k) THEN "withdrawing"
        ELSE rule_state[k]]

RulesOfVictim(v) == {k \in Keys : k.destination_ipv4 = v}

begin_withdraw_for_victim(v) ==
    /\ rule_state' = StatesAfterWithdrawStart(RulesOfVictim(v))
    /\ victims_withdraw_requested' =
           ClearFenceIfFinished(v, victims_withdraw_requested \cup {v},
                                rule_state', victims_refresh_in_progress)
    /\ UNCHANGED <<add_path_uuid, victims_refresh_in_progress>>

\* The port rules an escalation cleanup covers: none unless the protocol-only rule
\* is installed and no UNBAN runs.
EscalationCleanup(protocol_only_key) ==
    IF /\ rule_state[protocol_only_key] = "installed"
       /\ protocol_only_key.destination_ipv4 \notin victims_withdraw_requested
    THEN {k \in Keys : SamePortFamily(k, protocol_only_key)}
    ELSE {}

begin_protocol_only_escalation_cleanup(protocol_only_key) ==
    /\ rule_state' = StatesAfterWithdrawStart(EscalationCleanup(protocol_only_key))
    /\ UNCHANGED <<add_path_uuid, victims_withdraw_requested,
                   victims_refresh_in_progress>>

\* Mutant: a rule whose DeletePath failed is erased all the same.
CompleteWithdrawForgetting(k, uuid, success) ==
    /\ rule_state' = [rule_state EXCEPT ![k] = "absent"]
    /\ add_path_uuid' = [add_path_uuid EXCEPT ![k] = NoUuid]
    /\ victims_withdraw_requested' =
           ClearFenceIfFinished(k.destination_ipv4, victims_withdraw_requested,
                                rule_state', victims_refresh_in_progress)
    /\ UNCHANGED victims_refresh_in_progress

\* Mutant: a failed DeletePath restores the rule as installed.
CompleteWithdrawRestoring(k, uuid, success) ==
    /\ rule_state' = [rule_state EXCEPT ![k] = IF success THEN "absent" ELSE "installed"]
    /\ add_path_uuid' = [add_path_uuid EXCEPT ![k] = IF success THEN NoUuid ELSE @]
    /\ victims_withdraw_requested' =
           ClearFenceIfFinished(k.destination_ipv4, victims_withdraw_requested,
                                rule_state', victims_refresh_in_progress)
    /\ UNCHANGED victims_refresh_in_progress

\* complete_withdraw: a failed DeletePath leaves the rule waiting for another UNBAN.
complete_withdraw(k, uuid, success) ==
    IF rule_state[k] # "withdrawing" \/ add_path_uuid[k] # uuid
    THEN UNCHANGED lifecycle_vars
    ELSE IF success
    THEN /\ rule_state' = [rule_state EXCEPT ![k] = "absent"]
         /\ add_path_uuid' = [add_path_uuid EXCEPT ![k] = NoUuid]
         /\ victims_withdraw_requested' =
                ClearFenceIfFinished(k.destination_ipv4, victims_withdraw_requested,
                                     rule_state', victims_refresh_in_progress)
         /\ UNCHANGED victims_refresh_in_progress
    ELSE /\ rule_state' = [rule_state EXCEPT ![k] = "withdraw_requested"]
         /\ UNCHANGED <<add_path_uuid, victims_withdraw_requested,
                        victims_refresh_in_progress>>

-----------------------------------------------------------------------------
(* Refresh captures.                                                       *)

\* Mutant: a second capture can be reserved before the first one is finished.
CaptureAllowedTwice(v) == v \notin victims_withdraw_requested

CaptureAllowed(v) ==
    /\ v \notin victims_withdraw_requested
    /\ v \notin victims_refresh_in_progress

begin_refresh_capture(v) ==
    /\ CaptureAllowed(v)
    /\ victims_refresh_in_progress' = victims_refresh_in_progress \cup {v}
    /\ UNCHANGED <<rule_state, add_path_uuid, victims_withdraw_requested>>

\* The method the unit tests use; here also the mutant of finish_refresh_capture that
\* forgets to look at the fence.
complete_refresh_capture(v) ==
    /\ victims_refresh_in_progress' = victims_refresh_in_progress \ {v}
    /\ UNCHANGED <<rule_state, add_path_uuid, victims_withdraw_requested>>

finish_refresh_capture(v) ==
    /\ victims_refresh_in_progress' = victims_refresh_in_progress \ {v}
    /\ victims_withdraw_requested' =
           ClearFenceIfFinished(v, victims_withdraw_requested, rule_state,
                                victims_refresh_in_progress')
    /\ UNCHANGED <<rule_state, add_path_uuid>>

-----------------------------------------------------------------------------
(* The class by itself: any caller, any order of calls, any arguments.  The *)
(* cleanup alone has a precondition, that its key is protocol-only.  The    *)
(* public complete_refresh_capture is left out: the daemon never calls it,  *)
(* and a caller of it could leave a fence that nothing takes down.          *)

LifecycleNext ==
    \/ \E k \in Keys :
         \/ Emplace(begin_announce(k))
         \/ Emplace(begin_refresh_announce(k))
         \/ fail_announce(k)
         \/ \E u \in Uuids :
              complete_announce(k, u) \/ \E ok \in BOOLEAN : complete_withdraw(k, u, ok)
    \/ \E v \in Victims :
         \/ begin_withdraw_for_victim(v)
         \/ begin_refresh_capture(v)
         \/ finish_refresh_capture(v)
         \/ \E proto \in PortProtocols :
              \/ \E P \in SUBSET Ports :
                   Emplace(begin_refresh_protocol_rules(
                               ProtocolOnlyKey(v, proto), {PortKey(v, proto, p) : p \in P}))
              \/ begin_protocol_only_escalation_cleanup(ProtocolOnlyKey(v, proto))

LifecycleSpec == LifecycleInit /\ [][LifecycleNext]_lifecycle_vars

\* Which states of a rule come with a UUID.
UuidShape ==
    \A k \in Keys :
      /\ rule_state[k] \in {"absent", "announcing"} => add_path_uuid[k] = NoUuid
      /\ rule_state[k] \in {"installed", "withdrawing"} => add_path_uuid[k] # NoUuid

\* The fence of a victim stands only while something of that victim is unfinished, so a
\* later BAN is not refused without a reason (clear_withdraw_fence_if_finished_locked).
FenceHasReason ==
    \A v \in victims_withdraw_requested :
      VictimHasRules(v, rule_state) \/ v \in victims_refresh_in_progress

\* While the fence stands every rule of the victim is on its way out.
FenceExcludesLive ==
    \A k \in Keys :
      k.destination_ipv4 \in victims_withdraw_requested =>
        rule_state[k] \notin {"announcing", "installed"}

\* Outside an UNBAN only an escalation withdraws, and what it withdraws is a port rule
\* whose protocol-only rule is installed: the order the cleanup comment promises.
EscalationCovered ==
    \A k \in Keys :
      /\ rule_state[k] \in {"withdraw_requested", "withdrawing"}
      /\ k.destination_ipv4 \notin victims_withdraw_requested
      => /\ k.destination_port # NoPort
         /\ rule_state[ProtocolOnlyKey(k.destination_ipv4, k.protocol)] = "installed"

=============================================================================
