---------------------------- MODULE MCMitigation ----------------------------
(* Small instances of Mitigation for TLC.                                   *)
EXTENDS Mitigation, TLC

\* A refresh that finds ICMP traffic.
MCIcmpResults == {<<[protocol |-> "ICMP", significant_ports |-> {}]>>}

Symmetry == Permutations(Workers) \cup Permutations(Uuids) \cup Permutations(ApiCalls)

=============================================================================
