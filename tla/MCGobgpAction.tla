--------------------------- MODULE MCGobgpAction ---------------------------
(* Small instances of GobgpAction for TLC.                                  *)
EXTENDS GobgpAction, TLC

Tcp(P) == [protocol |-> "TCP", significant_ports |-> P]
Icmp   == [protocol |-> "ICMP", significant_ports |-> {}]

\* An ICMP result, or a TCP result with any non-empty set of significant ports.
MCRefreshResults == {<<Icmp>>} \cup {<<Tcp(P)>> : P \in SUBSET Ports \ {{}}}

\* One thread that handles two protocols, the second of which is over the limit.
MCTwoProtocolResults == {<<Icmp, Tcp(Ports)>>}

Symmetry == Permutations(Workers) \cup Permutations(Uuids) \cup Permutations(Ports)

=============================================================================
