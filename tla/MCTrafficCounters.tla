------------------------- MODULE MCTrafficCounters -------------------------
EXTENDS TrafficCounters, TLC

MCNetworkOf == "h1" :> "n1" @@ "k1" :> "n6"

Packet(version, src, dst, protocol, marks, n) ==
    [version |-> version, src |-> src, dst |-> dst, protocol |-> protocol, marks |-> marks,
     packets |-> n, connection |-> <<protocol, n>>]

Flood    == Packet(4, "x", "h1", "tcp", {"tcp_syn", "fragmented"}, 2)
Reply    == Packet(4, "h1", "x", "udp", {"dropped"}, 1)
Trusted  == Packet(4, "x", "h1", "icmp", {}, 1)
Inside   == Packet(4, "h1", "h1", "tcp", {}, 1)
Echo6    == Packet(6, "x", "k1", "icmp", {}, 1)
Syn6     == Packet(6, "x", "k1", "tcp", {"tcp_syn"}, 1)
Transit6 == Packet(6, "x", "y", "udp", {}, 1)
Arp      == Packet(0, "x", "y", "other", {}, 1)

\* In the last mix a host receives two protocols, one packet each: together in a period
\* they make a total whose parts are all truncated to nothing.
MCMixes == {{Flood, Trusted, Arp}, {Reply, Inside}, {Transit6}, {Echo6, Syn6}}
MCWhitelisted == {Trusted}
MCThresholds == [f \in {"total"} |-> 0]
=============================================================================
