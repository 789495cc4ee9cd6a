--------------------------- MODULE MCFlowSpecRules ---------------------------
(* A small instance of FlowSpecRules for TLC.                                *)
EXTENDS FlowSpecRules

-----------------------------------------------------------------------------
(* The capture *)

Tcp(port, number, ratio) ==
    [ip_protocol_version |-> 4, packet_direction |-> "INCOMING", dst_ip |-> "victim",
     protocol |-> "TCP", destination_port |-> port, fragmented |-> FALSE,
     fragment_offset |-> 0, number_of_packets |-> number, sample_ratio |-> ratio]

(***************************************************************************)
(* Packets of light and heavy ports, one whose weight alone saturates, one *)
(* without weight, a UDP packet, a first fragment, and one packet for each *)
(* reason not to count.                                                    *)
(***************************************************************************)
MCPackets ==
    {Tcp(80, 1, 1), Tcp(80, 4, 4), Tcp(443, 1, 1), Tcp(443, 2, 3), Tcp(443, 7, 5),
     Tcp(53, 5, 1), Tcp(53, 0, 5),
     [Tcp(80, 1, 4) EXCEPT !.protocol = "UDP"],
     [Tcp(53, 1, 2) EXCEPT !.fragmented = TRUE],
     [Tcp(53, 1, 9) EXCEPT !.fragmented = TRUE, !.fragment_offset = 1],
     [Tcp(80, 1, 9) EXCEPT !.packet_direction = "OUTGOING", !.dst_ip = "other"],
     Tcp(0, 1, 9)}

MCAttacks ==
    [attack_direction : {"INCOMING"}, attack_protocol : {"TCP", "GRE"}]
        \cup {[attack_direction |-> "OUTGOING", attack_protocol |-> "TCP"]}

\* The three actions, with route targets on both sides of 2^16.
MCFlowSpecActions ==
    {[type |-> "FLOW_SPEC_ACTION_DISCARD", redirect_ipv4 |-> <<0, 0, 0, 0>>,
      redirect_rt_as |-> 0, redirect_rt_value |-> 0],
     [type |-> "FLOW_SPEC_ACTION_REDIRECT", redirect_ipv4 |-> <<10, 0, 0, 9>>,
      redirect_rt_as |-> 0, redirect_rt_value |-> 0],
     [type |-> "FLOW_SPEC_ACTION_REDIRECT", redirect_ipv4 |-> <<0, 0, 0, 0>>,
      redirect_rt_as |-> 0, redirect_rt_value |-> 0]}
    \cup [type : {"FLOW_SPEC_ACTION_REDIRECT_VRF"}, redirect_ipv4 : {<<0, 0, 0, 0>>},
          redirect_rt_as : {65535, 65536}, redirect_rt_value : {65535, 65536}]

-----------------------------------------------------------------------------
(* Rules for the codec: every component, prefixes of every kind of length,  *)
(* lists of one value and of MaxValues, all fragment types, several flags.  *)

Net(length) == [subnet_address |-> <<203, 0, 113, 255>>, cidr_prefix_length |-> length]

MCRules ==
    LET prefixed == {[EmptyRule EXCEPT !.destination_subnet_ipv4 = d, !.source_subnet_ipv4 = s] :
                        d \in {<< >>, <<Net(32)>>, <<Net(23)>>}, s \in {<< >>, <<Net(0)>>, <<Net(9)>>}}
        full(rule, action) ==
            [rule EXCEPT !.protocols = <<17, 1, 255>>, !.destination_ports = <<0, 53, 65535>>,
                         !.source_ports = <<258>>, !.tcp_flags = <<{"syn"}, {"syn", "ack"}, TcpFlags>>,
                         !.packet_lengths = <<1500, 40>>, !.action = action,
                         !.fragmentation_flags = <<"FLOW_SPEC_NOT_A_FRAGMENT", "FLOW_SPEC_FIRST_FRAGMENT",
                                                   "FLOW_SPEC_LAST_FRAGMENT">>]
        one(rule) ==
            [rule EXCEPT !.protocols = <<6>>, !.tcp_flags = <<{"fin", "urg"}>>,
                         !.fragmentation_flags = <<"FLOW_SPEC_IS_A_FRAGMENT", "FLOW_SPEC_DONT_FRAGMENT">>]
        actions == {Accept, [Accept EXCEPT !.type = "FLOW_SPEC_ACTION_DISCARD"],
                    [Accept EXCEPT !.type = "FLOW_SPEC_ACTION_RATE_LIMIT"],
                    [Accept EXCEPT !.type = "FLOW_SPEC_ACTION_RATE_LIMIT", !.rate_limit = 1024],
                    [Accept EXCEPT !.type = "FLOW_SPEC_ACTION_REDIRECT", !.redirect_as = 65535,
                                   !.redirect_value = 7],
                    [Accept EXCEPT !.type = "FLOW_SPEC_ACTION_REDIRECT_VRF", !.redirect_rt_as = 65536]}
    IN  prefixed \cup {one(rule) : rule \in prefixed}
        \cup {full(rule, action) : rule \in {r \in prefixed : r.source_subnet_ipv4 # << >>}, action \in actions}
        \cup {[EmptyRule EXCEPT !.protocols = <<1, 2, 3, 4>>], [EmptyRule EXCEPT !.tcp_flags = <<{}>>]}

\* Octets no encoder of ours gives: a second prefix, a long prefix, common
\* ports, an unknown type, comparisons, an AND, four byte values, two byte
\* flags and protocols, an empty flagset, a list without an end.
MCForeign ==
    LET value(operator) == <<3, operator, 6, 0, 0, 0, 129, 17>>
        bodies == {<<1, 8, 10, 1, 8, 11>>, <<2, 33, 1, 2, 3, 4, 5>>, <<4, 129, 80>>, <<13, 129, 0>>,
                   <<3, 145, 0, 6, 9, 145, 0, 2>>, <<3, 145, 1, 0>>, <<12, 145, 0, 1>>,
                   <<9, 0, 0, 128, 64, 10, 129, 40>>, <<12, 128, 15>>,
                   <<5, 17, 0, 1, 17, 0, 2, 17, 0, 3, 17, 0, 4>>}
                  \cup {value(operator) : operator \in {2, 4, 65, 33, 49, 129}}
    IN  {<<Len(body)>> \o body : body \in bodies}

-----------------------------------------------------------------------------
(* The whitelist *)

V4(octets, length) == [version |-> 4, octets |-> octets, length |-> length]
Host6(last) == [i \in 1 .. 16 |-> CASE i = 1 -> 32 [] i = 2 -> 1 [] i = 16 -> last [] OTHER -> 0]
V6(length) == [version |-> 6, octets |-> Host6(8), length |-> length]
MCSeenAddress == <<10, 0, 1, 7>>

MCLines ==
    {[source_prefix |-> V4(<<10, 0, 0, 0>>, 15), protocols |-> <<get_ip_protocol_name(6)>>,
      tcp_flags |-> <<{"syn"}, {"syn", "ack"}>>],
     [destination_prefix |-> V4(MCSeenAddress, 32), source_ports |-> <<53, 123>>, vlans |-> <<65537>>],
     [destination_prefix |-> V4(<<10, 0, 1, 6>>, 31), tcp_flags |-> <<{"push", "urgent"}>>],
     [source_prefix |-> V6(128), packet_lengths |-> <<100, 1500>>],
     [destination_prefix |-> V6(64)],
     [fragmentation_flags |-> <<"is-fragment", "first-fragment">>, destination_ports |-> <<0>>,
      vlans |-> <<1>>],
     [fragmentation_flags |-> <<"dont-fragment", "not-a-fragment">>],
     [ttls |-> <<64>>, input_interfaces |-> <<7>>, protocols |-> <<get_ip_protocol_name(17)>>],
     [source_asns |-> <<65000>>, packet_lengths |-> <<1501>>],
     [source_ports |-> Malformed]}

Packet(tcp, port, length) ==
    [source_port |-> port, destination_port |-> 0, protocol |-> IF tcp THEN 6 ELSE 17,
     src_ip |-> MCSeenAddress, dst_ip |-> MCSeenAddress, src_ipv6 |-> Host6(8),
     dst_ipv6 |-> Host6(9), ip_dont_fragment |-> FALSE, ip_fragmented |-> FALSE,
     ip_more_fragments |-> FALSE, ip_fragment_offset |-> 0, flags |-> {}, length |-> length,
     ip_length |-> 86, vlan |-> 0, ttl |-> 64, src_asn |-> 0, dst_asn |-> 0,
     input_interface |-> 8, output_interface |-> 0, agent_ipv4_address |-> <<0, 0, 0, 0>>]

MCSeen ==
    {[Packet(TRUE, 80, 100) EXCEPT !.flags = f] :
        f \in {{"syn"}, {"syn", "ack", "ece"}, {"psh", "urg"}, {"cwr"}, {"syn", "ack", "fin"}}}
    \cup {[Packet(FALSE, 53, 1500) EXCEPT !.vlan = v, !.ip_fragmented = g, !.ip_more_fragments = g] :
            v \in {0, 1}, g \in BOOLEAN}
    \cup {[Packet(FALSE, 53, 65636) EXCEPT !.ip_dont_fragment = TRUE],
          [Packet(TRUE, 80, 86) EXCEPT !.src_ip = <<10, 2, 0, 0>>, !.flags = {"syn"}],
          [Packet(TRUE, 80, 86) EXCEPT !.src_ip = <<10, 1, 255, 255>>, !.dst_ip = <<10, 0, 1, 8>>,
                                       !.flags = {"syn"}]}
=============================================================================
