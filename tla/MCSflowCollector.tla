-------------------------- MODULE MCSflowCollector --------------------------
EXTENDS SflowCollector

MCPortBase == 8

\* Frames.  The octets after the IP header of a later fragment are payload
\* that would read as port 7.
Packet(protocol, more, offset) ==
    [vlans |-> << >>, ethertype |-> "IPv4", src |-> "a", dst |-> "b", protocol |-> protocol,
     ihl |-> 5, dont_fragment |-> FALSE, more_fragments |-> more, fragment_offset |-> offset,
     ip_length |-> 60,
     transport |-> [source_port |-> IF offset = 0 THEN 53 ELSE 7, destination_port |-> 80,
                    flags |-> {"syn"}, icmp |-> <<8, 0>>]]

Whole     == {Packet(p, FALSE, 0) : p \in {"TCP", "UDP", "ICMP", "GRE"}}
Fragments == {Packet("UDP", TRUE, 0), Packet("UDP", FALSE, 1480), Packet("TCP", TRUE, 8)}
Options   == [Packet("TCP", FALSE, 0) EXCEPT !.ihl = 8]
Tagged(n) == [Packet("TCP", FALSE, 0) EXCEPT !.vlans = [i \in 1 .. n |-> i + 4]]
V6(p)     == [Packet(p, p = "IPV6_FRAG", 0) EXCEPT !.ethertype = "IPv6", !.src = "a6", !.dst = "b6"]
OfType(e) == [Packet("TCP", FALSE, 0) EXCEPT !.ethertype = e]

EthernetFrames ==
    Whole \cup Fragments \cup {Options} \cup {Tagged(n) : n \in {1, 3, 4}}
    \cup {V6(p) : p \in {"TCP", "IPV6_ICMP", "IPV6_FRAG", "ESP"}}
    \cup {OfType(e) : e \in {"ARP", "MPLS", "LLDP"}}

\* Records, with the size of the head that the agent kept.
Raw(protocol, frame, kept) ==
    [type |-> "raw", header_protocol |-> protocol, frame |-> frame, frame_length |-> 74, header_size |-> kept,
     length |-> 16 + kept]

EthernetRaw == {Raw("ETHERNET", f, kept) : f \in EthernetFrames, kept \in {12, 30, 40, 44, 52, 128}}
IPv4Raw     == {Raw("IPv4", f, kept) : f \in Whole \cup Fragments \cup {Options}, kept \in {16, 24, 128}}
Udp         == Raw("ETHERNET", Packet("UDP", FALSE, 0), 128)
TooShort    == [Udp EXCEPT !.length = 12]
Overlong    == [Udp EXCEPT !.header_size = 256]
OtherRaw    == {Raw(p, Packet("UDP", FALSE, 0), 128) : p \in {"IPv6", "MPLS"}} \cup {TooShort, Overlong}

Gateway(nexthop, length) ==
    [type |-> "gateway", nexthop |-> nexthop, router_asn |-> 65001, source_asn |-> 65002, length |-> length]
Extended == {Gateway("IPv4", 40), Gateway("IPv6", 52)}
            \cup {[type |-> t, length |-> 16] : t \in {"router", "switch", "unknown"}}
Cut      == {Gateway("IPv4", 16), Gateway("IPv4", 0)}

RecordLists ==
    {<<r>> : r \in EthernetRaw \cup IPv4Raw \cup OtherRaw}
    \cup {<<e, Udp>> : e \in Extended \cup Cut} \cup {<<Udp, e>> : e \in Extended \cup Cut}
    \cup {<<Gateway("IPv4", 40), [Gateway("IPv4", 40) EXCEPT !.router_asn = 65003], Udp, Gateway("IPv6", 52)>>}
    \cup {<<Udp, TooShort>>, <<Gateway("IPv4", 40)>>, <<Udp, Raw("ETHERNET", Packet("ICMP", FALSE, 0), 128)>>}

\* Samples.  A compact header packs the type of a port above its index; the
\* agent_ fields are what the agent meant.
Flow(format, list, output, discarded) ==
    [enterprise |-> 0, format |-> format, count |-> Len(list), records |-> list,
     length |-> BlockEnd(SampleHeader[format], list, Len(list)), sampling_rate |-> 512,
     input |-> EncodedPort(format, 0, 3),
     output |-> EncodedPort(format, IF discarded THEN SFLOW_PORT_FORMAT_PACKET_DISCARDED ELSE 0, output),
     agent_input |-> 3, agent_output |-> output, agent_discarded |-> discarded]

FlowSamples == {Flow(FLOW_SAMPLE, l, 5, FALSE) : l \in RecordLists}
               \cup {Flow(EXPANDED_FLOW_SAMPLE, <<Udp>>, 5, TRUE), Flow(FLOW_SAMPLE, <<Udp>>, 0, TRUE)}
Plain       == Flow(EXPANDED_FLOW_SAMPLE, <<Raw("ETHERNET", Packet("ICMP", FALSE, 0), 128)>>, 2, FALSE)
BadFlows    == {[Plain EXCEPT !.count = 0], [Plain EXCEPT !.count = 5], [Plain EXCEPT !.length = 20],
                [Plain EXCEPT !.length = @ - 4], [Plain EXCEPT !.length = @ + 4]}

CounterSample(list, length) ==
    [enterprise |-> 0, format |-> COUNTER_SAMPLE, count |-> Len(list), records |-> list, length |-> length]
Generic  == [type |-> "generic", enterprise |-> 0, length |-> 88]
Ethernet == [type |-> "ethernet", enterprise |-> 0, length |-> 52]
CounterSamples == {CounterSample(<<Generic, Ethernet>>, 168), CounterSample(<<Generic>>, 112),
                   CounterSample(<<Generic>>, 8), [CounterSample(<<Generic, Generic>>, 204) EXCEPT !.count = 2]}
Skipped == {[Plain EXCEPT !.enterprise = 1], [Plain EXCEPT !.format = 9, !.records = << >>],
            [CounterSample(<<Generic>>, 112) EXCEPT !.format = EXPANDED_COUNTER_SAMPLE]}

\* Datagrams: a sample followed by a plain one, and the broken ones.
Datagram(list, agent, more) ==
    [version |-> 5, agent |-> agent, samples |-> list, count |-> Len(list),
     received |-> BlockEnd(PacketHeader[agent], list, Len(list)) + more]

Two == <<Plain, Plain>>
MCDatagrams ==
    {Datagram(<<s, Plain>>, "v4", 0) : s \in FlowSamples \cup BadFlows \cup CounterSamples \cup Skipped}
    \cup {Datagram(Two, "v6", more) : more \in {-200, -4, 0, 20}}
    \cup {[Datagram(Two, "v4", 0) EXCEPT !.count = 0], [Datagram(Two, "v4", 0) EXCEPT !.count = 3],
          [Datagram(Two, "v4", 0) EXCEPT !.version = 4], [Datagram(Two, "v4", 0) EXCEPT !.agent = "v5"],
          [Datagram(Two, "v6", 0) EXCEPT !.received = 30], [Datagram(Two, "v4", 0) EXCEPT !.received = 20]}
=============================================================================
