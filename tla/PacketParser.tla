---------------------------- MODULE PacketParser ----------------------------
(***************************************************************************)
(* src/src/simple_packet_parser_ng.cpp: the parsers that turn the captured *)
(* head of a sampled packet into a simple_packet_t.  They write into a     *)
(* packet the caller owns and leave alone every field they do not reach.   *)
(* When a parser fails its caller drops the packet, so what it had written *)
(* by then is left out.                                                    *)
(*                                                                         *)
(* A frame is what the octets mean from the Ethernet header on; captured   *)
(* is how many of them the parser may read.  transport is what the octets  *)
(* after the IP header mean when read as a TCP, UDP or ICMP header: for a  *)
(* later fragment they are payload.  Addresses of both families share one  *)
(* field; TTL, MAC addresses, TCP numbers and payload pointers are left    *)
(* out.                                                                    *)
(***************************************************************************)
EXTENDS Integers, Sequences, FiniteSetsExt

CONSTANT
    read_packet_length_from_ip_header

MaximumVlans == 3    \* maximum_vlans_to_strip

\* sizeof the header classes of network_data_structures.hpp.
EthernetHeader == 14
VlanHeader     == 4
IPv4Header     == 20
IPv6Header     == 40
FragmentHeader == 8
TransportHeader ==
    [TCP |-> 20, UDP |-> 8, ICMP |-> 8, IPV6_ICMP |-> 8]
CroppedTcp     == 4

\* A simple_packet_t as its constructor leaves it.
simple_packet_t ==
    [sample_ratio |-> 1, input_interface |-> 0, output_interface |-> 0,
     forwarding_status |-> "unknown", src_asn |-> 0, dst_asn |-> 0, vlan |-> 0,
     ip_protocol_version |-> 4, src |-> "0", dst |-> "0", protocol |-> "HOPOPT",
     length |-> 0, ip_length |-> 0, ip_dont_fragment |-> FALSE, ip_fragmented |-> FALSE,
     ip_more_fragments |-> FALSE, ip_fragment_offset |-> 0,
     source_port |-> 0, destination_port |-> 0, flags |-> {}, icmp |-> <<0, 0>>]

Parsed(packet) == [code |-> "success", packet |-> packet]
Failed(code)   == [code |-> code, packet |-> simple_packet_t]

-----------------------------------------------------------------------------
(* The headers after IP *)

Ports(frame, packet) == [packet EXCEPT !.source_port = frame.transport.source_port,
                                       !.destination_port = frame.transport.destination_port]

\* What each transport header sets.
Transport(frame, packet) ==
    CASE frame.protocol = "TCP" -> [Ports(frame, packet) EXCEPT !.flags = frame.transport.flags]
      [] frame.protocol = "UDP" -> Ports(frame, packet)
      [] OTHER                  -> [packet EXCEPT !.icmp = frame.transport.icmp]

\* The branches on protocol at the end of a parser, which knows the
\* protocols of known.  crop: TCP ports are taken from a cut header.
ParseTransport(frame, at, captured, packet, known, crop) ==
    IF frame.protocol \notin known THEN Parsed(packet)
    ELSE IF at + TransportHeader[frame.protocol] <= captured THEN Parsed(Transport(frame, packet))
    ELSE IF crop /\ frame.protocol = "TCP" /\ at + CroppedTcp <= captured THEN Parsed(Ports(frame, packet))
    ELSE Failed("memory_violation")

-----------------------------------------------------------------------------
(* IP *)

is_fragmented(frame) == frame.more_fragments \/ frame.fragment_offset # 0

\* What both families set.
IpFields(frame, before, packet) ==
    [packet EXCEPT !.src = frame.src, !.dst = frame.dst, !.protocol = frame.protocol,
                   !.ip_length = frame.ip_length,
                   !.length = IF read_packet_length_from_ip_header THEN frame.ip_length ELSE before]

IPv4Fields(frame, before, packet) ==
    [IpFields(frame, before, packet) EXCEPT !.ip_protocol_version = 4,
                                            !.ip_dont_fragment = frame.dont_fragment,
                                            !.ip_fragmented = is_fragmented(frame)]

FragmentFields(frame, packet) ==
    [packet EXCEPT !.ip_more_fragments = frame.more_fragments, !.ip_fragment_offset = frame.fragment_offset]

\* A plausible bug: the transport header is looked for in every fragment.
EveryFragment(frame) == TRUE

\* Only the first fragment carries a transport header.
CarriesTransport(frame) == frame.fragment_offset = 0

\* The IPv4 branch of the Ethernet parser, at its IP header.
EthernetIPv4(frame, at, before, captured, packet) ==
    LET filled == FragmentFields(frame, IPv4Fields(frame, before, packet))
    IN  IF at + IPv4Header > captured THEN Failed("memory_violation")
        ELSE IF ~CarriesTransport(frame) THEN Parsed(filled)
        ELSE IF at + frame.ihl * 4 > captured THEN Failed("malformed_ip_header_length")
        ELSE ParseTransport(frame, at + frame.ihl * 4, captured, filled, DOMAIN TransportHeader, TRUE)

\* The IPv6 branch.  Of the extension headers only a fragment header is read.
EthernetIPv6(frame, at, before, captured, packet) ==
    LET filled == [IpFields(frame, before, packet) EXCEPT !.ip_protocol_version = 6]
    IN  IF at + IPv6Header > captured THEN Failed("memory_violation")
        ELSE IF frame.protocol = "IPV6_FRAG"
             THEN IF at + IPv6Header + FragmentHeader > captured THEN Failed("memory_violation")
                  ELSE Parsed([FragmentFields(frame, filled) EXCEPT !.ip_fragmented = TRUE])
        ELSE IF frame.protocol \in {"HOPOPT", "IPV6_ROUTE", "IPV6_OPTS", "AH", "ESP"}
             THEN Failed("no_ipv6_options_support")
        ELSE ParseTransport(frame, at + IPv6Header, captured, filled, DOMAIN TransportHeader, TRUE)

-----------------------------------------------------------------------------
(* The parsers *)

\* The Ethernet header and the loop over VLAN tags: the position after them,
\* or the code of the failure.
StripVlans(frame, captured) ==
    LET stripped == Min({Len(frame.vlans), MaximumVlans + 1})
        at       == EthernetHeader + stripped * VlanHeader
    IN  [at   |-> at,
         code |-> IF at > captured THEN "memory_violation"
                  ELSE IF stripped > MaximumVlans THEN "too_many_nested_vlans" ELSE "success"]

parse_raw_packet_to_simple_packet_full(frame, before, captured, packet) ==
    LET tags   == StripVlans(frame, captured)
        tagged == IF frame.vlans = << >> THEN packet ELSE [packet EXCEPT !.vlan = Head(frame.vlans)]
    IN  IF tags.code # "success" THEN Failed(tags.code)
        ELSE CASE frame.ethertype = "IPv4" -> EthernetIPv4(frame, tags.at, before, captured, tagged)
               [] frame.ethertype = "IPv6" -> EthernetIPv6(frame, tags.at, before, captured, tagged)
               [] frame.ethertype = "ARP"  -> Failed("arp")
               [] frame.ethertype = "MPLS" -> Failed("mpls")
               [] OTHER                    -> Failed("unknown_ethertype")

\* A capture that starts at the IPv4 header.  Unlike the branch above, it
\* reads a transport header in every fragment, sets neither the offset nor
\* the more fragments flag and takes nothing from a cut TCP header.
parse_raw_ipv4_packet_to_simple_packet_full(frame, before, captured, packet) ==
    IF captured < IPv4Header THEN Failed("memory_violation")
    ELSE IF captured < frame.ihl * 4 THEN Failed("malformed_ip_header_length")
    ELSE ParseTransport(frame, frame.ihl * 4, captured, IPv4Fields(frame, before, packet),
                        {"TCP", "UDP", "ICMP"}, FALSE)
=============================================================================
