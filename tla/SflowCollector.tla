--------------------------- MODULE SflowCollector ---------------------------
(***************************************************************************)
(* The sFlow v5 collector (src/src/sflow_plugin/sflow_collector.cpp) and   *)
(* the reader it uses (src/src/libsflow).  A thread reads datagrams, splits *)
(* each into samples, a flow sample into records, and hands one            *)
(* simple_packet_t per flow sample to process_packet.  The threads of the  *)
(* other ports share only the counters with it; this is one of them.       *)
(*                                                                         *)
(* A datagram is its header, the samples its agent wrote and the number of *)
(* octets received; a sample has a length of its own, which need not be    *)
(* that of its records.  One step is one datagram's header, one sample's   *)
(* header or one record.                                                   *)
(***************************************************************************)
EXTENDS PacketParser

CONSTANTS
    Datagrams,       \* the datagrams agents send
    NoSample,
    MaxSamples,      \* max_sflow_sample_number
    MaxRecords,      \* max_number_of_flow_records, max_number_of_counter_records
    PortBase,        \* 2^30 in the code: a port is 2 bits of type, 30 of index
    MaxDatagrams     \* bound: datagrams received in a behaviour

VARIABLES
    samples,         \* what is left of samples_vector
    current,         \* the flow sample being read
    records,         \* what is left of its vector_tuple
    packet,          \* the simple_packet_t of process_sflow_flow_sample
    stats,           \* the collector's counters
    handed,          \* history: packets handed to process_packet
    uncounted,       \* history: samples given up that no counter counts
    last             \* history: the last packet handed over, and its sample

sflowVars == <<samples, current, records, packet, stats, handed, uncounted, last>>

Counters ==
    {"raw_udp_packets_received", "udp_receive_eagain", "udp_receive_errors", "sflow_total_packets", "sflow_bad_packets",
     "sflow_with_padding_at_the_end_of_packet", "sflow_flow_samples", "sflow_bad_flow_samples",
     "sflow_padding_flow_sample", "sflow_raw_packet_headers_total", "sflow_invalid_raw_packet_header",
     "sflow_parse_error_nested_header", "sflow_ipv4_header_protocol", "sflow_ipv6_header_protocol",
     "sflow_unknown_header_protocol", "sflow_packets_discarded", "sflow_extended_router_data_records",
     "sflow_extended_switch_data_records", "sflow_extended_gateway_data_records", "sflow_counter_sample",
     "sflow_expanded_counter_sample", "sflow_generic_interface_counter_sample"}

Counting(names) == [c \in Counters |-> stats[c] + IF c \in names THEN 1 ELSE 0]
If(condition, name) == IF condition THEN {name} ELSE {}

-----------------------------------------------------------------------------
(* Layout: libsflow.cpp *)

FLOW_SAMPLE             == 1
COUNTER_SAMPLE          == 2
EXPANDED_FLOW_SAMPLE    == 3
EXPANDED_COUNTER_SAMPLE == 4

BlockHeader        == 8     \* type and length before a sample or a record
RawProtocolHeader  == 16    \* sflow_raw_protocol_header_t
GatewayInformation == 20    \* sflow_extended_gateway_information_t
GenericCounters    == 88    \* generic_sflow_interface_counters_t

\* sizeof of the datagram header, by the family of the agent's address.
PacketHeader == [v4 |-> 28, v6 |-> 40]

\* sizeof of the header of each sample format.
SampleHeader == <<32, 12, 44, 16>>

\* Where block number i ends when the first one starts at start.
BlockEnd(start, blocks, i) ==
    start + MapThenSumSet(LAMBDA j : BlockHeader + blocks[j].length, 1 .. i)

\* The loop of get_all_samples and get_records: each header, then each
\* block, has to end inside the limit.  (Nothing follows the blocks of an
\* agent that announces more of them than it wrote.)
BlocksInside(start, blocks, count, limit) ==
    /\ count <= Len(blocks)
    /\ \A i \in 1 .. count : BlockEnd(start, blocks, i - 1) + BlockHeader <= limit
                             /\ BlockEnd(start, blocks, i) <= limit

read_sflow_header(d) ==
    /\ d.received >= PacketHeader.v4
    /\ d.version = 5
    /\ d.agent \in DOMAIN PacketHeader
    /\ d.received >= PacketHeader[d.agent]

get_all_samples(d) == BlocksInside(PacketHeader[d.agent], d.samples, d.count, d.received)

read_sflow_sample_header_unified(s) == s.length >= SampleHeader[s.format]

get_records(s) == BlocksInside(SampleHeader[s.format], s.records, s.count, s.length)

RecordsEnd(s) == BlockEnd(SampleHeader[s.format], s.records, s.count)

\* A counter record needs at least one octet, and the last one has to end
\* where the sample does.
get_all_counter_records(s) ==
    /\ get_records(s)
    /\ \A i \in 1 .. s.count : BlockEnd(SampleHeader[s.format], s.records, i - 1) + BlockHeader < s.length
    /\ RecordsEnd(s) = s.length

\* split_32bit_integer_by_2_and_30_bits, for the compact header only.
split_32bit_integer_by_2_and_30_bits(port) == [type |-> port \div PortBase, index |-> port % PortBase]

\* sflow_sample_header_unified_accessor_t: a port of either header.
Port(s, port) == IF s.format = FLOW_SAMPLE THEN split_32bit_integer_by_2_and_30_bits(port) ELSE port

SFLOW_PORT_FORMAT_PACKET_DISCARDED == 1

-----------------------------------------------------------------------------
(* What agents write.  The agent_ fields of a flow sample, which are not on *)
(* the wire, are the ports the agent means and whether the packet was      *)
(* discarded.                                                              *)

PortTypes == 0 .. 3

\* A port as the two headers carry it.
EncodedPort(format, type, index) ==
    IF format = FLOW_SAMPLE THEN type * PortBase + index ELSE [type |-> type, index |-> index]

\* The header of a flow sample carries the ports its agent means.
PortsWritten(s) ==
    /\ {s.agent_input, s.agent_output} \subseteq Nat
    /\ s.format = FLOW_SAMPLE => s.agent_input < PortBase /\ s.agent_output < PortBase
    /\ \E type \in PortTypes : s.input = EncodedPort(s.format, type, s.agent_input)
    /\ \E type \in PortTypes : /\ s.output = EncodedPort(s.format, type, s.agent_output)
                               /\ s.agent_discarded <=> type = SFLOW_PORT_FORMAT_PACKET_DISCARDED

\* An IPv6 packet without a fragment header is no fragment.
FrameWritten(frame) ==
    frame.ethertype = "IPv6" /\ frame.protocol # "IPV6_FRAG" => frame.fragment_offset = 0

FlowSampleWritten(s) ==
    s.enterprise = 0 /\ s.format \in {FLOW_SAMPLE, EXPANDED_FLOW_SAMPLE} =>
      /\ PortsWritten(s)
      /\ Len(s.records) \in Nat
      /\ \A i \in 1 .. Len(s.records) : s.records[i].type = "raw" => FrameWritten(s.records[i].frame)

ASSUME LimitsAssumption == PortBase \in Nat \ {0} /\ MaxRecords \in Nat

ASSUME DatagramsAssumption ==
    \A d \in Datagrams : /\ d.count \in Nat
                         /\ Len(d.samples) \in Nat
                         /\ \A i \in 1 .. Len(d.samples) : FlowSampleWritten(d.samples[i])

-----------------------------------------------------------------------------
(* parse_sflow_v5_packet *)

SflowInit ==
    /\ samples = << >>
    /\ current = NoSample
    /\ records = << >>
    /\ packet = simple_packet_t
    /\ stats = [c \in Counters |-> 0]
    /\ handed = 0
    /\ uncounted = 0
    /\ last = [sample |-> NoSample, packet |-> simple_packet_t]

Waiting == samples = << >> /\ current = NoSample

\* recvfrom gives up: after a second without a datagram, or with an error.
receive_nothing ==
    /\ Waiting
    /\ \E failure \in {"udp_receive_eagain", "udp_receive_errors"} :
          /\ stats[failure] = 0
          /\ stats' = Counting({failure})
    /\ UNCHANGED <<samples, current, records, packet, handed, uncounted, last>>

\* A datagram whose samples are not all inside it is refused as a whole.
Acceptable(d) ==
    /\ read_sflow_header(d)
    /\ d.count > 0
    /\ d.count <= MaxSamples
    /\ get_all_samples(d)

parse_sflow_v5_packet(d) ==
    /\ Waiting
    /\ stats.raw_udp_packets_received < MaxDatagrams
    /\ samples' = IF Acceptable(d) THEN SubSeq(d.samples, 1, d.count) ELSE << >>
    /\ stats' = Counting(
          {"raw_udp_packets_received", "sflow_total_packets"} \cup
          (IF Acceptable(d)
           THEN If(BlockEnd(PacketHeader[d.agent], d.samples, d.count) # d.received,
                   "sflow_with_padding_at_the_end_of_packet")
           ELSE {"sflow_bad_packets"}))
    /\ UNCHANGED <<current, records, packet, handed, uncounted, last>>

\* The samples that are not read: those of a vendor, of an unknown format,
\* and the expanded counter samples, which are only counted.
skip_sample ==
    /\ current = NoSample
    /\ samples # << >>
    /\ LET s == Head(samples)
       IN  /\ s.enterprise # 0 \/ s.format \notin FLOW_SAMPLE .. EXPANDED_FLOW_SAMPLE
           /\ stats' = Counting(If(s.enterprise = 0 /\ s.format = EXPANDED_COUNTER_SAMPLE,
                                   "sflow_expanded_counter_sample"))
    /\ samples' = Tail(samples)
    /\ UNCHANGED <<current, records, packet, handed, uncounted, last>>

\* What makes get_all_counter_records' result worth a look: the records
\* with the size of generic interface counters are counted.
process_sflow_counter_sample ==
    /\ current = NoSample
    /\ samples # << >>
    /\ LET s == Head(samples)
           readable == /\ s.length >= SampleHeader[s.format]
                       /\ s.count \in 1 .. MaxRecords
                       /\ get_all_counter_records(s)
           generic(r) == r.enterprise = 0 /\ r.type = "generic" /\ r.length = GenericCounters
           counted == IF readable THEN Cardinality({i \in 1 .. s.count : generic(s.records[i])}) ELSE 0
       IN  /\ s.enterprise = 0
           /\ s.format = COUNTER_SAMPLE
           /\ stats' = [Counting({"sflow_counter_sample"})
                         EXCEPT !.sflow_generic_interface_counter_sample = @ + counted]
    /\ samples' = Tail(samples)
    /\ UNCHANGED <<current, records, packet, handed, uncounted, last>>

-----------------------------------------------------------------------------
(* process_sflow_flow_sample *)

\* Up to the records: a flow sample is refused, or its records are read
\* into a packet that starts empty.
FlowSampleReadable(s) ==
    /\ read_sflow_sample_header_unified(s)
    /\ s.count \in 1 .. MaxRecords
    /\ get_records(s)

start_flow_sample ==
    /\ current = NoSample
    /\ samples # << >>
    /\ LET s == Head(samples)
       IN  /\ s.enterprise = 0
           /\ s.format \in {FLOW_SAMPLE, EXPANDED_FLOW_SAMPLE}
           /\ IF FlowSampleReadable(s)
              THEN /\ current' = s
                   /\ records' = SubSeq(s.records, 1, s.count)
                   /\ stats' = Counting(If(RecordsEnd(s) # s.length, "sflow_padding_flow_sample"))
              ELSE /\ stats' = Counting({"sflow_bad_flow_samples", "sflow_flow_samples"})
                   /\ UNCHANGED <<current, records>>
    /\ samples' = Tail(samples)
    /\ packet' = simple_packet_t
    /\ UNCHANGED <<handed, uncounted, last>>

Reading(type) == /\ current # NoSample
                 /\ records # << >>
                 /\ Head(records).type = type

\* A plausible bug: the problem is counted, and the loop goes on.
KeepReading(counters) ==
    /\ stats' = Counting(counters)
    /\ records' = Tail(records)
    /\ UNCHANGED <<samples, current, packet, handed, last>>

\* return false: the rest of the sample is not read.
GiveUp(counters) ==
    /\ stats' = Counting(counters \cup {"sflow_flow_samples"})
    /\ current' = NoSample
    /\ records' = << >>
    /\ UNCHANGED <<samples, packet, handed, last>>

Continue(filled, counters) ==
    /\ packet' = filled
    /\ stats' = Counting(counters)
    /\ records' = Tail(records)
    /\ UNCHANGED <<samples, current, handed, uncounted, last>>

\* What the collector itself sets after a parser succeeded.
Sampled(parsed) ==
    LET output == Port(current, current.output)
    IN  [parsed EXCEPT !.sample_ratio      = current.sampling_rate,
                       !.input_interface   = Port(current, current.input).index,
                       !.output_interface  = output.index,
                       !.forwarding_status = IF output.type = SFLOW_PORT_FORMAT_PACKET_DISCARDED
                                             THEN "dropped" ELSE @]

\* The parser for a header protocol.
Nested(r) ==
    IF r.header_protocol = "ETHERNET"
    THEN parse_raw_packet_to_simple_packet_full(r.frame, r.frame_length, r.header_size, packet)
    ELSE parse_raw_ipv4_packet_to_simple_packet_full(r.frame, r.frame_length, r.header_size, packet)

raw_packet_header ==
    /\ Reading("raw")
    /\ LET r     == Head(records)
           heads == {"sflow_raw_packet_headers_total"}
       IN  IF r.length < RawProtocolHeader \/ r.header_size > r.length - RawProtocolHeader
           THEN GiveUp(heads \cup {"sflow_invalid_raw_packet_header"}) /\ UNCHANGED uncounted
           ELSE IF r.header_protocol \notin {"ETHERNET", "IPv4"}
           THEN /\ GiveUp(heads \cup {IF r.header_protocol = "IPv6" THEN "sflow_ipv6_header_protocol"
                                                                   ELSE "sflow_unknown_header_protocol"})
                /\ UNCHANGED uncounted
           ELSE LET seen == heads \cup If(r.header_protocol = "IPv4", "sflow_ipv4_header_protocol")
                IN  IF Nested(r).code # "success"
                    THEN GiveUp(seen \cup {"sflow_parse_error_nested_header"}) /\ UNCHANGED uncounted
                    ELSE Continue(Sampled(Nested(r).packet),
                                  seen \cup If(Port(current, current.output).type =
                                                  SFLOW_PORT_FORMAT_PACKET_DISCARDED,
                                               "sflow_packets_discarded"))

\* Only a gateway record with an IPv4 next hop is read; one that is too
\* short makes the whole sample fail without a counter.
extended_gateway ==
    /\ Reading("gateway")
    /\ LET r     == Head(records)
           heads == {"sflow_extended_gateway_data_records"}
       IN  IF r.length < 4 \/ (r.nexthop = "IPv4" /\ r.length < GatewayInformation)
           THEN GiveUp(heads) /\ uncounted' = uncounted + 1
           ELSE Continue(IF r.nexthop = "IPv4"
                         THEN [packet EXCEPT !.src_asn = r.router_asn, !.dst_asn = r.source_asn]
                         ELSE packet, heads)

other_record ==
    \/ Reading("router") /\ Continue(packet, {"sflow_extended_router_data_records"})
    \/ Reading("switch") /\ Continue(packet, {"sflow_extended_switch_data_records"})
    \/ Reading("unknown") /\ Continue(packet, {})

\* sflow_process_func_ptr(packet).
hand_over ==
    /\ current # NoSample
    /\ records = << >>
    /\ handed' = handed + 1
    /\ last' = [sample |-> current, packet |-> packet]
    /\ stats' = Counting({"sflow_flow_samples"})
    /\ current' = NoSample
    /\ UNCHANGED <<samples, records, packet, uncounted>>

SflowNext ==
    \/ receive_nothing
    \/ \E d \in Datagrams : parse_sflow_v5_packet(d)
    \/ skip_sample
    \/ process_sflow_counter_sample
    \/ start_flow_sample
    \/ raw_packet_header
    \/ extended_gateway
    \/ other_record
    \/ hand_over

SflowSpec == SflowInit /\ [][SflowNext]_sflowVars

-----------------------------------------------------------------------------
(* Properties *)

\* The samples counted under a reason for which process_sflow_flow_sample gave them up.
GivenUp ==
    stats.sflow_bad_flow_samples + stats.sflow_invalid_raw_packet_header
      + stats.sflow_parse_error_nested_header + stats.sflow_ipv6_header_protocol
      + stats.sflow_unknown_header_protocol

(* Every flow sample of an accepted datagram either reaches process_packet *)
(* once or is counted under exactly one of the reasons for giving it up,   *)
(* whatever record fails and however many were read before it; only the    *)
(* samples lost to a short gateway record have no counter.  An operator    *)
(* who subtracts the error counters from sflow_flow_samples gets the       *)
(* packets the detector has seen.                                          *)
SamplesAccounted == stats.sflow_flow_samples = handed + uncounted + GivenUp

\* What packet p says of raw record r of flow sample s: the addresses,
\* protocol and outer VLAN of the frame, the sampling rate and ports of the
\* sample header, and transport ports and flags only where the frame has them.
SaysFrame(p, s, r) ==
    LET f        == r.frame
        ethernet == r.header_protocol = "ETHERNET"
        ported   == f.protocol \in {"TCP", "UDP"} /\ f.fragment_offset = 0
    IN  /\ <<p.src, p.dst, p.protocol, p.ip_length>> = <<f.src, f.dst, f.protocol, f.ip_length>>
        /\ p.vlan = IF ethernet /\ f.vlans # << >> THEN Head(f.vlans) ELSE 0
        /\ p.sample_ratio = s.sampling_rate
        /\ <<p.input_interface, p.output_interface>> = <<s.agent_input, s.agent_output>>
        /\ p.forwarding_status = "dropped" <=> s.agent_discarded
        /\ ethernet \/ f.fragment_offset = 0 =>
             <<p.source_port, p.destination_port>> =
               IF ported THEN <<f.transport.source_port, f.transport.destination_port>> ELSE <<0, 0>>
        /\ p.flags \subseteq IF f.protocol = "TCP" THEN f.transport.flags ELSE {}

\* Its AS numbers are those of the last of the first k records that is a
\* gateway record with an IPv4 next hop.
SaysGateway(p, s, k) ==
    LET gateways == {i \in 1 .. k : s.records[i].type = "gateway" /\ s.records[i].nexthop = "IPv4"}
    IN  /\ gateways = {} => <<p.src_asn, p.dst_asn>> = <<0, 0>>
        /\ \A i \in gateways : (\A j \in gateways : j <= i) =>
             <<p.src_asn, p.dst_asn>> = <<s.records[i].router_asn, s.records[i].source_asn>>

(* A packet handed over says what its own sample said, and nothing of the  *)
(* samples read before it: of the frame and the sample header, in either   *)
(* encoding, what SaysFrame lists, and AS numbers from its gateway records *)
(* alone.  A later fragment has no transport ports.  Stated for samples    *)
(* with one raw header, and for fragments behind an Ethernet header.       *)
PacketsAreWhatWasSampled ==
    LET s   == last.sample
        p   == last.packet
        raw == {i \in 1 .. s.count : s.records[i].type = "raw"}
    IN  s # NoSample =>
          /\ Cardinality(raw) = 1 => \A i \in raw : SaysFrame(p, s, s.records[i])
          /\ SaysGateway(p, s, s.count)
=============================================================================
