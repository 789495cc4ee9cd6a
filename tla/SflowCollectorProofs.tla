------------------------ MODULE SflowCollectorProofs ------------------------
(***************************************************************************)
(* Theorems about SflowCollector, for any datagrams and any limits: every  *)
(* flow sample is accounted for, and every packet handed over says what    *)
(* its sample said.                                                        *)
(***************************************************************************)
EXTENDS SflowCollector, SequenceTheorems, FiniteSetTheorems, TLAPS

Reasons == {"sflow_bad_flow_samples", "sflow_invalid_raw_packet_header", "sflow_parse_error_nested_header",
            "sflow_ipv6_header_protocol", "sflow_unknown_header_protocol"}

\* The counters the property compares.
Compared == Reasons \cup {"sflow_flow_samples"}

CountersOK ==
    /\ DOMAIN stats = Counters
    /\ \A c \in Compared : stats[c] \in Nat
    /\ handed \in Nat
    /\ uncounted \in Nat

AccountInv == CountersOK /\ SamplesAccounted

-----------------------------------------------------------------------------
\* The counters the property compares exist.
LEMMA ComparedAreCounters == Compared \subseteq Counters
  BY DEF Compared, Reasons, Counters

\* What Counting does to the counters the property compares.
LEMMA CountingCompared ==
    ASSUME CountersOK, NEW names
    PROVE  /\ DOMAIN Counting(names) = Counters
           /\ \A c \in Compared : /\ Counting(names)[c] = stats[c] + (IF c \in names THEN 1 ELSE 0)
                                  /\ Counting(names)[c] \in Nat
  BY ComparedAreCounters DEF Counting, CountersOK

\* A step that counts none of them and hands nothing over.
LEMMA AsideKeeps ==
    ASSUME AccountInv, NEW names, names \cap Compared = {}, stats' = Counting(names),
           UNCHANGED <<handed, uncounted>>
    PROVE  AccountInv'
<1>1. DOMAIN stats' = Counters /\ \A c \in Compared : stats'[c] = stats[c] /\ stats'[c] \in Nat
  BY CountingCompared DEF AccountInv, CountersOK
<1> QED
  BY <1>1 DEF AccountInv, CountersOK, SamplesAccounted, GivenUp, Compared, Reasons

\* A sample is given up for one reason.
LEMMA ReasonKeeps ==
    ASSUME AccountInv, NEW names, NEW reason \in Reasons, names \cap Reasons = {reason},
           stats' = Counting(names \cup {"sflow_flow_samples"}), UNCHANGED <<handed, uncounted>>
    PROVE  AccountInv'
<1>1. /\ DOMAIN stats' = Counters
      /\ \A c \in Reasons : stats'[c] = (IF c = reason THEN stats[c] + 1 ELSE stats[c]) /\ stats'[c] \in Nat
      /\ stats'["sflow_flow_samples"] = stats["sflow_flow_samples"] + 1
      /\ stats'["sflow_flow_samples"] \in Nat
  <2>1. \A c \in Reasons : (c \in names \cup {"sflow_flow_samples"}) <=> c = reason
    BY DEF Reasons
  <2> QED
    BY <2>1, CountingCompared DEF AccountInv, CountersOK, Compared
<1>2. CountersOK'
  BY <1>1 DEF AccountInv, CountersOK, Compared
<1>3. /\ stats["sflow_flow_samples"] \in Nat /\ handed \in Nat /\ uncounted \in Nat
      /\ \A c \in Reasons : stats[c] \in Nat
  BY DEF AccountInv, CountersOK, Compared
<1>4. GivenUp' = GivenUp + 1 /\ GivenUp \in Nat
  <2>1. CASE reason = "sflow_bad_flow_samples"
    BY <1>1, <1>3, <2>1 DEF GivenUp, Reasons
  <2>2. CASE reason = "sflow_invalid_raw_packet_header"
    BY <1>1, <1>3, <2>2 DEF GivenUp, Reasons
  <2>3. CASE reason = "sflow_parse_error_nested_header"
    BY <1>1, <1>3, <2>3 DEF GivenUp, Reasons
  <2>4. CASE reason = "sflow_ipv6_header_protocol"
    BY <1>1, <1>3, <2>4 DEF GivenUp, Reasons
  <2>5. CASE reason = "sflow_unknown_header_protocol"
    BY <1>1, <1>3, <2>5 DEF GivenUp, Reasons
  <2> QED
    BY <2>1, <2>2, <2>3, <2>4, <2>5 DEF Reasons
<1>5. SamplesAccounted'
  BY <1>1, <1>3, <1>4 DEF AccountInv, SamplesAccounted
<1> QED
  BY <1>2, <1>5 DEF AccountInv

\* A sample that reaches process_packet, or is lost without a counter.
LEMMA OtherwiseKeeps ==
    ASSUME AccountInv, NEW names, names \cap Reasons = {},
           stats' = Counting(names \cup {"sflow_flow_samples"}),
           \/ handed' = handed + 1 /\ uncounted' = uncounted
           \/ handed' = handed /\ uncounted' = uncounted + 1
    PROVE  AccountInv'
<1>1. /\ DOMAIN stats' = Counters
      /\ \A c \in Reasons : stats'[c] = stats[c] /\ stats'[c] \in Nat
      /\ stats'["sflow_flow_samples"] = stats["sflow_flow_samples"] + 1
      /\ stats'["sflow_flow_samples"] \in Nat
  <2>1. \A c \in Reasons : c \notin names \cup {"sflow_flow_samples"}
    BY DEF Reasons
  <2> QED
    BY <2>1, CountingCompared DEF AccountInv, CountersOK, Compared
<1>2. CountersOK'
  <2>1. handed \in Nat /\ uncounted \in Nat
    BY DEF AccountInv, CountersOK
  <2>2. handed' \in Nat /\ uncounted' \in Nat
    BY <2>1
  <2> QED
    BY <1>1, <2>2 DEF CountersOK, Compared
<1>3. /\ stats["sflow_flow_samples"] \in Nat /\ handed \in Nat /\ uncounted \in Nat
      /\ \A c \in Reasons : stats[c] \in Nat
  BY DEF AccountInv, CountersOK, Compared
<1>4. GivenUp' = GivenUp /\ GivenUp \in Nat
  BY <1>1, <1>3 DEF GivenUp, Reasons
<1>5. SamplesAccounted'
  BY <1>1, <1>3, <1>4 DEF AccountInv, SamplesAccounted
<1> QED
  BY <1>2, <1>5 DEF AccountInv

-----------------------------------------------------------------------------
\* A raw packet header ends its sample under one reason, or fills the packet.
LEMMA RawPacketHeaderKeeps ==
    ASSUME AccountInv, raw_packet_header
    PROVE  AccountInv'
<1> DEFINE r == Head(records)
           heads == {"sflow_raw_packet_headers_total"}
           seen == heads \cup If(r.header_protocol = "IPv4", "sflow_ipv4_header_protocol")
           other == IF r.header_protocol = "IPv6" THEN "sflow_ipv6_header_protocol"
                    ELSE "sflow_unknown_header_protocol"
           discarded == If(Port(current, current.output).type = SFLOW_PORT_FORMAT_PACKET_DISCARDED,
                           "sflow_packets_discarded")
<1>1. \/ GiveUp(heads \cup {"sflow_invalid_raw_packet_header"}) /\ UNCHANGED uncounted
      \/ GiveUp(heads \cup {other}) /\ UNCHANGED uncounted
      \/ GiveUp(seen \cup {"sflow_parse_error_nested_header"}) /\ UNCHANGED uncounted
      \/ Continue(Sampled(Nested(r).packet), seen \cup discarded)
  BY DEF raw_packet_header
<1>2. heads \cap Compared = {} /\ seen \cap Compared = {} /\ discarded \cap Compared = {}
  BY DEF If, Compared, Reasons
<1>3. other \in {"sflow_ipv6_header_protocol", "sflow_unknown_header_protocol"}
  OBVIOUS
<1> HIDE DEF heads, seen, other, discarded
<1>4. CASE GiveUp(heads \cup {"sflow_invalid_raw_packet_header"}) /\ UNCHANGED uncounted
  <2>1. (heads \cup {"sflow_invalid_raw_packet_header"}) \cap Reasons = {"sflow_invalid_raw_packet_header"}
    BY <1>2 DEF Compared, Reasons
  <2> QED
    BY <1>4, <2>1, ReasonKeeps DEF GiveUp, Reasons
<1>5. CASE GiveUp(heads \cup {other}) /\ UNCHANGED uncounted
  <2>1. (heads \cup {other}) \cap Reasons = {other} /\ other \in Reasons
    BY <1>2, <1>3 DEF Compared, Reasons
  <2> QED
    BY <1>5, <2>1, ReasonKeeps DEF GiveUp
<1>6. CASE GiveUp(seen \cup {"sflow_parse_error_nested_header"}) /\ UNCHANGED uncounted
  <2>1. (seen \cup {"sflow_parse_error_nested_header"}) \cap Reasons = {"sflow_parse_error_nested_header"}
    BY <1>2 DEF Compared, Reasons
  <2> QED
    BY <1>6, <2>1, ReasonKeeps DEF GiveUp, Reasons
<1>7. CASE Continue(Sampled(Nested(r).packet), seen \cup discarded)
  <2>1. (seen \cup discarded) \cap Compared = {}
    BY <1>2
  <2> QED
    BY <1>7, <2>1, AsideKeeps DEF Continue
<1> QED
  BY <1>1, <1>4, <1>5, <1>6, <1>7

\* A gateway record ends its sample without a counter, or fills the packet.
LEMMA ExtendedGatewayKeeps ==
    ASSUME AccountInv, extended_gateway
    PROVE  AccountInv'
<1> DEFINE heads == {"sflow_extended_gateway_data_records"}
<1>1. heads \cap Compared = {} /\ heads \cap Reasons = {}
  BY DEF Compared, Reasons
<1>2. \/ GiveUp(heads) /\ uncounted' = uncounted + 1
      \/ \E filled : Continue(filled, heads)
  BY DEF extended_gateway
<1> HIDE DEF heads
<1>3. CASE GiveUp(heads) /\ uncounted' = uncounted + 1
  BY <1>1, <1>3, OtherwiseKeeps DEF GiveUp
<1>4. CASE \E filled : Continue(filled, heads)
  BY <1>1, <1>4, AsideKeeps DEF Continue
<1> QED
  BY <1>2, <1>3, <1>4

\* A flow sample is refused and counted, or begun.
LEMMA StartFlowSampleKeeps ==
    ASSUME AccountInv, start_flow_sample
    PROVE  AccountInv'
<1> DEFINE s == Head(samples)
<1>1. CASE FlowSampleReadable(s)
  <2> DEFINE names == If(RecordsEnd(s) # s.length, "sflow_padding_flow_sample")
  <2>1. stats' = Counting(names) /\ UNCHANGED <<handed, uncounted>>
    BY <1>1 DEF start_flow_sample
  <2>2. names \cap Compared = {}
    BY DEF If, Compared, Reasons
  <2> QED
    BY <2>1, <2>2, AsideKeeps
<1>2. CASE ~FlowSampleReadable(s)
  <2>1. stats' = Counting({"sflow_bad_flow_samples"} \cup {"sflow_flow_samples"}) /\ UNCHANGED <<handed, uncounted>>
    <3>1. {"sflow_bad_flow_samples", "sflow_flow_samples"} = {"sflow_bad_flow_samples"} \cup {"sflow_flow_samples"}
      OBVIOUS
    <3> QED
      BY <1>2, <3>1 DEF start_flow_sample
  <2>2. {"sflow_bad_flow_samples"} \cap Reasons = {"sflow_bad_flow_samples"}
    BY DEF Reasons
  <2> QED
    BY <2>1, <2>2, ReasonKeeps DEF Reasons
<1> QED
  BY <1>1, <1>2

\* Everything else: what is received, skipped or read without an effect on the samples.
LEMMA OtherStepsKeep ==
    ASSUME AccountInv,
           \/ receive_nothing
           \/ \E d \in Datagrams : parse_sflow_v5_packet(d)
           \/ skip_sample
           \/ other_record
    PROVE  AccountInv'
<1>1. CASE receive_nothing
  <2>1. PICK failure \in {"udp_receive_eagain", "udp_receive_errors"} : stats' = Counting({failure})
    BY <1>1 DEF receive_nothing
  <2>2. {failure} \cap Compared = {}
    BY DEF Compared, Reasons
  <2> QED
    BY <1>1, <2>1, <2>2, AsideKeeps DEF receive_nothing
<1>2. ASSUME NEW d \in Datagrams, parse_sflow_v5_packet(d) PROVE AccountInv'
  <2> DEFINE padding == If(BlockEnd(PacketHeader[d.agent], d.samples, d.count) # d.received,
                           "sflow_with_padding_at_the_end_of_packet")
             names == {"raw_udp_packets_received", "sflow_total_packets"} \cup
                        (IF Acceptable(d) THEN padding ELSE {"sflow_bad_packets"})
  <2>1. stats' = Counting(names) /\ UNCHANGED <<handed, uncounted>>
    BY <1>2 DEF parse_sflow_v5_packet
  <2>2. padding \cap Compared = {}
    BY DEF If, Compared, Reasons
  <2>3. names \cap Compared = {}
    BY <2>2 DEF Compared, Reasons
  <2> QED
    BY <2>1, <2>3, AsideKeeps
<1>3. CASE skip_sample
  <2> DEFINE s == Head(samples)
             names == If(s.enterprise = 0 /\ s.format = EXPANDED_COUNTER_SAMPLE,
                         "sflow_expanded_counter_sample")
  <2>1. stats' = Counting(names) /\ UNCHANGED <<handed, uncounted>>
    BY <1>3 DEF skip_sample
  <2>2. names \cap Compared = {}
    BY DEF If, Compared, Reasons
  <2> QED
    BY <2>1, <2>2, AsideKeeps
<1>4. CASE other_record
  <2>1. PICK names \in {{"sflow_extended_router_data_records"}, {"sflow_extended_switch_data_records"}, {}} :
           Continue(packet, names)
    BY <1>4 DEF other_record
  <2>2. names \cap Compared = {}
    BY DEF Compared, Reasons
  <2> QED
    BY <2>1, <2>2, AsideKeeps DEF Continue
<1> QED
  BY <1>1, <1>2, <1>3, <1>4

\* A counter sample is no flow sample.
LEMMA CounterSampleKeeps ==
    ASSUME AccountInv, process_sflow_counter_sample
    PROVE  AccountInv'
<1>1. PICK counted : stats' = [Counting({"sflow_counter_sample"})
                                  EXCEPT !.sflow_generic_interface_counter_sample = @ + counted]
  BY DEF process_sflow_counter_sample
<1>2. UNCHANGED <<handed, uncounted>>
  BY DEF process_sflow_counter_sample
<1>3. /\ "sflow_counter_sample" \notin Compared
      /\ "sflow_generic_interface_counter_sample" \notin Compared
  BY DEF Compared, Reasons
<1>4. /\ DOMAIN Counting({"sflow_counter_sample"}) = Counters
      /\ \A c \in Compared : /\ Counting({"sflow_counter_sample"})[c] = stats[c]
                             /\ stats[c] \in Nat
  BY <1>3, CountingCompared DEF AccountInv, CountersOK
<1>5. DOMAIN stats' = Counters /\ \A c \in Compared : stats'[c] = stats[c]
  BY <1>1, <1>3, <1>4, ComparedAreCounters
<1> QED
  BY <1>2, <1>4, <1>5 DEF AccountInv, CountersOK, SamplesAccounted, GivenUp, Compared, Reasons

\* A sample read to its end is one packet.
LEMMA HandOverKeeps ==
    ASSUME AccountInv, hand_over
    PROVE  AccountInv'
<1>1. stats' = Counting({} \cup {"sflow_flow_samples"})
  <2>1. {} \cup {"sflow_flow_samples"} = {"sflow_flow_samples"}
    OBVIOUS
  <2> QED
    BY <2>1 DEF hand_over
<1>2. handed' = handed + 1 /\ uncounted' = uncounted
  BY DEF hand_over
<1>3. {} \cap Reasons = {}
  OBVIOUS
<1> QED
  BY <1>1, <1>2, <1>3, OtherwiseKeeps

\* All counters start at zero.
LEMMA InitAccounted == SflowInit => AccountInv
<1> SUFFICES ASSUME SflowInit PROVE AccountInv
  OBVIOUS
<1>1. DOMAIN stats = Counters /\ handed = 0 /\ uncounted = 0 /\ \A c \in Compared : stats[c] = 0
  BY ComparedAreCounters DEF SflowInit
<1>2. GivenUp = 0 /\ stats.sflow_flow_samples = 0
  BY <1>1 DEF GivenUp, Compared, Reasons
<1> QED
  BY <1>1, <1>2 DEF AccountInv, CountersOK, SamplesAccounted

\* Whatever datagrams arrive and whichever of their records fail, every flow sample that
\* process_sflow_flow_sample ends is a packet handed over, a sample under exactly one error
\* counter, or one lost to a short gateway record.
THEOREM SamplesAreAccounted == SflowSpec => []SamplesAccounted
<1>1. AccountInv /\ [SflowNext]_sflowVars => AccountInv'
  <2> SUFFICES ASSUME AccountInv, [SflowNext]_sflowVars PROVE AccountInv'
    OBVIOUS
  <2>1. CASE UNCHANGED sflowVars
    BY <2>1 DEF sflowVars, AccountInv, CountersOK, SamplesAccounted, GivenUp
  <2> QED
    BY <2>1, OtherStepsKeep, CounterSampleKeeps, StartFlowSampleKeeps, RawPacketHeaderKeeps,
       ExtendedGatewayKeeps, HandOverKeeps DEF SflowNext
<1> QED
  BY <1>1, InitAccounted, PTL DEF SflowSpec, AccountInv

-----------------------------------------------------------------------------
(* What the parsers make of a packet *)

Fields == DOMAIN simple_packet_t

\* q is p but for the fields of names.
Touches(p, q, names) == DOMAIN q = Fields /\ \A x \in Fields \ names : q[x] = p[x]

TransportFields == {"source_port", "destination_port", "flags", "icmp"}

\* The fields the collector sets, not the parsers.
CollectorFields == {"sample_ratio", "input_interface", "output_interface", "forwarding_status", "src_asn", "dst_asn"}

\* The fields of a simple_packet_t.
LEMMA FieldNames ==
    Fields = {"sample_ratio", "input_interface", "output_interface", "forwarding_status", "src_asn", "dst_asn",
              "vlan", "ip_protocol_version", "src", "dst", "protocol", "length", "ip_length", "ip_dont_fragment",
              "ip_fragmented", "ip_more_fragments", "ip_fragment_offset", "source_port", "destination_port",
              "flags", "icmp"}
  BY DEF Fields, simple_packet_t

\* The ports of a transport header.
LEMMA PortsSet ==
    ASSUME NEW frame, NEW p, DOMAIN p = Fields
    PROVE  /\ Touches(p, Ports(frame, p), {"source_port", "destination_port"})
           /\ Ports(frame, p).source_port = frame.transport.source_port
           /\ Ports(frame, p).destination_port = frame.transport.destination_port
  BY FieldNames DEF Touches, Ports

\* What a whole transport header sets.
LEMMA TransportSet ==
    ASSUME NEW frame, NEW p, DOMAIN p = Fields
    PROVE  LET q == Transport(frame, p)
           IN  /\ Touches(p, q, TransportFields)
               /\ frame.protocol \in {"TCP", "UDP"} =>
                    /\ q.source_port = frame.transport.source_port
                    /\ q.destination_port = frame.transport.destination_port
               /\ frame.protocol \notin {"TCP", "UDP"} =>
                    /\ q.source_port = p.source_port
                    /\ q.destination_port = p.destination_port
               /\ IF frame.protocol = "TCP" THEN q.flags = frame.transport.flags ELSE q.flags = p.flags
<1>1. CASE frame.protocol = "TCP"
  <2>1. Transport(frame, p) = [Ports(frame, p) EXCEPT !.flags = frame.transport.flags]
    BY <1>1 DEF Transport
  <2> QED
    BY <1>1, <2>1, PortsSet, FieldNames DEF Touches, TransportFields
<1>2. CASE frame.protocol = "UDP"
  <2>1. Transport(frame, p) = Ports(frame, p)
    BY <1>2 DEF Transport
  <2> QED
    BY <1>2, <2>1, PortsSet, FieldNames DEF Touches, TransportFields
<1>3. CASE frame.protocol \notin {"TCP", "UDP"}
  <2>1. Transport(frame, p) = [p EXCEPT !.icmp = frame.transport.icmp]
    BY <1>3 DEF Transport
  <2> QED
    BY <1>3, <2>1, FieldNames DEF Touches, TransportFields
<1> QED
  BY <1>1, <1>2, <1>3

\* What the branches on protocol set when they succeed, a cut TCP header included.
LEMMA ParseTransportSet ==
    ASSUME NEW frame, NEW at, NEW captured, NEW p, NEW known, NEW crop,
           DOMAIN p = Fields, {"TCP", "UDP"} \subseteq known,
           ParseTransport(frame, at, captured, p, known, crop).code = "success"
    PROVE  LET q == ParseTransport(frame, at, captured, p, known, crop).packet
           IN  /\ Touches(p, q, TransportFields)
               /\ frame.protocol \in {"TCP", "UDP"} =>
                    /\ q.source_port = frame.transport.source_port
                    /\ q.destination_port = frame.transport.destination_port
               /\ frame.protocol \notin {"TCP", "UDP"} =>
                    /\ q.source_port = p.source_port
                    /\ q.destination_port = p.destination_port
               /\ \/ q.flags = p.flags
                  \/ frame.protocol = "TCP" /\ q.flags = frame.transport.flags
<1> DEFINE parsed == ParseTransport(frame, at, captured, p, known, crop)
<1>1. \/ frame.protocol \notin known /\ parsed = Parsed(p)
      \/ parsed = Parsed(Transport(frame, p))
      \/ frame.protocol = "TCP" /\ parsed = Parsed(Ports(frame, p))
      \/ parsed = Failed("memory_violation")
  BY Zenon DEF ParseTransport
<1>2. CASE frame.protocol \notin known /\ parsed = Parsed(p)
  BY <1>2 DEF Parsed, Touches
<1>3. CASE parsed = Parsed(Transport(frame, p))
  BY <1>3, TransportSet DEF Parsed
<1>4. CASE frame.protocol = "TCP" /\ parsed = Parsed(Ports(frame, p))
  <2>1. parsed.packet = Ports(frame, p)
    BY <1>4 DEF Parsed
  <2> QED
    BY <1>4, <2>1, PortsSet, FieldNames DEF Touches, TransportFields
<1>5. CASE parsed = Failed("memory_violation")
  BY <1>5 DEF Failed
<1> QED
  BY <1>1, <1>2, <1>3, <1>4, <1>5

-----------------------------------------------------------------------------
\* What an IP header sets, in either family.
LEMMA IpFieldsSet ==
    ASSUME NEW frame, NEW before, NEW p, DOMAIN p = Fields
    PROVE  LET q == IpFields(frame, before, p)
           IN  /\ Touches(p, q, {"src", "dst", "protocol", "ip_length", "length"})
               /\ <<q.src, q.dst, q.protocol, q.ip_length>> =
                    <<frame.src, frame.dst, frame.protocol, frame.ip_length>>
  BY FieldNames DEF Touches, IpFields

\* What a parser makes of packet p when it reads frame: what the property asks of it,
\* and nothing of what the collector sets itself.  ports: a transport header is read.
Fills(p, q, frame, ports) ==
    /\ DOMAIN q = Fields
    /\ \A x \in CollectorFields \cup {"vlan"} : q[x] = p[x]
    /\ <<q.src, q.dst, q.protocol, q.ip_length>> = <<frame.src, frame.dst, frame.protocol, frame.ip_length>>
    /\ <<q.source_port, q.destination_port>> =
         IF ports /\ frame.protocol \in {"TCP", "UDP"}
         THEN <<frame.transport.source_port, frame.transport.destination_port>>
         ELSE <<p.source_port, p.destination_port>>
    /\ q.flags \in {p.flags, IF frame.protocol = "TCP" THEN frame.transport.flags ELSE p.flags}

\* A packet that the IP header has filled, before the transport header.
IpFilled(p, q, frame) ==
    /\ DOMAIN q = Fields
    /\ \A x \in CollectorFields \cup TransportFields \cup {"vlan"} : q[x] = p[x]
    /\ <<q.src, q.dst, q.protocol, q.ip_length>> = <<frame.src, frame.dst, frame.protocol, frame.ip_length>>

\* A parser that stops at the IP header.
LEMMA IpFilledFills ==
    ASSUME NEW frame, NEW p, NEW q, IpFilled(p, q, frame)
    PROVE  Fills(p, q, frame, FALSE)
  BY DEF IpFilled, Fills, TransportFields

\* A parser that goes on to the transport header.
LEMMA TransportFills ==
    ASSUME NEW frame, NEW at, NEW captured, NEW p, NEW q, NEW known, NEW crop,
           IpFilled(p, q, frame), {"TCP", "UDP"} \subseteq known,
           ParseTransport(frame, at, captured, q, known, crop).code = "success"
    PROVE  Fills(p, ParseTransport(frame, at, captured, q, known, crop).packet, frame, TRUE)
<1> DEFINE r == ParseTransport(frame, at, captured, q, known, crop).packet
<1>1. /\ Touches(q, r, TransportFields)
      /\ frame.protocol \in {"TCP", "UDP"} =>
           /\ r.source_port = frame.transport.source_port
           /\ r.destination_port = frame.transport.destination_port
      /\ frame.protocol \notin {"TCP", "UDP"} =>
           /\ r.source_port = q.source_port
           /\ r.destination_port = q.destination_port
      /\ \/ r.flags = q.flags
         \/ frame.protocol = "TCP" /\ r.flags = frame.transport.flags
  BY ParseTransportSet DEF IpFilled
<1> HIDE DEF r
<1>2. \A x \in CollectorFields \cup {"vlan", "src", "dst", "protocol", "ip_length"} : r[x] = q[x]
  BY <1>1, FieldNames DEF Touches, CollectorFields, TransportFields
<1>3. r.src = q.src /\ r.dst = q.dst /\ r.protocol = q.protocol /\ r.ip_length = q.ip_length
  BY <1>2
<1>4. q.source_port = p.source_port /\ q.destination_port = p.destination_port /\ q.flags = p.flags
  BY DEF IpFilled, TransportFields
<1>5. DOMAIN r = Fields /\ \A x \in CollectorFields \cup {"vlan"} : r[x] = p[x]
  BY <1>1, <1>2 DEF IpFilled, Touches
<1>6. <<r.source_port, r.destination_port>> =
         IF TRUE /\ frame.protocol \in {"TCP", "UDP"}
         THEN <<frame.transport.source_port, frame.transport.destination_port>>
         ELSE <<p.source_port, p.destination_port>>
  BY <1>1, <1>4
<1>7. r.flags \in {p.flags, IF frame.protocol = "TCP" THEN frame.transport.flags ELSE p.flags}
  BY <1>1, <1>4
<1> QED
  BY <1>3, <1>5, <1>6, <1>7 DEF Fills, IpFilled, r

\* Both parsers' IPv4 headers.
LEMMA IPv4Filled ==
    ASSUME NEW frame, NEW before, NEW p, DOMAIN p = Fields
    PROVE  /\ IpFilled(p, IPv4Fields(frame, before, p), frame)
           /\ IpFilled(p, FragmentFields(frame, IPv4Fields(frame, before, p)), frame)
<1> DEFINE ip == IpFields(frame, before, p)
<1>1. DOMAIN ip = Fields /\ IpFilled(p, ip, frame)
  BY IpFieldsSet, FieldNames DEF Touches, IpFilled, CollectorFields, TransportFields
<1> HIDE DEF ip
<1>2. IpFilled(p, IPv4Fields(frame, before, p), frame)
  BY <1>1, FieldNames DEF IPv4Fields, IpFilled, CollectorFields, TransportFields, ip
<1>3. ASSUME NEW q, IpFilled(p, q, frame) PROVE IpFilled(p, FragmentFields(frame, q), frame)
  BY <1>3, FieldNames DEF FragmentFields, IpFilled, CollectorFields, TransportFields
<1> QED
  BY <1>2, <1>3

\* The IPv4 branch reads transport ports exactly in a first or only fragment.
LEMMA EthernetIPv4Fills ==
    ASSUME NEW frame, NEW at, NEW before, NEW captured, NEW p, DOMAIN p = Fields,
           EthernetIPv4(frame, at, before, captured, p).code = "success"
    PROVE  Fills(p, EthernetIPv4(frame, at, before, captured, p).packet, frame, frame.fragment_offset = 0)
<1> DEFINE filled == FragmentFields(frame, IPv4Fields(frame, before, p))
           parsed == EthernetIPv4(frame, at, before, captured, p)
           after  == ParseTransport(frame, at + frame.ihl * 4, captured, filled, DOMAIN TransportHeader, TRUE)
<1>1. IpFilled(p, filled, frame)
  BY IPv4Filled
<1>2. \/ frame.fragment_offset # 0 /\ parsed = Parsed(filled)
      \/ frame.fragment_offset = 0 /\ parsed = after
      \/ parsed = Failed("memory_violation")
      \/ parsed = Failed("malformed_ip_header_length")
  BY Zenon DEF EthernetIPv4, CarriesTransport
<1> HIDE DEF filled, parsed
<1>3. CASE frame.fragment_offset # 0 /\ parsed = Parsed(filled)
  <2>1. parsed.packet = filled
    BY <1>3 DEF Parsed
  <2>2. Fills(p, filled, frame, FALSE)
    BY <1>1, IpFilledFills
  <2> QED
    BY <1>3, <2>1, <2>2 DEF Fills, parsed
<1>4. CASE frame.fragment_offset = 0 /\ parsed = after
  <2>1. {"TCP", "UDP"} \subseteq DOMAIN TransportHeader
    BY DEF TransportHeader
  <2>2. Fills(p, after.packet, frame, TRUE)
    BY <1>1, <1>4, <2>1, TransportFills DEF parsed
  <2> QED
    BY <1>4, <2>2 DEF Fills, parsed
<1>5. CASE parsed \in {Failed("memory_violation"), Failed("malformed_ip_header_length")}
  BY <1>5 DEF Failed, parsed
<1> QED
  BY <1>2, <1>3, <1>4, <1>5 DEF parsed

\* So does the IPv6 branch.
LEMMA EthernetIPv6Fills ==
    ASSUME NEW frame, NEW at, NEW before, NEW captured, NEW p, DOMAIN p = Fields,
           frame.protocol # "IPV6_FRAG" => frame.fragment_offset = 0,
           EthernetIPv6(frame, at, before, captured, p).code = "success"
    PROVE  Fills(p, EthernetIPv6(frame, at, before, captured, p).packet, frame, frame.fragment_offset = 0)
<1> DEFINE filled == [IpFields(frame, before, p) EXCEPT !.ip_protocol_version = 6]
           fragment == [FragmentFields(frame, filled) EXCEPT !.ip_fragmented = TRUE]
           parsed == EthernetIPv6(frame, at, before, captured, p)
           after  == ParseTransport(frame, at + IPv6Header, captured, filled, DOMAIN TransportHeader, TRUE)
<1>1. IpFilled(p, filled, frame)
  BY IpFieldsSet, FieldNames DEF Touches, IpFilled, CollectorFields, TransportFields
<1>2. IpFilled(p, fragment, frame)
  <2> HIDE DEF filled
  <2> QED
    BY <1>1, FieldNames DEF FragmentFields, IpFilled, CollectorFields, TransportFields
<1>3. \/ frame.protocol = "IPV6_FRAG" /\ parsed = Parsed(fragment)
      \/ frame.protocol # "IPV6_FRAG" /\ parsed = after
      \/ parsed = Failed("memory_violation")
      \/ parsed = Failed("no_ipv6_options_support")
  BY Zenon DEF EthernetIPv6
<1> HIDE DEF filled, fragment, parsed
<1>4. CASE frame.protocol = "IPV6_FRAG" /\ parsed = Parsed(fragment)
  <2>1. parsed.packet = fragment
    BY <1>4 DEF Parsed
  <2>2. Fills(p, fragment, frame, FALSE)
    BY <1>2, IpFilledFills
  <2> QED
    BY <1>4, <2>1, <2>2 DEF Fills, parsed
<1>5. CASE frame.protocol # "IPV6_FRAG" /\ parsed = after
  <2>1. {"TCP", "UDP"} \subseteq DOMAIN TransportHeader
    BY DEF TransportHeader
  <2>2. Fills(p, after.packet, frame, TRUE)
    BY <1>1, <1>5, <2>1, TransportFills DEF parsed
  <2> QED
    BY <1>5, <2>2 DEF Fills, parsed
<1>6. CASE parsed \in {Failed("memory_violation"), Failed("no_ipv6_options_support")}
  BY <1>6 DEF Failed, parsed
<1> QED
  BY <1>3, <1>4, <1>5, <1>6 DEF parsed

\* The Ethernet parser sets the outer VLAN and what the frame's IP packet says.
LEMMA EthernetFills ==
    ASSUME NEW frame, NEW before, NEW captured, NEW p, DOMAIN p = Fields, FrameWritten(frame),
           parse_raw_packet_to_simple_packet_full(frame, before, captured, p).code = "success"
    PROVE  Fills(IF frame.vlans = << >> THEN p ELSE [p EXCEPT !.vlan = Head(frame.vlans)],
                 parse_raw_packet_to_simple_packet_full(frame, before, captured, p).packet,
                 frame, frame.fragment_offset = 0)
<1> DEFINE tags   == StripVlans(frame, captured)
           tagged == IF frame.vlans = << >> THEN p ELSE [p EXCEPT !.vlan = Head(frame.vlans)]
           parsed == parse_raw_packet_to_simple_packet_full(frame, before, captured, p)
           v4     == EthernetIPv4(frame, tags.at, before, captured, tagged)
           v6     == EthernetIPv6(frame, tags.at, before, captured, tagged)
<1>1. DOMAIN tagged = Fields
  BY FieldNames
<1>2. \/ parsed = v4
      \/ frame.ethertype = "IPv6" /\ parsed = v6
      \/ \E code \in {"arp", "mpls", "unknown_ethertype"} : parsed = Failed(code)
      \/ tags.code # "success" /\ parsed = Failed(tags.code)
  <2>1. CASE tags.code # "success"
    BY <2>1, Zenon DEF parse_raw_packet_to_simple_packet_full
  <2>2. CASE tags.code = "success"
    <3> DEFINE by_type == CASE frame.ethertype = "IPv4" -> v4
                            [] frame.ethertype = "IPv6" -> v6
                            [] frame.ethertype = "ARP"  -> Failed("arp")
                            [] frame.ethertype = "MPLS" -> Failed("mpls")
                            [] OTHER                    -> Failed("unknown_ethertype")
    <3>1. parsed = by_type
      BY <2>2, Zenon DEF parse_raw_packet_to_simple_packet_full
    <3> HIDE DEF v4, v6, parsed
    <3>2. \/ by_type = v4
          \/ frame.ethertype = "IPv6" /\ by_type = v6
          \/ \E code \in {"arp", "mpls", "unknown_ethertype"} : by_type = Failed(code)
      OBVIOUS
    <3> QED
      BY <3>1, <3>2
  <2> QED
    BY <2>1, <2>2
<1> HIDE DEF tagged
<1>3. CASE parsed = v4
  BY <1>1, <1>3, EthernetIPv4Fills DEF tagged
<1>4. CASE frame.ethertype = "IPv6" /\ parsed = v6
  BY <1>1, <1>4, EthernetIPv6Fills DEF tagged, FrameWritten
<1>5. CASE \E code \in {"arp", "mpls", "unknown_ethertype"} : parsed = Failed(code)
  BY <1>5 DEF Failed
<1>6. CASE tags.code # "success" /\ parsed = Failed(tags.code)
  BY <1>6 DEF Failed
<1> QED
  BY <1>2, <1>3, <1>4, <1>5, <1>6 DEF tagged

\* The parser of captures that start at the IPv4 header reads ports in every fragment.
LEMMA RawIPv4Fills ==
    ASSUME NEW frame, NEW before, NEW captured, NEW p, DOMAIN p = Fields,
           parse_raw_ipv4_packet_to_simple_packet_full(frame, before, captured, p).code = "success"
    PROVE  Fills(p, parse_raw_ipv4_packet_to_simple_packet_full(frame, before, captured, p).packet, frame, TRUE)
<1> DEFINE filled == IPv4Fields(frame, before, p)
           known  == {"TCP", "UDP", "ICMP"}
           parsed == parse_raw_ipv4_packet_to_simple_packet_full(frame, before, captured, p)
           after  == ParseTransport(frame, frame.ihl * 4, captured, filled, known, FALSE)
<1>1. IpFilled(p, filled, frame)
  BY IPv4Filled
<1>2. \/ parsed = after
      \/ \E code \in {"memory_violation", "malformed_ip_header_length"} : parsed = Failed(code)
  BY DEF parse_raw_ipv4_packet_to_simple_packet_full
<1>3. {"TCP", "UDP"} \subseteq known
  OBVIOUS
<1> HIDE DEF filled, known, parsed
<1>4. CASE parsed = after
  BY <1>1, <1>3, <1>4, TransportFills DEF parsed
<1>5. CASE \E code \in {"memory_violation", "malformed_ip_header_length"} : parsed = Failed(code)
  BY <1>5 DEF Failed, parsed
<1> QED
  BY <1>2, <1>4, <1>5 DEF parsed

-----------------------------------------------------------------------------
\* Splitting what was joined.
LEMMA SplitJoined ==
    ASSUME NEW base \in Nat \ {0}, NEW type \in Nat, NEW index \in Nat, index < base
    PROVE  (type * base + index) \div base = type /\ (type * base + index) % base = index
<1> DEFINE joined == type * base + index
           q == joined \div base
           r == joined % base
<1>1. joined \in Nat /\ q \in Int /\ r \in 0 .. base - 1 /\ joined = base * q + r
  OBVIOUS
<1>2. base * (type - q) = r - index
  BY <1>1
<1>3. r - index < base /\ index - r < base
  BY <1>1
<1> HIDE DEF joined, q, r
<1>4. ASSUME type > q PROVE FALSE
  <2>1. PICK n \in Nat : type - q = n + 1
    <3>1. type - q - 1 \in Nat
      BY <1>1, <1>4
    <3> QED
      BY <1>1, <3>1
  <2>2. base * (n + 1) = base * n + base /\ base * n >= 0
    OBVIOUS
  <2> QED
    BY <1>1, <1>2, <1>3, <2>1, <2>2
<1>5. ASSUME type < q PROVE FALSE
  <2>1. PICK n \in Nat : type - q = - (n + 1)
    <3>1. q - type - 1 \in Nat
      BY <1>1, <1>5
    <3> QED
      BY <1>1, <3>1
  <2>2. base * (-(n + 1)) = -(base * n) - base /\ base * n >= 0
    OBVIOUS
  <2> QED
    BY <1>1, <1>2, <1>3, <2>1, <2>2
<1>6. type = q
  BY <1>1, <1>4, <1>5
<1>7. r = index
  BY <1>1, <1>2, <1>6
<1> QED
  BY <1>6, <1>7 DEF q, r, joined

\* The collector reads the ports the agent meant, whichever header carries them.
LEMMA PortRead ==
    ASSUME NEW s, NEW type \in PortTypes, NEW index \in Nat,
           s.format = FLOW_SAMPLE => index < PortBase
    PROVE  /\ Port(s, EncodedPort(s.format, type, index)).type = type
           /\ Port(s, EncodedPort(s.format, type, index)).index = index
<1>1. CASE s.format = FLOW_SAMPLE
  <2>1. type \in Nat
    BY DEF PortTypes
  <2>2. /\ (type * PortBase + index) \div PortBase = type
        /\ (type * PortBase + index) % PortBase = index
    BY <1>1, <2>1, SplitJoined, LimitsAssumption
  <2> QED
    BY <1>1, <2>2 DEF Port, EncodedPort, split_32bit_integer_by_2_and_30_bits
<1>2. CASE s.format # FLOW_SAMPLE
  BY <1>2 DEF Port, EncodedPort
<1> QED
  BY <1>1, <1>2

\* Input port, output port and the discarded mark of a sample header.
LEMMA PortsRead ==
    ASSUME NEW s, PortsWritten(s)
    PROVE  /\ Port(s, s.input).index = s.agent_input
           /\ Port(s, s.output).index = s.agent_output
           /\ Port(s, s.output).type = SFLOW_PORT_FORMAT_PACKET_DISCARDED <=> s.agent_discarded
<1>1. s.agent_input \in Nat /\ s.agent_output \in Nat
  BY DEF PortsWritten
<1>2. PICK type \in PortTypes : s.input = EncodedPort(s.format, type, s.agent_input)
  BY DEF PortsWritten
<1>3. PICK out \in PortTypes : /\ s.output = EncodedPort(s.format, out, s.agent_output)
                               /\ s.agent_discarded <=> out = SFLOW_PORT_FORMAT_PACKET_DISCARDED
  BY DEF PortsWritten
<1>4. s.format = FLOW_SAMPLE => s.agent_input < PortBase /\ s.agent_output < PortBase
  BY DEF PortsWritten
<1>5. Port(s, s.input).index = s.agent_input
  BY <1>1, <1>2, <1>4, PortRead
<1>6. Port(s, s.output).index = s.agent_output /\ Port(s, s.output).type = out
  BY <1>1, <1>3, <1>4, PortRead
<1> QED
  BY <1>3, <1>5, <1>6

\* A packet no raw header has filled yet.
Blank(p) ==
    /\ p.vlan = 0
    /\ p.source_port = 0
    /\ p.destination_port = 0
    /\ p.flags = {}
    /\ p.forwarding_status = "unknown"

\* What one raw header makes of a blank packet.
LEMMA RawSays ==
    ASSUME NEW r, DOMAIN packet = Fields, Blank(packet), FrameWritten(r.frame), PortsWritten(current),
           Nested(r).code = "success"
    PROVE  SaysFrame(Sampled(Nested(r).packet), current, r)
<1> DEFINE f == r.frame
           ethernet == r.header_protocol = "ETHERNET"
           tagged == IF f.vlans = << >> THEN packet ELSE [packet EXCEPT !.vlan = Head(f.vlans)]
           q == Nested(r).packet
           p == Sampled(q)
           start == IF ethernet THEN tagged ELSE packet
           ports == ethernet => f.fragment_offset = 0
<1>1. Fills(start, q, f, ports)
  <2>1. CASE ethernet
    <3>1. Fills(tagged, q, f, f.fragment_offset = 0)
      BY <2>1, EthernetFills DEF Nested
    <3> QED
      BY <2>1, <3>1 DEF Fills
  <2>2. CASE ~ethernet
    <3>1. Fills(packet, q, f, TRUE)
      BY <2>2, RawIPv4Fills DEF Nested
    <3> QED
      BY <2>2, <3>1 DEF Fills
  <2> QED
    BY <2>1, <2>2
<1>2. /\ start.vlan = IF ethernet /\ f.vlans # << >> THEN Head(f.vlans) ELSE 0
      /\ start.source_port = 0 /\ start.destination_port = 0 /\ start.flags = {}
      /\ start.forwarding_status = "unknown"
  BY FieldNames DEF Blank
<1> HIDE DEF start, q
<1>3. /\ q.vlan = start.vlan /\ q.forwarding_status = "unknown" /\ DOMAIN q = Fields
      /\ <<q.src, q.dst, q.protocol, q.ip_length>> = <<f.src, f.dst, f.protocol, f.ip_length>>
      /\ <<q.source_port, q.destination_port>> =
           IF ports /\ f.protocol \in {"TCP", "UDP"}
           THEN <<f.transport.source_port, f.transport.destination_port>> ELSE <<0, 0>>
      /\ q.flags \in {{}, IF f.protocol = "TCP" THEN f.transport.flags ELSE {}}
  BY <1>1, <1>2 DEF Fills, CollectorFields
<1>4. /\ p.vlan = q.vlan /\ p.src = q.src /\ p.dst = q.dst /\ p.protocol = q.protocol
      /\ p.ip_length = q.ip_length /\ p.flags = q.flags
      /\ p.source_port = q.source_port /\ p.destination_port = q.destination_port
      /\ p.sample_ratio = current.sampling_rate
      /\ p.input_interface = Port(current, current.input).index
      /\ p.output_interface = Port(current, current.output).index
      /\ p.forwarding_status = IF Port(current, current.output).type = SFLOW_PORT_FORMAT_PACKET_DISCARDED
                               THEN "dropped" ELSE "unknown"
  BY <1>3, FieldNames DEF Sampled
<1> HIDE DEF p
<1>5. /\ p.input_interface = current.agent_input /\ p.output_interface = current.agent_output
      /\ p.forwarding_status = "dropped" <=> current.agent_discarded
  BY <1>4, PortsRead
<1>6. /\ ethernet \/ f.fragment_offset = 0 =>
           <<p.source_port, p.destination_port>> =
             IF f.protocol \in {"TCP", "UDP"} /\ f.fragment_offset = 0
             THEN <<f.transport.source_port, f.transport.destination_port>> ELSE <<0, 0>>
      /\ p.flags \subseteq IF f.protocol = "TCP" THEN f.transport.flags ELSE {}
  BY <1>3, <1>4
<1>7. /\ <<p.src, p.dst, p.protocol, p.ip_length>> = <<f.src, f.dst, f.protocol, f.ip_length>>
      /\ p.vlan = IF ethernet /\ f.vlans # << >> THEN Head(f.vlans) ELSE 0
      /\ p.sample_ratio = current.sampling_rate
  BY <1>2, <1>3, <1>4
<1> QED
  BY <1>5, <1>6, <1>7 DEF SaysFrame, p, q

\* What a raw header leaves alone.
LEMMA RawKeepsGateway ==
    ASSUME NEW r, DOMAIN packet = Fields, FrameWritten(r.frame), Nested(r).code = "success"
    PROVE  LET p == Sampled(Nested(r).packet)
           IN  DOMAIN p = Fields /\ p.src_asn = packet.src_asn /\ p.dst_asn = packet.dst_asn
<1> DEFINE f == r.frame
           tagged == IF f.vlans = << >> THEN packet ELSE [packet EXCEPT !.vlan = Head(f.vlans)]
           q == Nested(r).packet
<1>1. \E start \in {packet, tagged}, ports \in BOOLEAN : Fills(start, q, f, ports)
  <2>1. CASE r.header_protocol = "ETHERNET"
    <3>1. Fills(tagged, q, f, f.fragment_offset = 0)
      BY <2>1, EthernetFills DEF Nested
    <3> QED
      BY <3>1
  <2>2. CASE r.header_protocol # "ETHERNET"
    BY <2>2, RawIPv4Fills DEF Nested
  <2> QED
    BY <2>1, <2>2
<1>2. tagged.src_asn = packet.src_asn /\ tagged.dst_asn = packet.dst_asn
  BY FieldNames
<1> HIDE DEF q, tagged
<1>3. DOMAIN q = Fields /\ q.src_asn = packet.src_asn /\ q.dst_asn = packet.dst_asn
  BY <1>1, <1>2 DEF Fills, CollectorFields
<1>4. LET p == Sampled(q)
      IN  DOMAIN p = Fields /\ p.src_asn = q.src_asn /\ p.dst_asn = q.dst_asn
  BY <1>3, FieldNames DEF Sampled
<1> QED
  BY <1>3, <1>4 DEF q

-----------------------------------------------------------------------------
(* The inductive invariant *)

Sent == UNION {{d.samples[i] : i \in 1 .. Len(d.samples)} : d \in Datagrams}

\* A flow sample the collector reads.
Readable(s) ==
    /\ s.count \in Nat
    /\ PortsWritten(s)
    /\ \A i \in 1 .. s.count : s.records[i].type = "raw" => FrameWritten(s.records[i].frame)

IsRaw(s, i) == s.records[i].type = "raw"

\* What packet p says after the first k records of sample s.
SaysRecords(p, s, k) ==
    /\ DOMAIN p = Fields
    /\ (\A i \in 1 .. k : ~IsRaw(s, i)) => Blank(p)
    /\ \A i \in 1 .. k : IsRaw(s, i) /\ (\A j \in 1 .. k : IsRaw(s, j) => j = i) => SaysFrame(p, s, s.records[i])
    /\ SaysGateway(p, s, k)

\* The records read so far of the current sample.
Position == current.count - Len(records)

ReadingInv ==
    current # NoSample =>
      /\ Readable(current)
      /\ records \in Seq({current.records[i] : i \in 1 .. current.count})
      /\ Len(records) <= current.count
      /\ \A i \in 1 .. Len(records) : records[i] = current.records[Position + i]
      /\ SaysRecords(packet, current, Position)

HandedInv ==
    last.sample # NoSample =>
      /\ last.sample.count \in Nat
      /\ SaysRecords(last.packet, last.sample, last.sample.count)

SampledInv == samples \in Seq(Sent) /\ ReadingInv /\ HandedInv

\* A record that is no gateway record with an IPv4 next hop leaves the AS numbers.
LEMMA GatewayKept ==
    ASSUME NEW p, NEW q, NEW s, NEW k \in Nat, SaysGateway(p, s, k),
           ~(s.records[k + 1].type = "gateway" /\ s.records[k + 1].nexthop = "IPv4"),
           q.src_asn = p.src_asn, q.dst_asn = p.dst_asn
    PROVE  SaysGateway(q, s, k + 1)
<1> DEFINE gateways(n) == {i \in 1 .. n : s.records[i].type = "gateway" /\ s.records[i].nexthop = "IPv4"}
<1>1. gateways(k + 1) = gateways(k)
  OBVIOUS
<1> HIDE DEF gateways
<1>2. SaysGateway(p, s, k) <=>
        /\ gateways(k) = {} => <<p.src_asn, p.dst_asn>> = <<0, 0>>
        /\ \A i \in gateways(k) : (\A j \in gateways(k) : j <= i) =>
             <<p.src_asn, p.dst_asn>> = <<s.records[i].router_asn, s.records[i].source_asn>>
  BY DEF SaysGateway, gateways
<1>3. SaysGateway(q, s, k + 1) <=>
        /\ gateways(k + 1) = {} => <<q.src_asn, q.dst_asn>> = <<0, 0>>
        /\ \A i \in gateways(k + 1) : (\A j \in gateways(k + 1) : j <= i) =>
             <<q.src_asn, q.dst_asn>> = <<s.records[i].router_asn, s.records[i].source_asn>>
  BY DEF SaysGateway, gateways
<1> QED
  BY <1>1, <1>2, <1>3

\* One that is sets them.
LEMMA GatewayRead ==
    ASSUME NEW q, NEW s, NEW k \in Nat,
           s.records[k + 1].type = "gateway" /\ s.records[k + 1].nexthop = "IPv4",
           q.src_asn = s.records[k + 1].router_asn, q.dst_asn = s.records[k + 1].source_asn
    PROVE  SaysGateway(q, s, k + 1)
<1> DEFINE gateways == {i \in 1 .. k + 1 : s.records[i].type = "gateway" /\ s.records[i].nexthop = "IPv4"}
<1>1. k + 1 \in gateways
  OBVIOUS
<1>2. \A i \in gateways : (\A j \in gateways : j <= i) => i = k + 1
  BY <1>1
<1> QED
  BY <1>1, <1>2 DEF SaysGateway

\* The record under the collector's eyes is the next of the sample.
LEMMA NextRecord ==
    ASSUME ReadingInv, current # NoSample, records # << >>
    PROVE  /\ Position \in Nat
           /\ Position + 1 \in 1 .. current.count
           /\ Head(records) = current.records[Position + 1]
           /\ Tail(records) \in Seq({current.records[i] : i \in 1 .. current.count})
           /\ Len(Tail(records)) <= current.count
           /\ current.count - Len(Tail(records)) = Position + 1
           /\ \A i \in 1 .. Len(Tail(records)) : Tail(records)[i] = current.records[Position + 1 + i]
<1> DEFINE S == {current.records[i] : i \in 1 .. current.count}
<1>1. /\ current.count \in Nat
      /\ records \in Seq(S)
      /\ Len(records) <= current.count
      /\ \A i \in 1 .. Len(records) : records[i] = current.records[Position + i]
  BY DEF ReadingInv, Readable
<1> HIDE DEF S
<1>2. Len(records) \in Nat \ {0}
  BY <1>1, EmptySeq
<1>3. Position \in Nat /\ Position = current.count - Len(records) /\ Position + 1 \in 1 .. current.count
  BY <1>1, <1>2 DEF Position
<1>4. /\ Tail(records) \in Seq(S)
      /\ Len(Tail(records)) = Len(records) - 1
      /\ \A i \in 1 .. Len(Tail(records)) : Tail(records)[i] = records[i + 1]
  BY <1>1, HeadTailProperties
<1>5. Head(records) = records[1]
  BY <1>1
<1>6. records[1] = current.records[Position + 1]
  BY <1>1, <1>2
<1>7. current.count - Len(Tail(records)) = Position + 1 /\ Len(Tail(records)) <= current.count
  BY <1>1, <1>2, <1>3, <1>4
<1>8. ASSUME NEW i \in 1 .. Len(Tail(records)) PROVE Tail(records)[i] = current.records[Position + 1 + i]
  <2>1. i + 1 \in 1 .. Len(records) /\ Position + (i + 1) = Position + 1 + i
    BY <1>2, <1>3, <1>4
  <2>2. records[i + 1] = current.records[Position + (i + 1)]
    BY <1>1, <2>1
  <2> QED
    BY <1>4, <2>1, <2>2
<1> QED
  BY <1>3, <1>4, <1>5, <1>6, <1>7, <1>8 DEF S

\* A step that reads one record and fills the packet with what it says.
LEMMA ContinueKeeps ==
    ASSUME SampledInv, current # NoSample, records # << >>, NEW filled, NEW counters, Continue(filled, counters),
           SaysRecords(filled, current, Position + 1)
    PROVE  SampledInv'
<1>1. /\ packet' = filled /\ records' = Tail(records) /\ current' = current
      /\ samples' = samples /\ last' = last
  BY DEF Continue
<1>2. /\ records' \in Seq({current.records[i] : i \in 1 .. current.count})
      /\ Len(records') <= current.count
      /\ Position' = Position + 1
      /\ \A i \in 1 .. Len(records') : records'[i] = current.records[Position + 1 + i]
  BY <1>1, NextRecord DEF SampledInv, Position
<1>3. ReadingInv'
  <2>1. Readable(current)
    BY DEF SampledInv, ReadingInv
  <2>2. SaysRecords(packet', current', Position')
    BY <1>1, <1>2
  <2> QED
    BY <1>1, <1>2, <2>1, <2>2 DEF ReadingInv
<1> QED
  BY <1>1, <1>3 DEF SampledInv, HandedInv

\* A step that leaves the current sample behind.
LEMMA GiveUpKeeps ==
    ASSUME SampledInv, NEW counters, GiveUp(counters)
    PROVE  SampledInv'
  BY DEF SampledInv, ReadingInv, HandedInv, GiveUp

\* A raw packet header.
LEMMA RawKeepsSampled ==
    ASSUME SampledInv, raw_packet_header
    PROVE  SampledInv'
<1> DEFINE r == Head(records)
           p == Sampled(Nested(r).packet)
           k == Position
<1>1. current # NoSample /\ records # << >> /\ r.type = "raw"
  BY DEF raw_packet_header, Reading
<1>2. \/ \E counters : GiveUp(counters)
      \/ Nested(r).code = "success" /\ \E counters : Continue(p, counters)
  BY DEF raw_packet_header
<1>3. CASE \E counters : GiveUp(counters)
  BY <1>3, GiveUpKeeps
<1>4. CASE Nested(r).code = "success" /\ \E counters : Continue(p, counters)
  <2>1. /\ k \in Nat /\ k + 1 \in 1 .. current.count /\ r = current.records[k + 1]
        /\ Readable(current) /\ SaysRecords(packet, current, k)
    BY <1>1, NextRecord DEF SampledInv, ReadingInv
  <2>2. DOMAIN packet = Fields /\ FrameWritten(r.frame) /\ PortsWritten(current)
    BY <1>1, <2>1 DEF Readable, SaysRecords
  <2>3. DOMAIN p = Fields /\ p.src_asn = packet.src_asn /\ p.dst_asn = packet.dst_asn
    BY <1>4, <2>2, RawKeepsGateway
  <2>4. SaysGateway(p, current, k + 1)
    BY <1>1, <2>1, <2>3, GatewayKept DEF SaysRecords
  <2>5. IsRaw(current, k + 1)
    BY <1>1, <2>1 DEF IsRaw
  <2>6. ASSUME NEW i \in 1 .. k + 1, IsRaw(current, i), \A j \in 1 .. k + 1 : IsRaw(current, j) => j = i
        PROVE  SaysFrame(p, current, current.records[i])
    <3>1. i = k + 1
      BY <2>1, <2>5, <2>6
    <3>2. \A j \in 1 .. k : ~IsRaw(current, j)
      BY <2>1, <2>6, <3>1
    <3>3. Blank(packet)
      BY <2>1, <3>2 DEF SaysRecords
    <3>4. SaysFrame(p, current, r)
      BY <1>4, <2>2, <3>3, RawSays
    <3> QED
      BY <2>1, <3>1, <3>4
  <2> HIDE DEF p
  <2>7. SaysRecords(p, current, k + 1)
    <3>1. ~ \A i \in 1 .. k + 1 : ~IsRaw(current, i)
      BY <2>1, <2>5
    <3> QED
      BY <2>3, <2>4, <2>6, <3>1 DEF SaysRecords
  <2> QED
    BY <1>1, <1>4, <2>7, ContinueKeeps
<1> QED
  BY <1>2, <1>3, <1>4

\* A record that is no raw header, and changes no more than the AS numbers.
LEMMA PlainRecordSays ==
    ASSUME NEW p, NEW q, NEW s, NEW k \in Nat, SaysRecords(p, s, k), ~IsRaw(s, k + 1),
           Touches(p, q, {"src_asn", "dst_asn"}), SaysGateway(q, s, k + 1)
    PROVE  SaysRecords(q, s, k + 1)
<1>1. /\ q.vlan = p.vlan /\ q.source_port = p.source_port /\ q.destination_port = p.destination_port
      /\ q.flags = p.flags /\ q.forwarding_status = p.forwarding_status
      /\ q.src = p.src /\ q.dst = p.dst /\ q.protocol = p.protocol /\ q.ip_length = p.ip_length
      /\ q.sample_ratio = p.sample_ratio
      /\ q.input_interface = p.input_interface /\ q.output_interface = p.output_interface
  BY FieldNames DEF Touches
<1>2. (\A i \in 1 .. k + 1 : ~IsRaw(s, i)) => Blank(q)
  <2>1. Blank(p) => Blank(q)
    BY <1>1 DEF Blank
  <2>2. 1 .. k \subseteq 1 .. k + 1
    OBVIOUS
  <2> QED
    BY <2>1, <2>2 DEF SaysRecords
<1>3. ASSUME NEW i \in 1 .. k + 1, IsRaw(s, i), \A j \in 1 .. k + 1 : IsRaw(s, j) => j = i
      PROVE  SaysFrame(q, s, s.records[i])
  <2>1. i \in 1 .. k
    <3>1. i # k + 1
      BY <1>3
    <3> QED
      BY <3>1
  <2>2. \A j \in 1 .. k : IsRaw(s, j) => j = i
    BY <1>3
  <2>3. SaysFrame(p, s, s.records[i])
    BY <1>3, <2>1, <2>2 DEF SaysRecords
  <2> QED
    BY <1>1, <2>3 DEF SaysFrame
<1> QED
  BY <1>2, <1>3 DEF SaysRecords, Touches

\* A gateway record.
LEMMA GatewayKeepsSampled ==
    ASSUME SampledInv, extended_gateway
    PROVE  SampledInv'
<1> DEFINE r == Head(records)
           p == IF r.nexthop = "IPv4" THEN [packet EXCEPT !.src_asn = r.router_asn, !.dst_asn = r.source_asn]
                ELSE packet
           k == Position
<1>1. current # NoSample /\ records # << >> /\ r.type = "gateway"
  BY DEF extended_gateway, Reading
<1>2. (\E counters : GiveUp(counters)) \/ (\E counters : Continue(p, counters))
  BY DEF extended_gateway
<1>3. CASE \E counters : GiveUp(counters)
  BY <1>3, GiveUpKeeps
<1>4. CASE \E counters : Continue(p, counters)
  <2>1. /\ k \in Nat /\ k + 1 \in 1 .. current.count /\ r = current.records[k + 1]
        /\ SaysRecords(packet, current, k)
    BY <1>1, NextRecord DEF SampledInv, ReadingInv
  <2>2. DOMAIN packet = Fields
    BY <2>1 DEF SaysRecords
  <2>3. Touches(packet, p, {"src_asn", "dst_asn"})
    BY <2>2, FieldNames DEF Touches
  <2>4. SaysGateway(p, current, k + 1)
    <3>1. CASE r.nexthop = "IPv4"
      <4>1. p.src_asn = r.router_asn /\ p.dst_asn = r.source_asn
        BY <2>2, <3>1, FieldNames
      <4> QED
        BY <1>1, <2>1, <3>1, <4>1, GatewayRead
    <3>2. CASE r.nexthop # "IPv4"
      BY <2>1, <3>2, GatewayKept DEF SaysRecords
    <3> QED
      BY <3>1, <3>2
  <2> HIDE DEF p
  <2>5. SaysRecords(p, current, k + 1)
    BY <1>1, <2>1, <2>3, <2>4, PlainRecordSays DEF IsRaw
  <2> QED
    BY <1>1, <1>4, <2>5, ContinueKeeps
<1> QED
  BY <1>2, <1>3, <1>4

\* Records that are only counted.
LEMMA OtherRecordKeepsSampled ==
    ASSUME SampledInv, other_record
    PROVE  SampledInv'
<1> DEFINE r == Head(records)
           k == Position
<1>1. /\ current # NoSample /\ records # << >> /\ r.type \in {"router", "switch", "unknown"}
      /\ \E counters : Continue(packet, counters)
  BY DEF other_record, Reading
<1>2. /\ k \in Nat /\ r = current.records[k + 1] /\ SaysRecords(packet, current, k)
  BY <1>1, NextRecord DEF SampledInv, ReadingInv
<1>3. SaysGateway(packet, current, k + 1)
  BY <1>1, <1>2, GatewayKept DEF SaysRecords
<1>4. SaysRecords(packet, current, k + 1)
  BY <1>1, <1>2, <1>3, PlainRecordSays DEF IsRaw, Touches, SaysRecords
<1> QED
  BY <1>1, <1>4, ContinueKeeps

\* Taking a sample off the datagram leaves a sequence of samples.
LEMMA SampleTaken ==
    ASSUME samples \in Seq(Sent), samples # << >>
    PROVE  Head(samples) \in Sent /\ Tail(samples) \in Seq(Sent)
  BY HeadTailProperties

\* A flow sample is refused, or its records are read into an empty packet.
LEMMA StartKeepsSampled ==
    ASSUME SampledInv, start_flow_sample
    PROVE  SampledInv'
<1> DEFINE s == Head(samples)
           S == {s.records[i] : i \in 1 .. s.count}
<1>1. /\ current = NoSample /\ samples # << >> /\ samples' = Tail(samples)
      /\ packet' = simple_packet_t /\ last' = last
      /\ s.enterprise = 0 /\ s.format \in {FLOW_SAMPLE, EXPANDED_FLOW_SAMPLE}
  BY DEF start_flow_sample
<1>2. s \in Sent /\ samples' \in Seq(Sent)
  BY <1>1, SampleTaken DEF SampledInv
<1>3. CASE FlowSampleReadable(s)
  <2>1. current' = s /\ records' = SubSeq(s.records, 1, s.count)
    BY <1>3 DEF start_flow_sample
  <2>2. s.count \in Nat /\ s.count <= Len(s.records)
    BY <1>3, LimitsAssumption DEF FlowSampleReadable, get_records, BlocksInside
  <2>3. PICK d \in Datagrams : \E i \in 1 .. Len(d.samples) : s = d.samples[i]
    BY <1>2 DEF Sent
  <2>4. FlowSampleWritten(s)
    BY <2>3, DatagramsAssumption
  <2>5. /\ PortsWritten(s) /\ Len(s.records) \in Nat
        /\ \A i \in 1 .. Len(s.records) : s.records[i].type = "raw" => FrameWritten(s.records[i].frame)
    BY <1>1, <2>4 DEF FlowSampleWritten
  <2>6. Readable(s)
    <3>1. 1 .. s.count \subseteq 1 .. Len(s.records)
      BY <2>2, <2>5
    <3> QED
      BY <2>2, <2>5, <3>1 DEF Readable
  <2>7. /\ records' \in Seq(S) /\ Len(records') = s.count
        /\ \A i \in 1 .. s.count : records'[i] = s.records[i]
    <3>1. \A i \in 1 .. s.count : s.records[i] \in S
      OBVIOUS
    <3> HIDE DEF S
    <3>2. /\ SubSeq(s.records, 1, s.count) \in Seq(S)
          /\ Len(SubSeq(s.records, 1, s.count)) = IF 1 <= s.count THEN s.count - 1 + 1 ELSE 0
          /\ \A i \in 1 .. s.count - 1 + 1 : SubSeq(s.records, 1, s.count)[i] = s.records[1 + i - 1]
      BY <2>2, <3>1, SubSeqProperties
    <3> QED
      BY <2>1, <2>2, <3>2
  <2>8. SaysRecords(packet', s, 0)
    BY <1>1 DEF SaysRecords, SaysGateway, Blank, Fields, simple_packet_t
  <2>9. ReadingInv'
    <3>1. Position' = 0
      BY <2>1, <2>2, <2>7 DEF Position
    <3>2. \A i \in 1 .. Len(records') : records'[i] = s.records[Position' + i]
      BY <2>2, <2>7, <3>1
    <3> QED
      BY <2>1, <2>2, <2>6, <2>7, <2>8, <3>1, <3>2 DEF ReadingInv
  <2> QED
    BY <1>1, <1>2, <2>9 DEF SampledInv, HandedInv
<1>4. CASE ~FlowSampleReadable(s)
  BY <1>1, <1>2, <1>4 DEF start_flow_sample, SampledInv, ReadingInv, HandedInv
<1> QED
  BY <1>3, <1>4

\* A datagram's samples are those its agent wrote.
LEMMA DatagramKeepsSampled ==
    ASSUME SampledInv, NEW d \in Datagrams, parse_sflow_v5_packet(d)
    PROVE  SampledInv'
<1>1. current = NoSample /\ UNCHANGED <<current, records, packet, last>>
  BY DEF parse_sflow_v5_packet, Waiting
<1>2. samples' \in Seq(Sent)
  <2>1. CASE Acceptable(d)
    <3>1. d.count \in Nat /\ Len(d.samples) \in Nat /\ d.count <= Len(d.samples)
      BY <2>1, DatagramsAssumption DEF Acceptable, get_all_samples, BlocksInside
    <3>2. \A i \in 1 .. d.count : d.samples[i] \in Sent
      BY <3>1 DEF Sent
    <3>3. SubSeq(d.samples, 1, d.count) \in Seq(Sent)
      BY <3>1, <3>2, SubSeqProperties
    <3> QED
      BY <2>1, <3>3 DEF parse_sflow_v5_packet
  <2>2. CASE ~Acceptable(d)
    BY <2>2, EmptySeq DEF parse_sflow_v5_packet
  <2> QED
    BY <2>1, <2>2
<1> QED
  BY <1>1, <1>2 DEF SampledInv, ReadingInv, HandedInv

\* Steps that start no flow sample.
LEMMA AsideKeepsSampled ==
    ASSUME SampledInv, receive_nothing \/ skip_sample \/ process_sflow_counter_sample
    PROVE  SampledInv'
<1>1. UNCHANGED <<current, records, packet, last>> /\ current = NoSample
  BY DEF receive_nothing, skip_sample, process_sflow_counter_sample, Waiting
<1>2. samples' \in Seq(Sent)
  BY SampleTaken DEF SampledInv, receive_nothing, skip_sample, process_sflow_counter_sample
<1> QED
  BY <1>1, <1>2 DEF SampledInv, ReadingInv, HandedInv

\* The packet is handed over when the last record has been read.
LEMMA HandOverKeepsSampled ==
    ASSUME SampledInv, hand_over
    PROVE  SampledInv'
<1>1. /\ current # NoSample /\ records = << >> /\ current' = NoSample /\ samples' = samples
      /\ last' = [sample |-> current, packet |-> packet]
  BY DEF hand_over
<1>2. current.count \in Nat /\ SaysRecords(packet, current, Position)
  BY <1>1 DEF SampledInv, ReadingInv, Readable
<1>3. Position = current.count
  <2>1. Len(records) = 0
    BY <1>1, EmptySeq
  <2> QED
    BY <1>2, <2>1 DEF Position
<1>4. HandedInv'
  BY <1>1, <1>2, <1>3 DEF HandedInv
<1> QED
  BY <1>1, <1>4 DEF SampledInv, ReadingInv

\* The invariant says of the last packet what the property asks.
LEMMA HandedIsSampled == HandedInv => PacketsAreWhatWasSampled
<1> SUFFICES ASSUME HandedInv, last.sample # NoSample
             PROVE  LET s   == last.sample
                        p   == last.packet
                        raw == {i \in 1 .. s.count : s.records[i].type = "raw"}
                    IN  /\ Cardinality(raw) = 1 => \A i \in raw : SaysFrame(p, s, s.records[i])
                        /\ SaysGateway(p, s, s.count)
  BY DEF PacketsAreWhatWasSampled
<1> DEFINE s   == last.sample
           p   == last.packet
           raw == {i \in 1 .. s.count : s.records[i].type = "raw"}
<1>1. s.count \in Nat /\ SaysRecords(p, s, s.count)
  BY DEF HandedInv
<1>2. ASSUME Cardinality(raw) = 1, NEW i \in raw PROVE SaysFrame(p, s, s.records[i])
  <2>1. IsFiniteSet(raw)
    <3>1. IsFiniteSet(1 .. s.count)
      BY <1>1, FS_Interval
    <3>2. raw \subseteq 1 .. s.count
      OBVIOUS
    <3> QED
      BY <3>1, <3>2, FS_Subset
  <2>2. \E x : raw = {x}
    BY <1>2, <2>1, FS_Singleton
  <2>3. \A j \in 1 .. s.count : IsRaw(s, j) => j = i
    BY <2>2 DEF IsRaw
  <2>4. i \in 1 .. s.count /\ IsRaw(s, i)
    BY DEF IsRaw
  <2> QED
    BY <1>1, <2>3, <2>4 DEF SaysRecords
<1>3. SaysGateway(p, s, s.count)
  BY <1>1 DEF SaysRecords
<1> QED
  BY <1>2, <1>3

\* Whatever datagrams arrive, in any number and order, a packet handed to process_packet says of
\* its flow sample what the wire format means and nothing of the samples read before it: frame,
\* sampling rate, ports in either header encoding, AS numbers of the sample's last IPv4 gateway
\* record, and transport ports only where the frame carries them.
THEOREM PacketsSaySamples == SflowSpec => []PacketsAreWhatWasSampled
<1>1. SflowInit => SampledInv
  BY EmptySeq DEF SflowInit, SampledInv, ReadingInv, HandedInv
<1>2. SampledInv /\ [SflowNext]_sflowVars => SampledInv'
  <2> SUFFICES ASSUME SampledInv, [SflowNext]_sflowVars PROVE SampledInv'
    OBVIOUS
  <2>1. CASE UNCHANGED sflowVars
    BY <2>1 DEF sflowVars, SampledInv, ReadingInv, HandedInv, Position
  <2> QED
    BY <2>1, AsideKeepsSampled, DatagramKeepsSampled, StartKeepsSampled, RawKeepsSampled, GatewayKeepsSampled,
       OtherRecordKeepsSampled, HandOverKeepsSampled DEF SflowNext
<1>3. SampledInv => PacketsAreWhatWasSampled
  BY HandedIsSampled DEF SampledInv
<1> QED
  BY <1>1, <1>2, <1>3, PTL DEF SflowSpec
=============================================================================
