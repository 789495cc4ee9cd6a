---------------------------- MODULE FlowSpecCodec ----------------------------
(***************************************************************************)
(* From an attack to the bytes GoBGP is given and back: the rule builder   *)
(* (src/src/actions/gobgp_flowspec_rule_builder.cpp), the rule key of the  *)
(* lifecycle table, and the encoder and the decoder of FlowSpec NLRIs and  *)
(* path attributes (src/src/bgp_protocol_flow_spec.cpp, bgp_protocol.cpp). *)
(*                                                                         *)
(* A buffer is a sequence of octets.  The encoder is one operator, the     *)
(* decoder reads one component or one value of a list per step, as its two *)
(* loops do.  A path attribute is a record; rates are below 2^24, where    *)
(* the float of the traffic-rate community is exact.                       *)
(***************************************************************************)
EXTENDS FlowSpecRule

CONSTANTS
    Rules,          \* the rules handed to the encoder
    Foreign,        \* NLRIs, with their length octet, of other BGP speakers
    MaxValues,      \* values read of one list, 100 in the code
    BufferSize,     \* of the NLRI, 2048 in the code
    Refused,        \* what a function that returns false gives
    NoBuffer

VARIABLES
    encoded,        \* the rule of the current announcement and its buffers
    decoder,        \* flow_spec_decode_nlri_value on the NLRI of it
    paths           \* history: what GoBGP was given

codecVars == <<encoded, decoder, paths>>

(***************************************************************************)
(* The types of flow_spec_rule_t as far as they are encoded.               *)
(***************************************************************************)
Subnets == [subnet_address : Octets(4), cidr_prefix_length : 0 .. 32]

ActionTypes ==
    {"FLOW_SPEC_ACTION_DISCARD", "FLOW_SPEC_ACTION_ACCEPT", "FLOW_SPEC_ACTION_RATE_LIMIT",
     "FLOW_SPEC_ACTION_REDIRECT", "FLOW_SPEC_ACTION_REDIRECT_VRF", "FLOW_SPEC_ACTION_MARK"}

Actions ==
    [type : ActionTypes, rate_limit : Nat, redirect_as : Uint16, redirect_value : Nat,
     redirect_rt_as : Nat, redirect_rt_value : Nat]

WellTyped(rule) ==
    /\ DOMAIN rule = DOMAIN EmptyRule
    /\ \A f \in {"destination_subnet_ipv4", "source_subnet_ipv4"} :
           rule[f] \in Seq(Subnets) /\ Len(rule[f]) <= 1
    /\ rule.protocols \in Seq(Uint8)
    /\ \A f \in {"source_ports", "destination_ports", "packet_lengths"} : rule[f] \in Seq(Uint16)
    /\ rule.tcp_flags \in Seq(SUBSET TcpFlags)
    /\ rule.fragmentation_flags \in Seq(FragmentTypes)
    /\ rule.ipv4_nexthops \in Seq(Octets(4))
    /\ rule.action \in Actions

Keys == [destination_ipv4 : Octets(4), protocol : Seq(Uint8), destination_port : Seq(Uint16)]

Communities ==
    [kind : {"traffic_rate"}, rate : Nat]
        \cup [kind : {"redirect_as_2byte", "redirect_as_4byte"}, as : Nat, value : Nat]
        \cup [kind : {"redirect_ipv4"}, next_hop : Octets(4)]

\* The buffer has room for a prefix, a protocol and a port.
ASSUME CodecAssumption ==
    /\ \A rule \in Rules : WellTyped(rule)
    /\ \A mp \in Foreign : mp \in Seq(Uint8) /\ mp # << >>
    /\ MaxValues \in Nat \ {0}
    /\ BufferSize \in Nat /\ BufferSize >= 13

\* What stands for a result that is not there is none of the results.
ASSUME NoResultAssumption ==
    /\ Refused \notin Keys /\ Refused \notin Communities /\ Refused \notin Seq(Uint8)
    /\ NoBuffer \notin Communities /\ NoBuffer \notin Seq(Uint8)
    /\ Refused # NoBuffer

-----------------------------------------------------------------------------
(* Building *)

ICMP == 1
TCPProtocol == 6
UDP == 17

\* parse_gobgp_flowspec_redirect_rt, once both numbers are read.
RouteTargetValid(asn, value) == asn < 2 ^ 16 \/ value < 2 ^ 16

\* port is a sequence of at most one port; a protocol the switch
\* does not know gives a rule for the whole victim.
build_gobgp_flowspec_ipv4_rule(address, protocol, redirect_ipv4, port, type, rt_as, rt_value) ==
    [EmptyRule EXCEPT
        !.destination_subnet_ipv4 = <<[subnet_address |-> address, cidr_prefix_length |-> 32]>>,
        !.action = [Accept EXCEPT !.type = type, !.redirect_rt_as = rt_as, !.redirect_rt_value = rt_value],
        !.ipv4_nexthops = IF type = "FLOW_SPEC_ACTION_REDIRECT" THEN <<redirect_ipv4>> ELSE << >>,
        !.protocols = IF protocol \in {ICMP, TCPProtocol, UDP} THEN <<protocol>> ELSE << >>,
        !.destination_ports = IF protocol \in {TCPProtocol, UDP} THEN port ELSE << >>]

\* A mutant: one key for all ports of a protocol.
KeyWithoutPort(rule) ==
    [destination_ipv4 |-> rule.destination_subnet_ipv4[1].subnet_address,
     protocol |-> rule.protocols, destination_port |-> << >>]

\* The key is refused for a rule it cannot stand for.
build_gobgp_flowspec_rule_key(rule) ==
    IF /\ Len(rule.destination_subnet_ipv4) = 1
       /\ rule.destination_subnet_ipv4[1].cidr_prefix_length = 32
       /\ Len(rule.protocols) <= 1
       /\ Len(rule.destination_ports) <= Len(rule.protocols)
    THEN [destination_ipv4 |-> rule.destination_subnet_ipv4[1].subnet_address,
          protocol |-> rule.protocols, destination_port |-> rule.destination_ports]
    ELSE Refused

-----------------------------------------------------------------------------
(* Encoding *)

\* FLOW_SPEC_ENTITY_TYPES.
DESTINATION_PREFIX == 1
SOURCE_PREFIX      == 2
IP_PROTOCOL        == 3
DESTINATION_PORT   == 5
SOURCE_PORT        == 6
TCP_FLAGS          == 9
PACKET_LENGTH      == 10
FRAGMENT           == 12

\* The bits of bgp_flow_spec_operator_byte_t; the bitmask operator has its match
\* bit where this one has equal, and its not bit where this one has greater_than.
EndOfList    == 2 ^ 7
AndBit       == 2 ^ 6
TwoBytes     == 2 ^ 4
LengthBits   == 2 ^ 5 + 2 ^ 4
LessThan     == 2 ^ 2
GreaterThan  == 2
Equal        == 1

Has(octet, bit) == (octet \div bit) % 2 = 1

\* Bytes of an address that belong to a prefix.
how_much_bytes_we_need(length) == (length + 7) \div 8

encode_bgp_subnet_encoding(prefix) ==
    <<prefix.cidr_prefix_length>> \o
    SubSeq(Masked(prefix.subnet_address, prefix.cidr_prefix_length), 1,
           how_much_bytes_we_need(prefix.cidr_prefix_length))

\* The values of a list as octets, one or two in network order.
OneByte(values) == [i \in DOMAIN values |-> <<values[i]>>]
NetworkOrder(values) == [i \in DOMAIN values |-> <<values[i] \div 256, values[i] % 256>>]

\* A component: its type and each value behind an operator byte.
Component(type, operator, octets) ==
    IF octets = << >> THEN << >>
    ELSE <<type>> \o FlattenSeq([i \in DOMAIN octets |->
             <<operator + (IF i = Len(octets) THEN EndOfList ELSE 0)>> \o octets[i]])

PrefixComponent(type, subnet) ==
    IF subnet = << >> THEN << >> ELSE <<type>> \o encode_bgp_subnet_encoding(subnet[1])

\* The bits of bgp_flowspec_one_byte_byte_encoded_tcp_flags_t and of
\* bgp_flow_spec_fragmentation_entity_t.
flag_bit == [fin |-> 1, syn |-> 2, rst |-> 4, psh |-> 8, ack |-> 16, urg |-> 32]
fragment_bit ==
    [FLOW_SPEC_DONT_FRAGMENT |-> 1, FLOW_SPEC_IS_A_FRAGMENT |-> 2, FLOW_SPEC_FIRST_FRAGMENT |-> 4,
     FLOW_SPEC_LAST_FRAGMENT |-> 8, FLOW_SPEC_NOT_A_FRAGMENT |-> 0]

return_in_one_byte_encoding(flagset) == MapThenSumSet(LAMBDA flag : flag_bit[flag], flagset)

encode_bgp_flow_spec_elements_as_mp_nlri(rule) ==
    LET nlri ==
               PrefixComponent(DESTINATION_PREFIX, rule.destination_subnet_ipv4)
            \o PrefixComponent(SOURCE_PREFIX, rule.source_subnet_ipv4)
            \o Component(IP_PROTOCOL, Equal, OneByte(rule.protocols))
            \o Component(DESTINATION_PORT, Equal + TwoBytes, NetworkOrder(rule.destination_ports))
            \o Component(SOURCE_PORT, Equal + TwoBytes, NetworkOrder(rule.source_ports))
            \o Component(TCP_FLAGS, 0, OneByte([i \in DOMAIN rule.tcp_flags |->
                                                   return_in_one_byte_encoding(rule.tcp_flags[i])]))
            \o Component(PACKET_LENGTH, Equal + TwoBytes, NetworkOrder(rule.packet_lengths))
            \o Component(FRAGMENT, 0, OneByte([i \in DOMAIN rule.fragmentation_flags |->
                                                  fragment_bit[rule.fragmentation_flags[i]]]))
    IN  IF {} \in ToSet(rule.tcp_flags) \/ Len(nlri) > BufferSize THEN Refused ELSE nlri

\* Without the preamble, as GoBGP wants it.  The length is an octet before it
\* is compared with 240.
encode_bgp_flow_spec_elements_into_bgp_mp_attribute(rule) ==
    LET nlri == encode_bgp_flow_spec_elements_as_mp_nlri(rule)
    IN  IF nlri = Refused THEN Refused
        ELSE IF Len(nlri) % 256 >= 240 THEN Refused
        ELSE <<Len(nlri) % 256>> \o nlri

\* The communities of the path attributes.
RateCommunity(rate) == [kind |-> "traffic_rate", rate |-> rate]
TargetCommunity(asn, value) ==
    [kind |-> IF asn < 2 ^ 16 THEN "redirect_as_2byte" ELSE "redirect_as_4byte", as |-> asn, value |-> value]
NextHopCommunity(ipv4) == [kind |-> "redirect_ipv4", next_hop |-> ipv4]

encode_bgp_flow_spec_action_as_extended_attribute(action) ==
    CASE action.type = "FLOW_SPEC_ACTION_DISCARD"    -> RateCommunity(0)
      [] action.type = "FLOW_SPEC_ACTION_RATE_LIMIT" -> RateCommunity(action.rate_limit)
      [] action.type = "FLOW_SPEC_ACTION_REDIRECT"   ->
             TargetCommunity(action.redirect_as, action.redirect_value)
      [] action.type = "FLOW_SPEC_ACTION_REDIRECT_VRF" ->
             IF RouteTargetValid(action.redirect_rt_as, action.redirect_rt_value)
             THEN TargetCommunity(action.redirect_rt_as, action.redirect_rt_value) ELSE Refused
      [] OTHER -> Refused

\* The extended community of build_attributes_for_gobgp_flowspec_announce, after
\* the origin and the next hop carrier that are always there.
build_attributes_for_gobgp_flowspec_announce(rule) ==
    CASE rule.action.type \in {"FLOW_SPEC_ACTION_DISCARD", "FLOW_SPEC_ACTION_REDIRECT_VRF"} ->
             encode_bgp_flow_spec_action_as_extended_attribute(rule.action)
      [] rule.action.type \in {"FLOW_SPEC_ACTION_REDIRECT", "FLOW_SPEC_ACTION_ACCEPT"}
             /\ Len(rule.ipv4_nexthops) = 1 ->
             NextHopCommunity(rule.ipv4_nexthops[1])
      [] OTHER -> Refused

\* build_attributes_for_flowspec_announce, which carries the NLRI itself: an
\* accepting rule needs no community.
build_attributes_for_flowspec_announce(rule) ==
    IF rule.action.type # "FLOW_SPEC_ACTION_ACCEPT"
    THEN encode_bgp_flow_spec_action_as_extended_attribute(rule.action)
    ELSE IF rule.ipv4_nexthops # << >> THEN NextHopCommunity(rule.ipv4_nexthops[1])
    ELSE NoBuffer

-----------------------------------------------------------------------------
(* Decoding *)

Idle == [at |-> "idle", cursor |-> 1, length |-> 0, type |-> 0, items |-> << >>, rule |-> EmptyRule,
         touched |-> 0]

\* What is read behind the end of the buffer is anything; 0 will do.
Octet(octets, i) == IF i \in DOMAIN octets THEN octets[i] ELSE 0

Left(d) == d.length + 1 - d.cursor
Touch(d, last) == [d EXCEPT !.touched = IF last > @ THEN last ELSE @]
Refuse(d) == [d EXCEPT !.at = "refused"]

\* decode_bgp_subnet_encoding_ipv4 behind the type; a second prefix of a kind is
\* refused.
decode_prefix(d, octets, field) ==
    LET at     == Touch(d, d.cursor + 1)
        length == Octet(octets, d.cursor + 1)
        bytes  == how_much_bytes_we_need(length)
        full   == Touch(at, d.cursor + 1 + bytes)
        address == [i \in 1 .. 4 |-> IF i <= bytes THEN Octet(octets, d.cursor + 1 + i) ELSE 0]
    IN  IF d.rule[field] # << >> \/ Left(d) < 2 THEN Refuse(d)
        ELSE IF length > 32 \/ Left(d) < 2 + bytes THEN Refuse(at)
        ELSE [full EXCEPT
                 !.cursor = @ + 2 + bytes,
                 !.rule[field] = <<[subnet_address |-> Masked(address, length),
                                    cidr_prefix_length |-> length]>>]

\* One turn of the loop of flow_spec_decode_nlri_value, up to the values.
DecodeType(d, octets) ==
    LET type == Octet(octets, d.cursor)
        at   == Touch(d, d.cursor)
    IN  CASE type = SOURCE_PREFIX      -> decode_prefix(at, octets, "source_subnet_ipv4")
          [] type = DESTINATION_PREFIX -> decode_prefix(at, octets, "destination_subnet_ipv4")
          [] type \in {IP_PROTOCOL, DESTINATION_PORT, SOURCE_PORT, TCP_FLAGS, PACKET_LENGTH, FRAGMENT} ->
                 [at EXCEPT !.at = "value", !.cursor = @ + 1, !.type = type, !.items = << >>]
          [] OTHER -> Refuse(at)

\* convert_one_byte_encoding_to_flowset and the tests of the fragment bits.
convert_one_byte_encoding_to_flowset(octet) == {flag \in TcpFlags : Has(octet, flag_bit[flag])}
FragmentsOf(octet) ==
    LET If(type) == IF Has(octet, fragment_bit[type]) THEN <<type>> ELSE << >>
        set == If("FLOW_SPEC_LAST_FRAGMENT") \o If("FLOW_SPEC_FIRST_FRAGMENT")
               \o If("FLOW_SPEC_IS_A_FRAGMENT") \o If("FLOW_SPEC_DONT_FRAGMENT")
    IN  IF set = << >> THEN <<"FLOW_SPEC_NOT_A_FRAGMENT">> ELSE set

FieldOf(type) ==
    CASE type = IP_PROTOCOL      -> "protocols"
      [] type = DESTINATION_PORT -> "destination_ports"
      [] type = SOURCE_PORT      -> "source_ports"
      [] type = TCP_FLAGS        -> "tcp_flags"
      [] type = PACKET_LENGTH    -> "packet_lengths"
      [] type = FRAGMENT         -> "fragmentation_flags"

\* A two byte value has no place among flags, fragments and protocols.  It keeps
\* a value_length of 0; the value of the other kind is its own two bytes.
ItemReadable(type, item) ==
    /\ type = IP_PROTOCOL => item.value <= 255
    /\ type \in {TCP_FLAGS, FRAGMENT} => item.value_length = 1

AddedValues(type, items) ==
    FlattenSeq([i \in DOMAIN items |->
        CASE type = FRAGMENT -> FragmentsOf(items[i].value)
          [] type = TCP_FLAGS ->
                 LET flagset == convert_one_byte_encoding_to_flowset(items[i].value)
                 IN  IF flagset = {} THEN << >> ELSE <<flagset>>
          [] OTHER -> <<items[i].value>>])

\* What flow_spec_decode_nlri_value does with the items of a list.
ValuesRead(d) ==
    IF \A i \in DOMAIN d.items : ItemReadable(d.type, d.items[i])
    THEN [d EXCEPT !.at = "type", !.items = << >>,
                   !.rule[FieldOf(d.type)] = @ \o AddedValues(d.type, d.items)]
    ELSE Refuse(d)

\* A mutant: a list that is cut is a list.
DecodeCutList(d, octets) ==
    IF Left(d) < 3 THEN ValuesRead([d EXCEPT !.cursor = d.length + 1])
    ELSE LET width == 2 ^ ((Octet(octets, d.cursor) \div TwoBytes) % 4)
             read  == [d EXCEPT !.cursor = @ + 1 + width,
                                !.items = Append(@, [value |-> Octet(octets, d.cursor + width),
                                                     value_length |-> 1])]
         IN  IF Has(Octet(octets, d.cursor), EndOfList) THEN ValuesRead(read) ELSE read

\* One turn of read_one_or_more_values_encoded_with_operator_byte.
DecodeValue(d, octets) ==
    LET operator == Octet(octets, d.cursor)
        width    == 2 ^ ((operator \div TwoBytes) % 4)
        at       == Touch(d, d.cursor)
        first    == Octet(octets, d.cursor + 1)
        item     == IF width = 1 THEN [value |-> first, value_length |-> 1]
                    ELSE [value |-> 256 * first + Octet(octets, d.cursor + 2), value_length |-> 0]
        read     == [Touch(d, d.cursor + width) EXCEPT !.cursor = @ + 1 + width,
                                                       !.items = Append(@, item)]
    IN  IF Left(d) < 1 THEN Refuse(d)
        ELSE IF \/ Has(operator, LessThan) \/ Has(operator, GreaterThan) \/ Has(operator, AndBit)
                \/ width > 2 \/ Left(d) < 1 + width
        THEN Refuse(at)
        ELSE IF Has(operator, EndOfList) \/ Len(read.items) = MaxValues THEN ValuesRead(read)
        ELSE read

\* decode_native_flow_spec_announce_from_binary_encoded_atributes: an unknown
\* community leaves the action as it is, and a rate of zero means discard.
decode_community(community) ==
    CASE community # NoBuffer /\ community.kind = "traffic_rate" ->
           IF community.rate = 0 THEN [Accept EXCEPT !.type = "FLOW_SPEC_ACTION_DISCARD"]
           ELSE [Accept EXCEPT !.type = "FLOW_SPEC_ACTION_RATE_LIMIT", !.rate_limit = community.rate]
      [] community # NoBuffer /\ community.kind = "redirect_as_2byte" ->
           [Accept EXCEPT !.type = "FLOW_SPEC_ACTION_REDIRECT", !.redirect_as = community.as,
                          !.redirect_value = community.value]
      [] OTHER -> Accept

-----------------------------------------------------------------------------
NotEncoded == [rule |-> EmptyRule, nlri |-> NoBuffer, community |-> NoBuffer]

CodecInit == encoded = NotEncoded /\ decoder = Idle /\ paths = {}

\* build_attributes_for_flowspec_announce of a rule, which has no vector of
\* attributes when one of them cannot be encoded.
Encode(rule) ==
    LET mp        == encode_bgp_flow_spec_elements_into_bgp_mp_attribute(rule)
        community == build_attributes_for_flowspec_announce(rule)
    IN  /\ encoded = NotEncoded
        /\ mp # Refused /\ community # Refused
        /\ encoded' = [rule |-> rule, nlri |-> mp, community |-> community]
        /\ UNCHANGED <<decoder, paths>>

\* The path AnnounceFlowSpecIPv4 gives GoBGP for a rule of the lifecycle table.
AnnounceFlowSpecIPv4(rule) ==
    [key |-> build_gobgp_flowspec_rule_key(rule), rule |-> rule,
     nlri |-> encode_bgp_flow_spec_elements_into_bgp_mp_attribute(rule),
     community |-> build_attributes_for_gobgp_flowspec_announce(rule)]

\* A path arrives at a speaker: one of ours, or anybody's octets.
Deliver(path) ==
    /\ encoded = NotEncoded
    /\ encoded' = [rule |-> path.rule, nlri |-> path.nlri, community |-> path.community]
    /\ UNCHANGED <<decoder, paths>>

Receive(mp) == Deliver([rule |-> Refused, nlri |-> mp, community |-> NoBuffer])

\* Somebody decodes an NLRI; its length octet may say less than there is.  240
\* and more announce a length of two octets, which is not supported.
StartDecoding(length) ==
    /\ encoded # NotEncoded /\ decoder = Idle
    /\ length <= Head(encoded.nlri) /\ length < 240
    /\ decoder' = [Idle EXCEPT !.at = "type", !.length = length]
    /\ UNCHANGED <<encoded, paths>>

decode_component ==
    /\ decoder.at = "type" /\ decoder.cursor <= decoder.length
    /\ decoder' = DecodeType(decoder, Tail(encoded.nlri))
    /\ UNCHANGED <<encoded, paths>>

decode_value ==
    /\ decoder.at = "value"
    /\ decoder' = DecodeValue(decoder, Tail(encoded.nlri))
    /\ UNCHANGED <<encoded, paths>>

decode_end ==
    /\ decoder.at = "type" /\ decoder.cursor > decoder.length
    /\ decoder' = [decoder EXCEPT !.at = "done", !.rule.action = decode_community(encoded.community)]
    /\ UNCHANGED <<encoded, paths>>

Decode == decode_component \/ decode_value \/ decode_end

-----------------------------------------------------------------------------
(* Properties *)

NlriFields == {"destination_subnet_ipv4", "source_subnet_ipv4", "protocols", "destination_ports",
               "source_ports", "tcp_flags", "packet_lengths", "fragmentation_flags"}

\* What is announced of a field: the other bits of a subnet are lost.
AnnouncedField(rule, f) ==
    IF f \in SubnetFields
    THEN [i \in DOMAIN rule[f] |->
             [rule[f][i] EXCEPT !.subnet_address = Masked(@, rule[f][i].cidr_prefix_length)]]
    ELSE rule[f]

\* The action a peer is told: a rate of 0 is a discard, a route target of a 16
\* bit AS a redirect to it; the other communities are not decoded.
AnnouncedAction(rule, community) ==
    LET a == rule.action
    IN  CASE a.type = "FLOW_SPEC_ACTION_DISCARD" \/ (a.type = "FLOW_SPEC_ACTION_RATE_LIMIT" /\ a.rate_limit = 0) ->
               [Accept EXCEPT !.type = "FLOW_SPEC_ACTION_DISCARD"]
          [] a.type = "FLOW_SPEC_ACTION_RATE_LIMIT" /\ a.rate_limit > 0 ->
               [Accept EXCEPT !.type = a.type, !.rate_limit = a.rate_limit]
          [] a.type = "FLOW_SPEC_ACTION_REDIRECT" /\ community.kind # "redirect_ipv4" ->
               [Accept EXCEPT !.type = a.type, !.redirect_as = a.redirect_as,
                              !.redirect_value = a.redirect_value]
          [] a.type = "FLOW_SPEC_ACTION_REDIRECT_VRF" /\ a.redirect_rt_as < 2 ^ 16 ->
               [Accept EXCEPT !.type = "FLOW_SPEC_ACTION_REDIRECT", !.redirect_as = a.redirect_rt_as,
                              !.redirect_value = a.redirect_rt_value]
          [] OTHER -> Accept

(***************************************************************************)
(* The rule that is announced is the rule a peer reads: an NLRI the        *)
(* encoder gave is decoded to the end, to the same lists in the same order,*)
(* the same prefixes and the same action; when its length octet is cut,    *)
(* the decoder gives up, or every field it read is whole and the fields    *)
(* behind it are missing, never a shorter list or another prefix.  No      *)
(* octet behind the length the decoder was given is read meanwhile.        *)
(***************************************************************************)
AnnouncedRuleReadsBack ==
    /\ decoder.touched <= decoder.length
    /\ (/\ encoded # NotEncoded /\ encoded.rule # Refused /\ decoder.at \in {"done", "refused"}
        /\ \A f \in NlriFields : Len(encoded.rule[f]) <= MaxValues) =>
        LET whole == decoder.length = Len(encoded.nlri) - 1
            read  == {f \in NlriFields : decoder.rule[f] # << >>}
        IN  /\ whole => decoder.at = "done"
            /\ decoder.at = "done" =>
                   /\ \A f \in IF whole THEN NlriFields ELSE read :
                          decoder.rule[f] = AnnouncedField(encoded.rule, f)
                   /\ decoder.rule.action = AnnouncedAction(encoded.rule, encoded.community)

(***************************************************************************)
(* GoBGP tells paths apart by their NLRI, the lifecycle table rules by     *)
(* their key.  Every rule a capture can lead to has a key, an NLRI and a   *)
(* community, and two of them have one path exactly when they have one key.*)
(***************************************************************************)
KeysIdentifyPaths ==
    /\ \A p \in paths : Refused \notin {p.key, p.nlri, p.community}
    /\ \A p, q \in paths : p.key = q.key <=> p.nlri = q.nlri
=============================================================================
