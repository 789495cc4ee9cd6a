----------------------------- MODULE Whitelist -----------------------------
(***************************************************************************)
(* The FlowSpec based whitelist.  load_whitelist_rules (src/src/           *)
(* fastnetmon.cpp) reads one JSON rule per line of the whitelist file,     *)
(* logs the rule it understood and keeps it; process_packet then drops     *)
(* every packet of ours that a rule matches (src/src/filter.cpp).          *)
(*                                                                         *)
(* A JSON document is a function from its keys to their values: a list, an *)
(* action, or Malformed for a value of another type.  The text of a        *)
(* protocol is the pair <<"name", number>>; a flag string is a set of      *)
(* words.                                                                  *)
(***************************************************************************)
EXTENDS FlowSpecRule

CONSTANTS
    Lines,          \* the lines a whitelist file may have
    MaxLines,       \* bound: lines of one file
    Seen,           \* the packets process_packet asks about
    Malformed,      \* a JSON value of the wrong type
    NoRule,         \* what a document that cannot be read gives
    NoPacketYet,
    MaxUint32       \* 2^32 - 1 in the code

VARIABLES
    whitelist_rules_json,  \* the lines of the file
    lines_read,     \* how many of them load_whitelist_rules has dealt with
    static_flowspec_based_whitelist,
    logged,         \* the rules as load_whitelist_rules prints them
    filtered        \* the last packet and whether a rule matched it

\* What a JSON document can hold: per list the values of its elements, a text that
\* names no protocol being a name of a number above 255, and a prefix or not.
Elements(key) ==
    CASE key = "protocols"                           -> {"name"} \X Nat
      [] key = "fragmentation_flags"                 -> STRING
      [] key = "tcp_flags"                           -> SUBSET STRING
      [] key \in {"ipv4_nexthops", "agent_addresses"} -> Octets(4) \cup {Malformed}
      [] OTHER                                       -> Int

PrefixValues ==
    [version : {4}, octets : Octets(4), length : 0 .. 32]
        \cup [version : {6}, octets : Octets(16), length : 0 .. 128]

PrefixKeys == {"source_prefix", "destination_prefix"}

ASSUME MaxLinesAssumption == MaxLines \in Nat

\* A malformed value is none of the others.
ASSUME LinesAssumption ==
    /\ Malformed \notin PrefixValues
    /\ \A key \in VectorFields : Malformed \notin Seq(Elements(key))
    /\ \A line \in Lines :
           /\ \A key \in DOMAIN line \cap VectorFields :
                  line[key] # Malformed => line[key] \in Seq(Elements(key))
           /\ \A key \in DOMAIN line \cap PrefixKeys :
                  line[key] # Malformed => line[key] \in PrefixValues

\* The fields of simple_packet_t the filter compares with numbers and addresses.
ASSUME SeenAssumption ==
    \A p \in Seen :
        /\ p.src_ip \in Octets(4) /\ p.dst_ip \in Octets(4)
        /\ p.src_ipv6 \in Octets(16) /\ p.dst_ipv6 \in Octets(16)
        /\ p.length \in Nat /\ p.ip_length \in Nat /\ p.vlan \in 0 .. 2 ^ 16 - 1

whitelistVars == <<whitelist_rules_json, lines_read, static_flowspec_based_whitelist, logged, filtered>>

NotFiltered == [packet |-> NoPacketYet, matched |-> FALSE]

-----------------------------------------------------------------------------
(* Reading a rule *)

\* flow_spec_fragmentation_flags_to_string and the flags and actions alike.
fragment_name ==
    [FLOW_SPEC_DONT_FRAGMENT  |-> "dont-fragment",  FLOW_SPEC_IS_A_FRAGMENT  |-> "is-fragment",
     FLOW_SPEC_FIRST_FRAGMENT |-> "first-fragment", FLOW_SPEC_LAST_FRAGMENT  |-> "last-fragment",
     FLOW_SPEC_NOT_A_FRAGMENT |-> "not-a-fragment"]

flag_name == [syn |-> "syn", ack |-> "ack", fin |-> "fin", rst |-> "rst", urg |-> "urgent", psh |-> "push"]

action_name ==
    [FLOW_SPEC_ACTION_ACCEPT |-> "accept", FLOW_SPEC_ACTION_DISCARD |-> "discard",
     FLOW_SPEC_ACTION_RATE_LIMIT |-> "rate-limit", FLOW_SPEC_ACTION_REDIRECT |-> "redirect",
     FLOW_SPEC_ACTION_REDIRECT_VRF |-> "redirect-vrf", FLOW_SPEC_ACTION_MARK |-> "mark"]

\* get_ip_protocol_name and read_protocol_from_string: 256 different names.
get_ip_protocol_name(protocol) == <<"name", protocol>>
ProtocolNames == {get_ip_protocol_name(protocol) : protocol \in 0 .. 255}

\* The enumerator whose text this is.
Named(names, text) == CHOOSE e \in DOMAIN names : names[e] = text

valid_port(port) == port \in 0 .. 65535

\* The check an element of a list has to pass.
Readable(key, v) ==
    CASE key \in {"source_ports", "destination_ports"} -> valid_port(v)
      [] key = "packet_lengths"      -> v \in 0 .. 1500
      [] key = "vlans"               -> v >= 0
      [] key \in {"source_asns", "destination_asns", "input_interfaces", "output_interfaces"} ->
             v \in 0 .. MaxUint32
      [] key = "protocols"           -> v \in ProtocolNames
      [] key = "fragmentation_flags" -> v \in {fragment_name[t] : t \in DOMAIN fragment_name}
      [] key = "tcp_flags"           -> v # {} /\ v \subseteq {flag_name[t] : t \in DOMAIN flag_name}
      [] key \in {"ipv4_nexthops", "agent_addresses"} -> v # Malformed
      [] OTHER                       -> TRUE

\* What the rule keeps of it: a VLAN has 16 bits and a TTL 8.
Stored(key, v) ==
    CASE key = "vlans"               -> v % 2 ^ 16
      [] key = "ttls"                -> v % 2 ^ 8
      [] key = "protocols"           -> v[2]
      [] key = "fragmentation_flags" -> Named(fragment_name, v)
      [] key = "tcp_flags"           -> {Named(flag_name, word) : word \in v}
      [] OTHER                       -> v

\* The prefix of a document goes to the IPv6 subnet if it has a colon.
Subnet(doc, key, version) ==
    IF key \in DOMAIN doc /\ doc[key].version = version
    THEN <<[subnet_address |-> doc[key].octets, cidr_prefix_length |-> doc[key].length]>>
    ELSE << >>

\* The action section, mandatory when it is asked for.
ActionReadable(doc) ==
    LET has(key) == "action" \in DOMAIN doc /\ key \in DOMAIN doc.action /\ doc.action[key] # Malformed
    IN  /\ "action_type" \in DOMAIN doc
        /\ doc.action_type \in {action_name[t] : t \in DOMAIN action_name}
        /\ doc.action_type = "rate-limit" /\ "action" \in DOMAIN doc => has("rate") /\ doc.action.rate >= 0
        /\ doc.action_type = "redirect" => has("redirect_target_as") /\ has("redirect_target_value")

ActionOf(doc) ==
    LET bare == [Accept EXCEPT !.type = Named(action_name, doc.action_type)]
    IN  CASE doc.action_type = "rate-limit" /\ "action" \in DOMAIN doc ->
               [bare EXCEPT !.rate_limit = doc.action.rate]
          [] doc.action_type = "redirect" ->
               [bare EXCEPT !.redirect_as = doc.action.redirect_target_as % 2 ^ 16,
                            !.redirect_value = doc.action.redirect_target_value]
          [] OTHER -> bare

\* A key the reader does not know is ignored; one unreadable part makes the whole document unreadable.
read_flow_spec_from_json_to_native_format(doc, require_action) ==
    IF /\ \A key \in DOMAIN doc \ {"action", "action_type"} : doc[key] # Malformed
       /\ \A key \in DOMAIN doc \cap VectorFields : \A i \in DOMAIN doc[key] : Readable(key, doc[key][i])
       /\ require_action => ActionReadable(doc)
    THEN [f \in DOMAIN EmptyRule |->
             CASE f = "source_subnet_ipv4"      -> Subnet(doc, "source_prefix", 4)
               [] f = "source_subnet_ipv6"      -> Subnet(doc, "source_prefix", 6)
               [] f = "destination_subnet_ipv4" -> Subnet(doc, "destination_prefix", 4)
               [] f = "destination_subnet_ipv6" -> Subnet(doc, "destination_prefix", 6)
               [] f = "action" -> IF require_action THEN ActionOf(doc) ELSE Accept
               [] OTHER -> IF f \in DOMAIN doc
                           THEN [i \in DOMAIN doc[f] |-> Stored(f, doc[f][i])] ELSE << >>]
    ELSE NoRule

-----------------------------------------------------------------------------
(* Printing a rule *)

Text(key, v) ==
    CASE key = "protocols"           -> get_ip_protocol_name(v)
      [] key = "fragmentation_flags" -> fragment_name[v]
      [] key = "tcp_flags"           -> {flag_name[flag] : flag \in v}
      [] OTHER                       -> v

TCP == 6

\* A mutant: a field is forgotten.
PrintedWithoutVlans(rule) ==
    {key \in VectorFields : rule[key] # << >>}
        \ (IF TCP \in ToSet(rule.protocols) THEN {"vlans"} ELSE {"vlans", "tcp_flags"})

\* The TCP flags are printed only if TCP is among the protocols, and of two
\* subnets the IPv4 one.
PrintedVectors(rule) ==
    {key \in VectorFields : rule[key] # << >>}
        \ (IF TCP \in ToSet(rule.protocols) THEN {} ELSE {"tcp_flags"})

PrintedPrefix(ipv4, ipv6) ==
    IF ipv4 # << >>
    THEN [version |-> 4, octets |-> ipv4[1].subnet_address, length |-> ipv4[1].cidr_prefix_length]
    ELSE [version |-> 6, octets |-> ipv6[1].subnet_address, length |-> ipv6[1].cidr_prefix_length]

PrintedAction(action) ==
    IF action.type = "FLOW_SPEC_ACTION_RATE_LIMIT" THEN [rate |-> action.rate_limit]
    ELSE [redirect_target_as |-> action.redirect_as, redirect_target_value |-> action.redirect_value]

encode_flow_spec_to_json_raw(rule) ==
    LET prefixes ==
            {key \in {"source_prefix", "destination_prefix"} :
                IF key = "source_prefix" THEN rule.source_subnet_ipv4 \o rule.source_subnet_ipv6 # << >>
                ELSE rule.destination_subnet_ipv4 \o rule.destination_subnet_ipv6 # << >>}
        actions ==
            {"action_type"} \cup
            (IF rule.action.type \in {"FLOW_SPEC_ACTION_RATE_LIMIT", "FLOW_SPEC_ACTION_REDIRECT"}
             THEN {"action"} ELSE {})
    IN  [key \in prefixes \cup PrintedVectors(rule) \cup actions |->
            CASE key = "source_prefix" ->
                     PrintedPrefix(rule.source_subnet_ipv4, rule.source_subnet_ipv6)
              [] key = "destination_prefix" ->
                     PrintedPrefix(rule.destination_subnet_ipv4, rule.destination_subnet_ipv6)
              [] key = "action_type" -> action_name[rule.action.type]
              [] key = "action" -> PrintedAction(rule.action)
              [] OTHER -> [i \in DOMAIN rule[key] |-> Text(key, rule[key][i])]]

-----------------------------------------------------------------------------
(* Filtering *)

\* A mutant: flags a rule cannot name are kept.
FlagsAsSent(flags) == flags

\* uint8t_representation_of_tcp_flags_to_flow_spec.
flagset(flags) == flags \cap TcpFlags

\* A vector without elements matches everything.
Unless(vector, matches) == vector = << >> \/ matches

\* /32 and /128 are compared, a shorter IPv4 subnet is looked up, a shorter
\* IPv6 one is not supported.
AddressMatches(ipv4, ipv6, octets4, octets6) ==
    IF ipv4 # << >>
    THEN IF ipv4[1].cidr_prefix_length = 32
         THEN ipv4[1] = [subnet_address |-> octets4, cidr_prefix_length |-> 32]
         ELSE InSubnet(octets4, ipv4[1])
    ELSE Unless(ipv6, ipv6[1] = [subnet_address |-> octets6, cidr_prefix_length |-> 128])

FragmentMatches(rule, p) ==
    \E i \in DOMAIN rule.fragmentation_flags :
        \/ rule.fragmentation_flags[i] = "FLOW_SPEC_DONT_FRAGMENT" /\ p.ip_dont_fragment
        \/ rule.fragmentation_flags[i] = "FLOW_SPEC_IS_A_FRAGMENT" /\ p.ip_fragmented

\* Lengths are compared as 16 bit numbers; 65635 is the bound in the code.
LengthMatches(rule, p) ==
    /\ p.length <= 65635
    /\ {p.length % 2 ^ 16, p.ip_length % 2 ^ 16} \cap ToSet(rule.packet_lengths) # {}

filter_packet_by_flowspec_rule(p, rule) ==
    /\ Unless(rule.source_ports, p.source_port \in ToSet(rule.source_ports))
    /\ Unless(rule.destination_ports, p.destination_port \in ToSet(rule.destination_ports))
    /\ Unless(rule.protocols, p.protocol <= 255 /\ p.protocol \in ToSet(rule.protocols))
    /\ AddressMatches(rule.source_subnet_ipv4, rule.source_subnet_ipv6, p.src_ip, p.src_ipv6)
    /\ AddressMatches(rule.destination_subnet_ipv4, rule.destination_subnet_ipv6, p.dst_ip, p.dst_ipv6)
    /\ Unless(rule.fragmentation_flags, FragmentMatches(rule, p))
    /\ Unless(rule.tcp_flags, flagset(p.flags) \in ToSet(rule.tcp_flags))
    /\ Unless(rule.packet_lengths, LengthMatches(rule, p))
    /\ Unless(rule.vlans, p.vlan \in ToSet(rule.vlans))

filter_packet_by_flowspec_rule_list(p, rules) ==
    \E i \in DOMAIN rules : filter_packet_by_flowspec_rule(p, rules[i])

-----------------------------------------------------------------------------
WhitelistInit ==
    /\ whitelist_rules_json \in UNION {[1 .. n -> Lines] : n \in 0 .. MaxLines}
    /\ lines_read = 0
    /\ static_flowspec_based_whitelist = << >>
    /\ logged = << >>
    /\ filtered = NotFiltered

\* One line of load_whitelist_rules.
load_whitelist_rule ==
    LET rule == read_flow_spec_from_json_to_native_format(whitelist_rules_json[lines_read + 1], FALSE)
    IN  /\ lines_read < Len(whitelist_rules_json)
        /\ lines_read' = lines_read + 1
        /\ IF rule = NoRule THEN UNCHANGED <<static_flowspec_based_whitelist, logged>>
           ELSE /\ logged' = Append(logged, encode_flow_spec_to_json_raw(rule))
                /\ static_flowspec_based_whitelist' = Append(static_flowspec_based_whitelist, rule)
        /\ UNCHANGED <<whitelist_rules_json, filtered>>

\* Packets come once the whitelist is loaded.
FilterPacket(p) ==
    /\ lines_read = Len(whitelist_rules_json)
    /\ filtered' = [packet |-> p,
                     matched |-> filter_packet_by_flowspec_rule_list(p, static_flowspec_based_whitelist)]
    /\ UNCHANGED <<whitelist_rules_json, lines_read, static_flowspec_based_whitelist, logged>>

WhitelistNext == load_whitelist_rule \/ \E p \in Seen : FilterPacket(p)

-----------------------------------------------------------------------------
(* Properties *)

\* The first `length` bits of two addresses agree.
Agree(octets, prefix) ==
    LET bit(o, b) == (o[((b - 1) \div 8) + 1] \div 2 ^ (7 - ((b - 1) % 8))) % 2
    IN  \A b \in 1 .. prefix.cidr_prefix_length : bit(octets, b) = bit(prefix.subnet_address, b)

\* What a value in a list of a line says of a packet, as it is written there.
Says(key, v, p) ==
    CASE key = "source_ports"        -> p.source_port = v
      [] key = "destination_ports"   -> p.destination_port = v
      [] key = "protocols"           -> get_ip_protocol_name(p.protocol) = v
      [] key = "vlans"               -> p.vlan = v
      [] key = "packet_lengths"      -> v \in {p.length, p.ip_length}
      [] key = "tcp_flags"           -> {flag_name[flag] : flag \in p.flags \cap TcpFlags} = v
      [] key = "ttls"                -> p.ttl = v
      [] key = "source_asns"         -> p.src_asn = v
      [] key = "destination_asns"    -> p.dst_asn = v
      [] key = "input_interfaces"    -> p.input_interface = v
      [] key = "output_interfaces"   -> p.output_interface = v
      [] key = "agent_addresses"     -> p.agent_ipv4_address = v
      [] key = "fragmentation_flags" ->
             CASE v = "dont-fragment"  -> p.ip_dont_fragment
               [] v = "is-fragment"    -> p.ip_fragmented
               [] v = "first-fragment" -> p.ip_more_fragments /\ p.ip_fragment_offset = 0
               [] v = "last-fragment"  -> p.ip_fragmented /\ ~p.ip_more_fragments
               [] v = "not-a-fragment" -> ~p.ip_fragmented

\* A packet lies in a prefix of a line: its IPv4 or its IPv6 address does.
Within(prefix, octets4, octets6) ==
    Agree(IF prefix.version = 4 THEN octets4 ELSE octets6,
          [subnet_address |-> prefix.octets, cidr_prefix_length |-> prefix.length])

\* The packet is in the prefixes of the line and has a value of each of those lists.
Meets(p, line, lists) ==
    /\ "source_prefix" \in DOMAIN line => Within(line["source_prefix"], p.src_ip, p.src_ipv6)
    /\ "destination_prefix" \in DOMAIN line => Within(line["destination_prefix"], p.dst_ip, p.dst_ipv6)
    /\ \A key \in DOMAIN line \cap lists :
           line[key] # << >> => \E i \in DOMAIN line[key] : Says(key, line[key][i], p)

\* Every list of a line is a condition but the next hops, which belong to the action.
Conditions == VectorFields \ {"ipv4_nexthops"}

\* The extensions the filter never looks at.
Unlooked == {"ttls", "source_asns", "destination_asns", "input_interfaces", "output_interfaces",
             "agent_addresses"}

\* The lists of a line the filter compares as they are written: not the
\* extensions, and not a list of VLANs with one that 16 bits do not hold.
Compared(line) ==
    Conditions \ (Unlooked \cup {key \in {"vlans"} \cap DOMAIN line :
                                     \E i \in DOMAIN line[key] : line[key][i] >= 2 ^ 16})

\* The lines the filter can decide: no fragment type but the two it knows, and
\* no IPv6 prefix but a host.
Decidable(line) ==
    /\ "fragmentation_flags" \in DOMAIN line =>
           ToSet(line["fragmentation_flags"]) \subseteq {"dont-fragment", "is-fragment"}
    /\ \A key \in DOMAIN line \cap PrefixKeys : line[key].version = 6 => line[key].length = 128

(***************************************************************************)
(* A packet that meets everything a line of the file says, with the values *)
(* written there, is kept out of the counters if the filter can decide the *)
(* line and the line could be read.  The other way round, a packet is kept *)
(* out only if some line that could be read covers it: it meets every      *)
(* condition of that line but those filter_packet_by_flowspec_rule does    *)
(* not compare.  For a line without TTLs, AS numbers, interfaces, agent    *)
(* addresses and oversized VLANs nothing is exempt and the two halves say  *)
(* "Returns true when packet matches specific rule" (filter.cpp:20); a     *)
(* line that has one of them is applied to packets it does not describe,   *)
(* against that comment.  (Packet lengths up to 65535.)                    *)
(***************************************************************************)
FilterMatchesReference ==
    filtered # NotFiltered /\ filtered.packet.length < 2 ^ 16 /\ filtered.packet.ip_length < 2 ^ 16 =>
        LET p    == filtered.packet
            used == {line \in ToSet(whitelist_rules_json) :
                        read_flow_spec_from_json_to_native_format(line, FALSE) # NoRule}
        IN  /\ filtered.matched => \E line \in used : Meets(p, line, Compared(line))
            /\ (\E line \in used : Decidable(line) /\ Meets(p, line, Conditions)) => filtered.matched

\* The rule in the log ("Print rule to verify that parser worked correctly")
\* is the rule that is used: read again, it is the same rule, unless its TCP
\* flags were left out because TCP is not among its protocols.
PrintedRuleReadsBack ==
    \A i \in DOMAIN logged :
        LET rule  == static_flowspec_based_whitelist[i]
            again == read_flow_spec_from_json_to_native_format(logged[i], TRUE)
        IN  IF TCP \in ToSet(rule.protocols) THEN again = rule
            ELSE again = [rule EXCEPT !["tcp_flags"] = << >>]
=============================================================================
