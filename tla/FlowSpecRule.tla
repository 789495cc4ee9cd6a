---------------------------- MODULE FlowSpecRule ----------------------------
(***************************************************************************)
(* flow_spec_rule_t of src/src/bgp_protocol_flow_spec.hpp as a value: every *)
(* vector is a sequence, a subnet with its "used" flag is a sequence of at  *)
(* most one prefix.  Addresses are their octets.                           *)
(***************************************************************************)
EXTENDS Integers, SequencesExt

Uint8 == 0 .. 255
Uint16 == 0 .. 65535
Octets(n) == [1 .. n -> 0 .. 255]

SubnetFields ==
    {"source_subnet_ipv4", "destination_subnet_ipv4", "source_subnet_ipv6", "destination_subnet_ipv6"}

VectorFields ==
    {"source_ports", "destination_ports", "packet_lengths", "protocols", "fragmentation_flags",
     "tcp_flags", "vlans", "ttls", "source_asns", "destination_asns", "input_interfaces",
     "output_interfaces", "agent_addresses", "ipv4_nexthops"}

\* Five ways of looking at fragments; NOT_A_FRAGMENT is the absence of the four bits.
FragmentTypes ==
    {"FLOW_SPEC_DONT_FRAGMENT", "FLOW_SPEC_IS_A_FRAGMENT", "FLOW_SPEC_FIRST_FRAGMENT",
     "FLOW_SPEC_LAST_FRAGMENT", "FLOW_SPEC_NOT_A_FRAGMENT"}

\* flow_spec_tcp_flagset_t is the set of its flags; the packet's other two are unknown to it.
TcpFlags == {"fin", "syn", "rst", "psh", "ack", "urg"}

\* bgp_flow_spec_action_t: the default is to accept, all numbers are 0.
Accept == [type |-> "FLOW_SPEC_ACTION_ACCEPT", rate_limit |-> 0, redirect_as |-> 0,
           redirect_value |-> 0, redirect_rt_as |-> 0, redirect_rt_value |-> 0]

EmptyRule == [f \in SubnetFields \cup VectorFields \cup {"action"} |->
                 IF f = "action" THEN Accept ELSE << >>]

\* An address with the bits after the first `length` cleared, octet by octet
\* (convert_cidr_to_binary_netmask and the mask in both subnet codecs).
Masked(octets, length) ==
    [i \in DOMAIN octets |->
        LET kept == IF length >= 8 * i THEN 8 ELSE IF length <= 8 * (i - 1) THEN 0
                    ELSE length - 8 * (i - 1)
        IN  octets[i] - (octets[i] % 2 ^ (8 - kept))]

\* lookup_tree_32bit_t with one subnet: what PrefixTree is shown to answer.
InSubnet(octets, prefix) ==
    Masked(octets, prefix.cidr_prefix_length) = Masked(prefix.subnet_address, prefix.cidr_prefix_length)
=============================================================================
