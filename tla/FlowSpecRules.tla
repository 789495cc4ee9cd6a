---------------------------- MODULE FlowSpecRules ----------------------------
(***************************************************************************)
(* What FastNetMon does with FlowSpec rules, end to end.  One behaviour is *)
(* a capture, from its packets over the classifiers, the rule builder and  *)
(* the encoder to what a BGP peer decodes; or the codec on a rule or on    *)
(* octets from elsewhere; or the whitelist.  They share no state.          *)
(***************************************************************************)
EXTENDS PortClassifier, FlowSpecCodec, Whitelist

CONSTANTS
    client_ip,      \* the octets of victim_ipv4
    FlowSpecActions \* [type, redirect_ipv4, redirect_rt_as, redirect_rt_value] of the configuration

ProtocolNumber == [ICMP |-> ICMP, TCP |-> TCPProtocol, UDP |-> UDP, GRE |-> 47]

ASSUME CaptureAssumption ==
    /\ client_ip \in Octets(4)
    /\ Attacks # {} /\ \A a \in Attacks : a.attack_protocol \in DOMAIN ProtocolNumber
    /\ active_protocols \subseteq DOMAIN ProtocolNumber
    /\ FlowSpecActions \subseteq
           [type : {"FLOW_SPEC_ACTION_DISCARD", "FLOW_SPEC_ACTION_REDIRECT", "FLOW_SPEC_ACTION_REDIRECT_VRF"},
            redirect_ipv4 : Octets(4), redirect_rt_as : Nat, redirect_rt_value : Nat]

VARIABLES
    work,
    classified      \* what the classifiers found in the capture

rulesVars == <<vars, codecVars, whitelistVars, work, classified>>

-----------------------------------------------------------------------------
\* get_configured_gobgp_flowspec_action and the two options behind it: without
\* a valid target nothing is announced.
ConfiguredActions ==
    {a \in FlowSpecActions :
        /\ a.type = "FLOW_SPEC_ACTION_REDIRECT" => a.redirect_ipv4 # <<0, 0, 0, 0>>
        /\ a.type = "FLOW_SPEC_ACTION_REDIRECT_VRF" => RouteTargetValid(a.redirect_rt_as, a.redirect_rt_value)}

RuleFor(protocol, port, action) ==
    build_gobgp_flowspec_ipv4_rule(client_ip, ProtocolNumber[protocol], action.redirect_ipv4,
                                   IF port = 0 THEN << >> ELSE <<port>>, action.type,
                                   action.redirect_rt_as, action.redirect_rt_value)

\* <<protocol, port>>, 0 for no port: gobgp_ban_manage_flowspec_ipv4 with the
\* port the BAN selected, and the rules gobgp_flowspec_refresh_manage_ipv4 hands
\* to the lifecycle table: for every active protocol one without a port, and
\* one for each significant port.
MatchesOfCapture ==
    LET results == classify_refresh_protocols(samples, min_share_percent)
    IN  {<<attack.attack_protocol, classify_destination_port(attack, samples).selected_destination_port>>}
        \cup (active_protocols \X {0})
        \cup UNION {{protocol} \X results[protocol] : protocol \in active_protocols}

\* The full bucket is classified, handed over and erased.
ClassifyCapture ==
    /\ ~we_could_receive_new_data /\ samples # << >>
    /\ classified' = MatchesOfCapture
    /\ samples' = << >>
    /\ UNCHANGED <<attack, we_could_receive_new_data, codecVars>>

\* The threads of the BAN and of the refresh build and announce the rules.
AnnounceCapture ==
    /\ classified # {} /\ paths = {}
    /\ \E action \in ConfiguredActions :
           paths' = {AnnounceFlowSpecIPv4(RuleFor(m[1], m[2], action)) : m \in classified}
    /\ UNCHANGED <<vars, classified, encoded, decoder>>

-----------------------------------------------------------------------------
NoCapture == attack = (CHOOSE a \in Attacks : TRUE) /\ samples = << >> /\ we_could_receive_new_data = FALSE
NoWhitelist ==
    /\ whitelist_rules_json = << >> /\ lines_read = 0
    /\ static_flowspec_based_whitelist = << >> /\ logged = << >>
    /\ filtered = NotFiltered

RulesInit ==
    /\ CodecInit /\ classified = {}
    /\ \/ work = "capture"   /\ Init      /\ NoWhitelist
       \/ work = "rule"      /\ NoCapture /\ NoWhitelist
       \/ work = "whitelist" /\ NoCapture /\ WhitelistInit

CaptureNext ==
    \/ (\E packet \in Packets : add_packet_to_storage(packet)) /\ UNCHANGED <<classified, codecVars>>
    \/ ClassifyCapture
    \/ AnnounceCapture
    \/ (\E path \in paths : Deliver(path)) /\ UNCHANGED <<classified, vars>>

CodecNext ==
    \/ work = "rule" /\ \E rule \in Rules : Encode(rule)
    \/ work = "rule" /\ \E mp \in Foreign : Receive(mp)
    \/ encoded # NotEncoded /\ \E length \in 0 .. Head(encoded.nlri) : StartDecoding(length)
    \/ Decode

RulesNext ==
    /\ \/ work = "capture" /\ CaptureNext /\ UNCHANGED whitelistVars
       \/ CodecNext /\ UNCHANGED <<vars, classified, whitelistVars>>
       \/ work = "whitelist" /\ WhitelistNext /\ UNCHANGED <<vars, classified, codecVars>>
    /\ UNCHANGED work

RulesSpec == RulesInit /\ [][RulesNext]_rulesVars
=============================================================================
