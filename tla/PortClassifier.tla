--------------------------- MODULE PortClassifier ---------------------------
(***************************************************************************)
(* How packet samples become port rules.  The capture bucket of a victim   *)
(* fills with packets; the BAN then asks                                   *)
(* classify_gobgp_flowspec_destination_port for the one dominant port, and *)
(* a refresh asks classify_gobgp_flowspec_refresh_protocols for every      *)
(* significant port.  Both are pure functions of the samples.              *)
(***************************************************************************)
EXTENDS Dominance, SequencesExt

CONSTANTS
    victim_ipv4,
    Packets,            \* the packets that can be captured
    Attacks,            \* [attack_direction, attack_protocol] of the capture
    min_samples,        \* gobgp_flowspec_port_min_samples
    dominance_percent,  \* gobgp_flowspec_port_dominance_percent
    min_share_percent,  \* gobgp_flowspec_refresh_port_min_share_percent
    active_protocols,   \* the protocols admitted to a refresh
    capacity            \* buffers_maximum_capacity

PortNumbers == 0 .. 65535

PacketType ==
    [ip_protocol_version : {4, 6}, packet_direction : {"INCOMING", "OUTGOING"},
     dst_ip : STRING, protocol : {"ICMP", "TCP", "UDP", "GRE"},
     destination_port : PortNumbers, fragmented : BOOLEAN, fragment_offset : Nat,
     number_of_packets : Weights, sample_ratio : Weights]

\* The options are parsed as positive numbers, the percentages up to 100;
\* min_samples is 64 bits wide, as the weights are.
ASSUME PortClassifierAssumption ==
    /\ Packets \subseteq PacketType
    /\ min_samples \in Weights \ {0}
    /\ dominance_percent \in 1..100
    /\ min_share_percent \in 1..100
    /\ capacity \in Nat \ {0}

VARIABLES
    attack,                    \* attack_details of the bucket
    samples,                   \* parsed_packets_circular_buffer
    we_could_receive_new_data

vars == <<attack, samples, we_could_receive_new_data>>

-----------------------------------------------------------------------------
(* The samples of one protocol, added up per destination port.             *)

Qualifies(packet, protocol) ==
    /\ packet.ip_protocol_version = 4
    /\ packet.packet_direction = "INCOMING"
    /\ packet.dst_ip = victim_ipv4
    /\ packet.protocol = protocol
    /\ packet.destination_port # 0
    /\ ~(packet.fragmented /\ packet.fragment_offset # 0)

NoSamples == [qualifying_sample_count |-> 0, total_weight |-> 0, port_weights |-> <<>>]

PortWeight(totals, port) ==
    IF port \in DOMAIN totals.port_weights THEN totals.port_weights[port] ELSE 0

AddSample(totals, packet, protocol) ==
    LET weight == saturating_multiply(packet.number_of_packets, packet.sample_ratio)
        port   == packet.destination_port
    IN  IF Qualifies(packet, protocol)
        THEN [qualifying_sample_count |-> saturating_add(totals.qualifying_sample_count, 1),
              total_weight |-> saturating_add(totals.total_weight, weight),
              port_weights |->
                  [p \in DOMAIN totals.port_weights \cup {port} |->
                      IF p = port THEN saturating_add(PortWeight(totals, port), weight)
                      ELSE totals.port_weights[p]]]
        ELSE totals

Totals(packet_samples, protocol) ==
    FoldLeft(LAMBDA totals, packet : AddSample(totals, packet, protocol),
             NoSamples, packet_samples)

Nothing(totals) == totals.port_weights = <<>> \/ totals.total_weight = 0

-----------------------------------------------------------------------------
(* BAN: one dominant port, or none.                                        *)

NoDominant == [port |-> 0, weight |-> 0, tied |-> FALSE]

\* Mutant: a later port of the same weight takes over.
DominantTakingLast(best, port, weight) ==
    IF best.port = 0 \/ weight >= best.weight
    THEN [port |-> port, weight |-> weight, tied |-> FALSE]
    ELSE best

\* One turn of the loop over the ordered map; 0 stands for "no port yet".
ConsiderPort(best, port, weight) ==
    IF best.port = 0 \/ weight > best.weight
    THEN [port |-> port, weight |-> weight, tied |-> FALSE]
    ELSE [best EXCEPT !.tied = @ \/ weight = best.weight]

\* The map is ordered: the last port considered is the largest.
Dominant(totals) ==
    MapThenFoldSet(LAMBDA port, best : ConsiderPort(best, port, totals.port_weights[port]),
                   NoDominant, LAMBDA port : port, Max, DOMAIN totals.port_weights)

\* selected_destination_port is 0 when the optional is empty.
Classified(reason, totals, dominant) ==
    [reason                    |-> reason,
     selected_destination_port |-> IF reason = "selected" THEN dominant.port ELSE 0,
     qualifying_sample_count   |-> totals.qualifying_sample_count,
     total_weight              |-> totals.total_weight,
     dominant_weight           |-> dominant.weight,
     dominance_percent         |->
         calculate_dominance_percent(dominant.weight, totals.total_weight)]

classify_destination_port(current_attack, packet_samples) ==
    LET totals   == Totals(packet_samples, current_attack.attack_protocol)
        dominant == Dominant(totals)
    IN  CASE current_attack.attack_direction # "INCOMING" ->
               Classified("not_incoming", NoSamples, NoDominant)
          [] current_attack.attack_direction = "INCOMING" /\
             current_attack.attack_protocol \notin {"TCP", "UDP"} ->
               Classified("unsupported_protocol", NoSamples, NoDominant)
          [] OTHER ->
               IF Nothing(totals) THEN Classified("no_qualifying_samples", totals, NoDominant)
               ELSE Classified(
                        IF totals.qualifying_sample_count < min_samples
                            THEN "insufficient_samples"
                        ELSE IF dominant.tied
                            THEN "ambiguous_dominant_port"
                        ELSE IF ~meets_dominance_percent(dominant.weight, totals.total_weight,
                                                         dominance_percent)
                            THEN "below_dominance"
                        ELSE "selected",
                        totals, dominant)

-----------------------------------------------------------------------------
(* Refresh: every port with a large enough share.                          *)

SignificantPorts(totals, share) ==
    {port \in DOMAIN totals.port_weights :
        meets_dominance_percent(totals.port_weights[port], totals.total_weight, share)}

\* Mutant: too few samples are enough for a refresh.
RefreshWithoutMinimum(protocol, packet_samples, share) ==
    LET totals == Totals(packet_samples, protocol)
    IN  IF protocol \notin {"TCP", "UDP"} \/ Nothing(totals)
        THEN {} ELSE SignificantPorts(totals, share)

\* The significant_ports of one protocol's result.
classify_refresh_protocol(protocol, packet_samples, share) ==
    LET totals == Totals(packet_samples, protocol)
    IN  IF \/ protocol \notin {"TCP", "UDP"}
           \/ Nothing(totals)
           \/ totals.qualifying_sample_count < min_samples
        THEN {} ELSE SignificantPorts(totals, share)

classify_refresh_protocols(packet_samples, share) ==
    [protocol \in active_protocols |->
        classify_refresh_protocol(protocol, packet_samples, share)]

-----------------------------------------------------------------------------
(* The capture.                                                            *)

Init ==
    /\ attack \in Attacks
    /\ samples = <<>>
    /\ we_could_receive_new_data = TRUE

\* The packet that fills the buffer is stored and switches the collection off.  The
\* buffer of raw packets, which never holds more, is left out.
add_packet_to_storage(packet) ==
    /\ we_could_receive_new_data
    /\ we_could_receive_new_data' = (Len(samples) + 1 # capacity)
    /\ samples' = Append(samples, packet)
    /\ UNCHANGED attack

-----------------------------------------------------------------------------
(* The reference: weights as sums over sets of samples, without a width.   *)

Counted(protocol) ==
    {i \in DOMAIN samples :
        LET packet == samples[i]
        IN  /\ packet.ip_protocol_version = 4 /\ packet.packet_direction = "INCOMING"
            /\ packet.dst_ip = victim_ipv4 /\ packet.protocol = protocol
            /\ packet.destination_port # 0
            /\ packet.fragmented => packet.fragment_offset = 0}

PortsSeen(protocol) == {samples[i].destination_port : i \in Counted(protocol)}

TrueWeight(I) ==
    MapThenSumSet(LAMBDA i : samples[i].number_of_packets * samples[i].sample_ratio, I)

TrueTotal(protocol) == TrueWeight(Counted(protocol))

TruePortWeight(protocol, port) ==
    TrueWeight({i \in Counted(protocol) : samples[i].destination_port = port})

Capped(weight) == IF weight > MaxWeight THEN MaxWeight ELSE weight

Unsaturated(protocol) == TrueTotal(protocol) <= MaxWeight

(***************************************************************************)
(* The BAN classifier selects a port exactly when there are enough         *)
(* qualifying samples and one port outweighs every other one and carries   *)
(* the configured share, all weights being true sums capped at MaxWeight;  *)
(* the reported percentage is the share rounded down.  Neither the order   *)
(* of the samples, nor the order of the ports, nor a product or a sum that *)
(* does not fit changes the answer.                                        *)
(***************************************************************************)
ClassifierMatchesReference ==
    LET protocol == attack.attack_protocol
        result   == classify_destination_port(attack, samples)
        Total    == Capped(TrueTotal(protocol))
        W(port)  == Capped(TruePortWeight(protocol, port))
        Chosen   == {port \in PortsSeen(protocol) :
                        /\ \A q \in PortsSeen(protocol) \ {port} : W(q) < W(port)
                        /\ W(port) * 100 >= Total * dominance_percent}
        Enough   == /\ attack.attack_direction = "INCOMING"
                    /\ protocol \in {"TCP", "UDP"}
                    /\ Total > 0
                    /\ Cardinality(Counted(protocol)) >= min_samples
    IN  /\ result.selected_destination_port # 0 <=> Enough /\ Chosen # {}
        /\ result.selected_destination_port # 0 =>
               /\ Chosen = {result.selected_destination_port}
               /\ result.dominance_percent =
                      (W(result.selected_destination_port) * 100) \div Total

(***************************************************************************)
(* A refresh announces a port only if it carries its share of the true     *)
(* weight, as long as no weight saturated; the shares of the announced     *)
(* ports then add up to at most the whole, so that at most                 *)
(* 100 \div min_share_percent port rules come out of one capture.          *)
(***************************************************************************)
RefreshPortsCarryTheirShare ==
    \A protocol \in active_protocols :
        Unsaturated(protocol) =>
            LET ports == classify_refresh_protocols(samples, min_share_percent)[protocol]
            IN  /\ \A port \in ports :
                       TruePortWeight(protocol, port) * 100
                           >= TrueTotal(protocol) * min_share_percent
                /\ Cardinality(ports) * min_share_percent <= 100

(***************************************************************************)
(* BAN and refresh look at a capture in the same way, although each has a  *)
(* threshold of its own.  Whenever the refresh finds ports at all, the     *)
(* port a BAN selects from the same samples is among them, so that it      *)
(* never adds ports beside the attack's own; it is there for certain when  *)
(* min_share_percent is at most dominance_percent (with a larger one the   *)
(* refresh may find nothing).  Where the BAN selects no port, the refresh  *)
(* finds some only because its policy differs, a tie or a smaller share,   *)
(* and never because it took fewer samples to be enough.                   *)
(***************************************************************************)
BanAndRefreshAgree ==
    LET protocol == attack.attack_protocol
        result   == classify_destination_port(attack, samples)
        selected == result.selected_destination_port
        ports    == classify_refresh_protocols(samples, min_share_percent)[protocol]
    IN  (attack.attack_direction = "INCOMING" /\ protocol \in active_protocols \cap {"TCP", "UDP"}) =>
            /\ selected # 0 /\ (ports # {} \/ min_share_percent <= dominance_percent) =>
                   selected \in ports
            /\ selected = 0 /\ ports # {} =>
                   result.reason \in {"ambiguous_dominant_port", "below_dominance"}

=============================================================================
