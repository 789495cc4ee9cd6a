-------------------------- MODULE TrafficCounters --------------------------
(***************************************************************************)
(* The traffic path of src/src/fastnetmon_logic.cpp: the collector threads *)
(* run process_packet on every packet, the recalculation thread turns the  *)
(* counters into speeds every second (recalculate_speed).  They share four *)
(* counter maps, each under its own mutex (abstract_subnet_counters_t),    *)
(* the flow table under flow_counter_mutex, and the total counters, which  *)
(* have no mutex.                                                          *)
(*                                                                         *)
(* A slot is a key of one of the maps.  A key without traffic and a key    *)
(* that is not in the map look alike to a reader (all zero), so the maps   *)
(* are total functions.  Bytes are counted at the same places as packets   *)
(* and are left out; the ban actions behind the threshold are Mitigation.  *)
(***************************************************************************)
EXTENDS Naturals, Sequences, FiniteSetsExt

CONSTANTS
    Collectors,                    \* threads that call process_packet
    Mixes,                         \* bound: the sets of packets one behaviour may see
    Hosts4, Hosts6,                \* our addresses
    NetworkOf,                     \* the network of each of our addresses
    NoNetwork,                     \* a default-constructed subnet
    NoPacket,                      \* what an idle collector works on
    Whitelisted,                   \* packets static_flowspec_based_whitelist matches
    process_incoming_traffic, process_outgoing_traffic,
    enable_connection_tracking,
    Thresholds,                    \* the enabled thresholds of ban_settings_t, by field
    ExpNum, ExpDen,                \* exp(-1 / average_calculation_amount) as a fraction
    Periods,                       \* seconds between two recalculations
    MaxPerPeriod                   \* bound: packets between two recalculations

ASSUME ExpAssumption    == ExpNum \in Nat /\ ExpDen \in Nat /\ ExpNum < ExpDen
ASSUME PeriodAssumption == Periods \subseteq Nat \ {0}
ASSUME CollectorAssumption == IsFiniteSet(Collectors)
ASSUME PacketAssumption == \A p \in UNION Mixes : p.packets \in Nat

\* exp(-period / average_calculation_amount) is a weight between 0 and 1.
ASSUME WeightAssumption ==
    \A period \in Periods :
      /\ ExpNum ^ period \in Nat /\ ExpDen ^ period \in Nat \ {0}
      /\ ExpNum ^ period <= ExpDen ^ period

Sides  == {"in", "out"}
Fields == {"total", "tcp", "udp", "icmp", "fragmented", "tcp_syn", "dropped"}

\* The maps in the order recalculate_speed takes them.
MapOrder == <<"net4", "host4", "net6", "host6">>

Slots ==
         {<<"net4", NetworkOf[h]>> : h \in Hosts4}
    \cup {<<"host4", h>> : h \in Hosts4}
    \cup {<<"net6", n>> : n \in {NoNetwork} \cup {NetworkOf[h] : h \in Hosts6}}
    \cup {<<"host6", h>> : h \in Hosts6}

SlotsOf(map) == {s \in Slots : s[1] = map}

\* The counters of total_speed_counters_t in the order they are read and cleared.
Directions == <<"INCOMING", "OUTGOING", "INTERNAL", "OTHER">>
Families   == <<"ipv4", "ipv6", "all">>
TotalOrder == [i \in 1 .. 12 |-> <<Families[((i - 1) \div 4) + 1], Directions[((i - 1) % 4) + 1]>>]
Totals     == {TotalOrder[i] : i \in 1 .. 12}

Packets     == UNION Mixes
Connections == {p.connection : p \in Packets}

VARIABLES
    mix,            \* the packets of this behaviour
    counter,        \* counter_map of every map
    average,        \* average_speed_map of every map, and the flows of the hosts
    flows,          \* SubnetVectorMapFlow: the connections of each host, by side
    total,          \* total_counters of the three families
    totalSpeed,     \* total_speed_average_counters
    over,           \* hosts whose last speed was over a threshold
    task,           \* what each collector thread has still to do
    recalc,         \* where the recalculation thread is
    sent,           \* packets since the recalculation started
    instant,        \* history: the incoming speed of each IPv4 host before averaging
    owed            \* history: accepted packets no recalculation has used yet

vars == <<mix, counter, average, flows, total, totalSpeed, over, task, recalc, sent, instant, owed>>

NoTraffic == [side \in Sides |-> [f \in Fields |-> 0]]
NoSpeed   == [side \in Sides |-> [f \in Fields \cup {"flows"} |-> 0]]
Idle      == [packet |-> NoPacket, steps |-> << >>]
Asleep    == [at |-> "sleep", map |-> 1, todo |-> {}, slot |-> <<>>, index |-> 1, period |-> 1]

Init ==
    /\ mix \in Mixes
    /\ counter = [s \in Slots |-> NoTraffic]
    /\ average = [s \in Slots |-> NoSpeed]
    /\ flows = [h \in Hosts4 |-> [side \in Sides |-> [c \in Connections |-> "absent"]]]
    /\ total = [t \in Totals |-> 0]
    /\ totalSpeed = [t \in Totals |-> 0]
    /\ over = {}
    /\ task = [c \in Collectors |-> Idle]
    /\ recalc = Asleep
    /\ sent = 0
    /\ instant = [h \in Hosts4 |-> 0]
    /\ owed = [s \in Slots |-> NoTraffic]

-----------------------------------------------------------------------------
(* A packet *)

Hosts(p) == IF p.version = 4 THEN Hosts4 ELSE Hosts6

\* get_packet_direction and get_packet_direction_ipv6.
Direction(p) ==
    CASE p.src \in Hosts(p) /\ p.dst \in Hosts(p) -> "INTERNAL"
      [] p.src \in Hosts(p) /\ p.dst \notin Hosts(p) -> "OUTGOING"
      [] p.src \notin Hosts(p) /\ p.dst \in Hosts(p) -> "INCOMING"
      [] OTHER -> "OTHER"

Ours(p) == Direction(p) \in {"INCOMING", "OUTGOING"}
Side(p) == IF Direction(p) = "OUTGOING" THEN "out" ELSE "in"
Host(p) == IF Direction(p) = "OUTGOING" THEN p.src ELSE p.dst

\* The fields increment_incoming_counters and increment_outgoing_counters add to.
FieldsOf(p) ==
         {"total"}
    \cup {f \in {"fragmented", "dropped"} : f \in p.marks}
    \cup {f \in {"tcp", "udp", "icmp"} : f = p.protocol}
    \cup {f \in {"tcp_syn"} : p.protocol = "tcp" /\ "tcp_syn" \in p.marks}

\* The slot and the fields a packet is counted under in the networks of its
\* family; process_ipv6_packet counts only the totals there, and takes a key
\* for a packet that is not ours as well.
NetSlot(p) == <<IF p.version = 4 THEN "net4" ELSE "net6",
                IF Ours(p) THEN NetworkOf[Host(p)] ELSE NoNetwork>>
NetFields(p) == IF p.version = 4 THEN FieldsOf(p) ELSE {"total"}

HostSlot(p) == <<IF p.version = 4 THEN "host4" ELSE "host6", Host(p)>>

Count(counters, p, fields) ==
    [counters EXCEPT ![Side(p)] = [f \in Fields |-> @[f] + (IF f \in fields THEN p.packets ELSE 0)]]

Skipped(p) ==
    \/ Direction(p) = "INCOMING" /\ ~process_incoming_traffic
    \/ Direction(p) = "OUTGOING" /\ ~process_outgoing_traffic

\* What is left of process_packet and process_ipv6_packet once the packet is accepted.
Steps(p) ==
    IF p.version = 6 THEN IF Ours(p) THEN <<"total", "net", "host">> ELSE <<"total", "net">>
    ELSE IF ~Ours(p) THEN <<"total">>
    ELSE IF enable_connection_tracking THEN <<"net", "total", "host", "flow">>
    ELSE <<"net", "total", "host">>

\* A packet of another version, a whitelisted one and one of a direction that
\* is not processed are dropped before anything is counted.
Accepted(p) ==
    /\ p.version \in {4, 6}
    /\ ~(p.version = 4 /\ Ours(p) /\ p \in Whitelisted)
    /\ ~Skipped(p)

Owes(p, step) == Ours(p) /\ step \in {"net", "host"}
SlotOf(p, step)   == IF step = "net" THEN NetSlot(p) ELSE HostSlot(p)
FieldsAt(p, step) == IF step = "net" THEN NetFields(p) ELSE FieldsOf(p)

Receive(c, p) ==
    /\ task[c].steps = << >>
    /\ sent < MaxPerPeriod
    /\ sent' = sent + 1
    /\ IF Accepted(p)
       THEN /\ task' = [task EXCEPT ![c] = [packet |-> p, steps |-> Steps(p)]]
            /\ owed' = IF Ours(p)
                       THEN [owed EXCEPT ![NetSlot(p)]  = Count(@, p, NetFields(p)),
                                         ![HostSlot(p)] = Count(@, p, FieldsOf(p))]
                       ELSE owed
       ELSE UNCHANGED <<task, owed>>
    /\ UNCHANGED <<counter, average, flows, total, totalSpeed, over, recalc, instant>>

\* A mutant: the collectors do not take counter_map_mutex.
NeverLocked(map) == FALSE

\* counter_map_mutex of a map is held by the recalculation thread.
MapLocked(map) == recalc.at \in {"build", "zero"} /\ MapOrder[recalc.map] = map

Doing(c, step) == task[c].steps # << >> /\ Head(task[c].steps) = step
Done(c) == task' = [task EXCEPT ![c] = IF Len(@.steps) = 1 THEN Idle
                                       ELSE [packet |-> @.packet, steps |-> Tail(@.steps)]]

CountNetwork(c) ==
    LET p == task[c].packet
    IN  /\ Doing(c, "net")
        /\ ~MapLocked(NetSlot(p)[1])
        /\ counter' = IF Ours(p) THEN [counter EXCEPT ![NetSlot(p)] = Count(@, p, NetFields(p))]
                      ELSE counter
        /\ Done(c)
        /\ UNCHANGED <<average, flows, total, totalSpeed, over, recalc, sent, instant, owed>>

\* An atomic add; total_counters, the sum of both families, is added to nowhere.
CountTotal(c) ==
    LET p == task[c].packet
        t == <<IF p.version = 4 THEN "ipv4" ELSE "ipv6", Direction(p)>>
    IN  /\ Doing(c, "total")
        /\ total' = [total EXCEPT ![t] = @ + p.packets]
        /\ Done(c)
        /\ UNCHANGED <<counter, average, flows, totalSpeed, over, recalc, sent, instant, owed>>

CountHost(c) ==
    LET p == task[c].packet
    IN  /\ Doing(c, "host")
        /\ ~MapLocked(HostSlot(p)[1])
        /\ counter' = [counter EXCEPT ![HostSlot(p)] = Count(@, p, FieldsOf(p))]
        /\ Done(c)
        /\ UNCHANGED <<average, flows, total, totalSpeed, over, recalc, sent, instant, owed>>

\* increment_incoming_flow_counters and increment_outgoing_flow_counters: the
\* entry of the connection is created.  It is late when the recalculation
\* that clears the table has started.
CountFlow(c) ==
    LET p == task[c].packet
        tag == IF recalc.at \in {"build", "zero", "flows"} THEN "late" ELSE "waiting"
    IN  /\ Doing(c, "flow")
        /\ flows' = IF p.protocol \in {"tcp", "udp"}
                    THEN [flows EXCEPT ![Host(p)][Side(p)][p.connection] =
                             IF @ = "absent" THEN tag ELSE @]
                    ELSE flows
        /\ Done(c)
        /\ UNCHANGED <<counter, average, total, totalSpeed, over, recalc, sent, instant, owed>>

-----------------------------------------------------------------------------
(* recalculate_speed *)

\* A mutant: the average is rounded up.
SmoothUp(new, old, period) ==
    LET num == ExpNum ^ period
        den == ExpDen ^ period
    IN  (new * (den - num) + old * num + den - 1) \div den

\* The moving average, truncated to an integer as in uint64_t(double).  The weight is the
\* exact ExpNum / ExpDen here, where the code has a double next to it.
Smooth(new, old, period) ==
    LET num == ExpNum ^ period
        den == ExpDen ^ period
    IN  (new * (den - num) + old * num) \div den

\* Run early, the function returns; run late, the real period replaces the nominal one.
Wake ==
    /\ recalc.at = "sleep"
    /\ \E period \in Periods :
         recalc' = [Asleep EXCEPT !.at = "build", !.todo = SlotsOf(MapOrder[1]), !.period = period]
    /\ sent' = 0
    /\ UNCHANGED <<counter, average, flows, total, totalSpeed, over, task, instant, owed>>

FlowCount(h, side) == Cardinality({c \in Connections : flows[h][side][c] # "absent"})

\* build_speed_counters_from_packet_counters, with the flows of an IPv4 host.
SpeedOf(s) ==
    [side \in Sides |-> [f \in Fields \cup {"flows"} |->
        (IF f # "flows" THEN counter[s][side][f]
         ELSE IF s[1] = "host4" /\ enable_connection_tracking THEN FlowCount(s[2], side)
         ELSE 0) \div recalc.period]]

\* A mutant: only the incoming flows are counted.
CountedIncoming(table) == [side \in Sides |-> [c \in Connections |->
                              IF table[side][c] # "absent" /\ side = "in" THEN "counted"
                              ELSE table[side][c]]]

\* The flows a host's turn has counted.
Counted(table) == [side \in Sides |-> [c \in Connections |->
                      IF table[side][c] = "absent" THEN "absent" ELSE "counted"]]

\* One key of the map: the speed and its average, under the mutex.
BuildSpeed(s) ==
    LET speed == SpeedOf(s)
    IN  /\ recalc.at = "build"
        /\ s \in recalc.todo
        /\ instant' = IF s[1] = "host4" THEN [instant EXCEPT ![s[2]] = speed["in"]["total"]]
                      ELSE instant
        /\ average' = [average EXCEPT ![s] =
                          [side \in Sides |-> [f \in Fields \cup {"flows"} |->
                              Smooth(speed[side][f], @[side][f], recalc.period)]]]
        /\ flows' = IF s[1] = "host4" THEN [flows EXCEPT ![s[2]] = Counted(@)] ELSE flows
        /\ owed' = [owed EXCEPT ![s] = [side \in Sides |-> [f \in Fields |->
                                           @[side][f] - counter[s][side][f]]]]
        /\ recalc' = [recalc EXCEPT !.at = "zero", !.slot = s, !.todo = @ \ {s}]
        /\ UNCHANGED <<counter, total, totalSpeed, over, task, sent>>

\* we_should_ban_this_entity: some enabled threshold is exceeded on either side.
we_should_ban_this_entity(speed) ==
    \E f \in DOMAIN Thresholds, side \in Sides : speed[side][f] > Thresholds[f]

zeroify(counters) == NoTraffic

\* The speed callbacks of the four maps: those of the networks are stubs, those
\* of the hosts compare the average speed.  What an attack starts is Mitigation's.
OverAfterCallback(s) ==
    IF s[1] \notin {"host4", "host6"} THEN over
    ELSE IF we_should_ban_this_entity(average[s]) THEN over \cup {s}
    ELSE over \ {s}

\* The counters are cleared and the callback is called.
Zeroify ==
    LET s == recalc.slot
    IN  /\ recalc.at = "zero"
        /\ counter' = [counter EXCEPT ![s] = zeroify(@)]
        /\ over' = OverAfterCallback(s)
        /\ recalc' = [recalc EXCEPT !.at = "build", !.slot = << >>]
        /\ UNCHANGED <<average, flows, total, totalSpeed, task, sent, instant, owed>>

\* The mutex of a map is released, the next one taken.
NextMap ==
    /\ recalc.at = "build"
    /\ recalc.todo = {}
    /\ recalc' = IF recalc.map = Len(MapOrder) THEN [recalc EXCEPT !.at = "flows"]
                 ELSE [recalc EXCEPT !.map = @ + 1, !.todo = SlotsOf(MapOrder[recalc.map + 1])]
    /\ UNCHANGED <<counter, average, flows, total, totalSpeed, over, task, sent, instant, owed>>

zeroify_all_flow_counters ==
    /\ recalc.at = "flows"
    /\ flows' = [h \in Hosts4 |-> [side \in Sides |-> [c \in Connections |->
                    IF enable_connection_tracking THEN "absent" ELSE flows[h][side][c]]]]
    /\ recalc' = [recalc EXCEPT !.at = "read"]
    /\ UNCHANGED <<counter, average, total, totalSpeed, over, task, sent, instant, owed>>

\* total_speed_counters_t::calculate_speed: read, later cleared, no mutex.
ReadTotal ==
    LET t == TotalOrder[recalc.index]
    IN  /\ recalc.at = "read"
        /\ totalSpeed' = [totalSpeed EXCEPT ![t] =
                             Smooth(total[t] \div recalc.period, @, recalc.period)]
        /\ recalc' = [recalc EXCEPT !.at = "clear"]
        /\ UNCHANGED <<counter, average, flows, total, over, task, sent, instant, owed>>

ClearTotal ==
    /\ recalc.at = "clear"
    /\ total' = [total EXCEPT ![TotalOrder[recalc.index]] = 0]
    /\ recalc' = IF recalc.index = Len(TotalOrder) THEN Asleep
                 ELSE [recalc EXCEPT !.at = "read", !.index = @ + 1]
    /\ UNCHANGED <<counter, average, flows, totalSpeed, over, task, sent, instant, owed>>

-----------------------------------------------------------------------------
Collector(c) == CountNetwork(c) \/ CountTotal(c) \/ CountHost(c) \/ CountFlow(c)

Recalculation ==
    \/ Wake
    \/ \E s \in recalc.todo : BuildSpeed(s)
    \/ Zeroify
    \/ NextMap
    \/ zeroify_all_flow_counters
    \/ ReadTotal
    \/ ClearTotal

Next ==
    /\ \/ \E c \in Collectors, p \in mix : Receive(c, p)
       \/ \E c \in Collectors : Collector(c)
       \/ Recalculation
    /\ UNCHANGED mix

\* The recalculation thread keeps running; packets need not arrive.
Spec == Init /\ [][Next]_vars /\ WF_vars(Recalculation /\ UNCHANGED mix)

-----------------------------------------------------------------------------
(* Properties *)

\* What a collector has accepted for a counter and not added to it yet.
Due(c, s, side, f) ==
    LET p == task[c].packet
    IN  IF \E i \in DOMAIN task[c].steps :
              LET step == task[c].steps[i]
              IN  /\ Owes(p, step)
                  /\ SlotOf(p, step) = s
                  /\ Side(p) = side
                  /\ f \in FieldsAt(p, step)
        THEN p.packets ELSE 0

\* The sum of Due over the collectors, as the number of packets they have in hand.
InFlight(s, side, f) ==
    Cardinality(UNION {{c} \X (1 .. Due(c, s, side, f)) : c \in Collectors})

\* No packet of a host or a network is lost or used twice between a collector
\* that accepts it and the recalculation that turns it into a speed, whatever
\* the interleaving: what is owed is in the counter or on its way to it.
CountersConserved ==
    \A s \in Slots, side \in Sides, f \in Fields :
        owed[s][side][f] =
            (IF recalc.at = "zero" /\ recalc.slot = s THEN 0 ELSE counter[s][side][f])
            + InFlight(s, side, f)

\* Division, averaging and truncation keep the parts within the whole: the
\* protocols of a host or an IPv4 network never add up to more than its total,
\* and no other field exceeds what it is a part of.
PartsWithinTotal ==
    \A s \in Slots, side \in Sides :
        LET speed == average[s][side]
        IN  /\ speed["tcp"] + speed["udp"] + speed["icmp"] <= speed["total"]
            /\ speed["tcp_syn"] <= speed["tcp"]
            /\ speed["fragmented"] <= speed["total"]
            /\ speed["dropped"] <= speed["total"]

\* A connection is cleared without having been counted only if it was recorded
\* after the recalculation had started: one that was waiting is always counted.
FlowLossConfined ==
    recalc.at = "flows" =>
        \A h \in Hosts4, side \in Sides, c \in Connections : flows[h][side][c] # "waiting"

\* The largest distance below a constant speed at which truncation can hold an
\* average: the largest d with d * (1 - ExpNum / ExpDen) < 1.
Slack == CHOOSE d \in 0 .. ExpDen : /\ d * (ExpDen - ExpNum) < ExpDen
                                    /\ (d + 1) * (ExpDen - ExpNum) >= ExpDen

Speeds == 0 .. MaxPerPeriod * Max({p.packets : p \in Packets})

\* A host whose speed stays at v ends with an average between v - Slack and v:
\* traffic that is gone is forgotten, and traffic that stays more than Slack
\* above a threshold is over it for good.
AverageSettles ==
    \A h \in Hosts4 :
        LET s == <<"host4", h>>
        IN  \A v \in Speeds :
              <>[](instant[h] = v) =>
                  <>[](/\ average[s]["in"]["total"] <= v
                       /\ v <= average[s]["in"]["total"] + Slack
                       /\ v > Thresholds["total"] + Slack => s \in over)
=============================================================================
