----------------------- MODULE TrafficCountersProofs -----------------------
(***************************************************************************)
(* Theorems about TrafficCounters, for any number of collector threads,    *)
(* hosts and networks, any traffic and any averaging weight.               *)
(***************************************************************************)
EXTENDS TrafficCounters, FiniteSetTheorems, TLAPS

(***************************************************************************)
(* What the threads hold.                                                  *)
(***************************************************************************)

StepNames == {"total", "net", "host", "flow"}

Recalcs == [at : {"sleep", "build", "zero", "flows", "read", "clear"},
            map : 1 .. 4, todo : SUBSET Slots, slot : Slots \cup {<<>>},
            index : Nat, period : Nat \ {0}]

TypeOK ==
    /\ mix \subseteq Packets
    /\ counter \in [Slots -> [Sides -> [Fields -> Nat]]]
    /\ owed \in [Slots -> [Sides -> [Fields -> Int]]]
    /\ DOMAIN average = Slots
    /\ \A s \in Slots, side \in Sides, f \in Fields : average[s][side][f] \in Nat
    /\ flows \in [Hosts4 -> [Sides -> [Connections -> {"absent", "waiting", "late", "counted"}]]]
    /\ task \in [Collectors -> [packet : Packets \cup {NoPacket}, steps : Seq(StepNames)]]
    /\ recalc \in Recalcs

\* A collector that has steps left has a packet, of ours if a host is to be counted, and no
\* step of it twice.
TaskShape ==
    \A c \in Collectors :
      /\ task[c].steps # << >> => task[c].packet \in Packets
      /\ \A i \in DOMAIN task[c].steps : task[c].steps[i] = "host" => Ours(task[c].packet)
      /\ \A i, j \in DOMAIN task[c].steps : task[c].steps[i] = task[c].steps[j] => i = j

\* The recalculation thread works on keys of the map whose mutex it holds, with a period
\* it has measured.
RecalcShape ==
    /\ recalc.at \in {"build", "zero"} =>
         \A s \in recalc.todo : s \in Slots /\ s[1] = MapOrder[recalc.map]
    /\ recalc.at = "zero" => recalc.slot \in Slots /\ recalc.slot[1] = MapOrder[recalc.map]
    /\ recalc.at # "sleep" => recalc.period \in Periods

\* A connection that waited when the recalculation started still has its host's turn to come.
FlowInv ==
    recalc.at \in {"build", "zero", "flows"} =>
      \A h \in Hosts4, side \in Sides, c \in Connections :
        flows[h][side][c] = "waiting" =>
          /\ recalc.at # "flows"
          /\ recalc.map = 1 \/ (recalc.map = 2 /\ <<"host4", h>> \in recalc.todo)

\* A field never exceeds what it is a part of.
Within(r) ==
    /\ r["tcp"] + r["udp"] + r["icmp"] <= r["total"]
    /\ r["tcp_syn"] <= r["tcp"]
    /\ r["fragmented"] <= r["total"]
    /\ r["dropped"] <= r["total"]

CountersWithin == \A s \in Slots, side \in Sides : Within(counter[s][side])

ThreadsInv == TypeOK /\ TaskShape /\ RecalcShape

-----------------------------------------------------------------------------
\* The side a packet counts on.
LEMMA SideType == \A p : Side(p) \in Sides
  BY DEF Side, Sides

\* Counting a packet adds its packets to some fields of one side, of the counters and of
\* what is owed.
LEMMA CountNat ==
    ASSUME NEW r \in [Sides -> [Fields -> Nat]], NEW p, p.packets \in Nat, NEW fields
    PROVE  /\ Count(r, p, fields) \in [Sides -> [Fields -> Nat]]
           /\ \A side \in Sides, f \in Fields :
                Count(r, p, fields)[side][f] =
                  r[side][f] + (IF side = Side(p) /\ f \in fields THEN p.packets ELSE 0)
  BY SideType DEF Count

\* The same when counters may be read as integers.
LEMMA CountInt ==
    ASSUME NEW r \in [Sides -> [Fields -> Int]], NEW p, p.packets \in Nat, NEW fields
    PROVE  /\ Count(r, p, fields) \in [Sides -> [Fields -> Int]]
           /\ \A side \in Sides, f \in Fields :
                Count(r, p, fields)[side][f] =
                  r[side][f] + (IF side = Side(p) /\ f \in fields THEN p.packets ELSE 0)
  BY SideType DEF Count

\* An average stays a natural number.
LEMMA SmoothType ==
    ASSUME NEW x \in Nat, NEW y \in Nat, NEW period \in Periods
    PROVE  Smooth(x, y, period) \in Nat
<1> DEFINE num == ExpNum ^ period
           den == ExpDen ^ period
<1>1. num \in Nat /\ den \in Nat \ {0} /\ num <= den
  BY WeightAssumption
<1> HIDE DEF num, den
<1>2. x * (den - num) \in Nat /\ y * num \in Nat
  BY <1>1
<1>3. \A a \in Nat, d \in Nat \ {0} : a \div d \in Nat
  OBVIOUS
<1>4. (x * (den - num) + y * num) \div den \in Nat
  BY <1>1, <1>2, <1>3
<1> QED
  BY <1>4 DEF Smooth, num, den

\* The initial state satisfies the threads' invariant.
LEMMA InitThreadsInv == Init => ThreadsInv
<1> SUFFICES ASSUME Init PROVE ThreadsInv
  OBVIOUS
<1>1. mix \subseteq Packets
  BY DEF Init, Packets
<1>2. /\ counter \in [Slots -> [Sides -> [Fields -> Nat]]]
      /\ owed \in [Slots -> [Sides -> [Fields -> Int]]]
      /\ DOMAIN average = Slots
      /\ \A s \in Slots, side \in Sides, f \in Fields : average[s][side][f] \in Nat
  BY DEF Init, NoTraffic, NoSpeed
<1>3. flows \in [Hosts4 -> [Sides -> [Connections -> {"absent", "waiting", "late", "counted"}]]]
  BY DEF Init
<1>4. task \in [Collectors -> [packet : Packets \cup {NoPacket}, steps : Seq(StepNames)]]
  BY DEF Init, Idle
<1>5. recalc \in Recalcs
  BY DEF Init, Asleep, Recalcs
<1>6. TaskShape /\ RecalcShape
  BY DEF Init, TaskShape, RecalcShape, Idle, Asleep
<1> QED
  BY <1>1, <1>2, <1>3, <1>4, <1>5, <1>6 DEF ThreadsInv, TypeOK

-----------------------------------------------------------------------------
\* What is left of a packet's steps.
LEMMA StepsShape ==
    \A p : /\ Steps(p) \in Seq(StepNames)
           /\ \A i \in DOMAIN Steps(p) : Steps(p)[i] = "host" => Ours(p)
           /\ \A i, j \in DOMAIN Steps(p) : Steps(p)[i] = Steps(p)[j] => i = j
<1> SUFFICES ASSUME NEW p
             PROVE  /\ Steps(p) \in Seq(StepNames)
                    /\ \A i \in DOMAIN Steps(p) : Steps(p)[i] = "host" => Ours(p)
                    /\ \A i, j \in DOMAIN Steps(p) : Steps(p)[i] = Steps(p)[j] => i = j
  OBVIOUS
<1>1. \/ Steps(p) \in {<<"total", "net">>, <<"total">>}
      \/ /\ Ours(p)
         /\ Steps(p) \in {<<"total", "net", "host">>, <<"net", "total", "host">>,
                          <<"net", "total", "host", "flow">>}
  BY DEF Steps
<1>2. CASE Steps(p) = <<"total">>
  BY <1>2 DEF StepNames
<1>3. CASE Steps(p) = <<"total", "net">>
  BY <1>3 DEF StepNames
<1>4. CASE Steps(p) = <<"total", "net", "host">> /\ Ours(p)
  BY <1>4 DEF StepNames
<1>5. CASE Steps(p) = <<"net", "total", "host">> /\ Ours(p)
  BY <1>5 DEF StepNames
<1>6. CASE Steps(p) = <<"net", "total", "host", "flow">> /\ Ours(p)
  BY <1>6 DEF StepNames
<1> QED
  BY <1>1, <1>2, <1>3, <1>4, <1>5, <1>6

\* A thread that does a step: the first of its steps is gone, the others stay.
LEMMA DoneShape ==
    ASSUME TypeOK, TaskShape, NEW c \in Collectors, NEW step, Doing(c, step), Done(c)
    PROVE  /\ task' \in [Collectors -> [packet : Packets \cup {NoPacket}, steps : Seq(StepNames)]]
           /\ TaskShape'
           /\ \A d \in Collectors : d # c => task'[d] = task[d]
           /\ task[c].packet \in Packets
           /\ task'[c].steps = Tail(task[c].steps)
           /\ task'[c].steps # << >> => task'[c].packet = task[c].packet
<1> DEFINE q == task[c].steps
           p == task[c].packet
<1>1. q \in Seq(StepNames) /\ q # << >> /\ p \in Packets
  BY DEF Doing, TypeOK, TaskShape
<1>2. /\ Len(q) \in Nat \ {0}
      /\ Tail(q) \in Seq(StepNames)
      /\ Len(Tail(q)) = Len(q) - 1
      /\ \A i \in 1 .. Len(Tail(q)) : Tail(q)[i] = q[i + 1]
  BY <1>1
<1>3. /\ \A d \in Collectors : d # c => task'[d] = task[d]
      /\ task'[c] = IF Len(q) = 1 THEN Idle ELSE [packet |-> p, steps |-> Tail(q)]
  BY DEF Done, TypeOK
<1> HIDE DEF q, p
<1>4. Len(q) = 1 => Tail(q) = << >>
  <2>1. \A u \in Seq(StepNames) : Len(u) = 0 => u = << >>
    OBVIOUS
  <2>2. Len(q) = 1 => Len(Tail(q)) = 0
    BY <1>2
  <2> QED
    BY <1>2, <2>1, <2>2
<1>5. task'[c].steps = Tail(q) /\ (Len(q) # 1 => task'[c].packet = p)
  BY <1>3, <1>4 DEF Idle
<1>6. Tail(q) # << >> => Len(q) # 1
  BY <1>4
<1>7. task' \in [Collectors -> [packet : Packets \cup {NoPacket}, steps : Seq(StepNames)]]
  <2>1. task'[c] \in [packet : Packets \cup {NoPacket}, steps : Seq(StepNames)]
    BY <1>1, <1>2, <1>3 DEF Idle
  <2>2. task' = [d \in Collectors |-> task'[d]]
    BY DEF Done, TypeOK
  <2> QED
    BY <1>3, <2>1, <2>2 DEF TypeOK
<1>8. ASSUME NEW d \in Collectors
      PROVE  /\ task'[d].steps # << >> => task'[d].packet \in Packets
             /\ \A i \in DOMAIN task'[d].steps : task'[d].steps[i] = "host" => Ours(task'[d].packet)
             /\ \A i, j \in DOMAIN task'[d].steps : task'[d].steps[i] = task'[d].steps[j] => i = j
  <2>1. CASE d # c
    BY <1>3, <2>1 DEF TaskShape
  <2>2. CASE d = c
    <3>1. /\ \A i \in 1 .. Len(q) : q[i] = "host" => Ours(p)
          /\ \A i, j \in 1 .. Len(q) : q[i] = q[j] => i = j
      BY <1>1 DEF TaskShape, q, p
    <3>2. DOMAIN Tail(q) = 1 .. Len(Tail(q))
      BY <1>2
    <3>3. \A i \in DOMAIN Tail(q) : i + 1 \in 1 .. Len(q) /\ Tail(q)[i] = q[i + 1] /\ i \in Int
      BY <1>2, <3>2
    <3>4. \A i, j \in DOMAIN Tail(q) : Tail(q)[i] = Tail(q)[j] => i = j
      <4>1. SUFFICES ASSUME NEW i \in DOMAIN Tail(q), NEW j \in DOMAIN Tail(q), Tail(q)[i] = Tail(q)[j]
                     PROVE  i = j
        OBVIOUS
      <4>2. i + 1 = j + 1
        BY <3>1, <3>3, <4>1
      <4> QED
        BY <3>3, <4>2
    <3>5. \A i \in DOMAIN Tail(q) : Tail(q) # << >>
      BY <1>2, <3>2
    <3>6. \A i \in DOMAIN Tail(q) : task'[c].packet = p
      BY <1>5, <1>6, <3>5
    <3>7. \A i \in DOMAIN Tail(q) : Tail(q)[i] = "host" => Ours(task'[c].packet)
      BY <3>1, <3>3, <3>6
    <3>8. Tail(q) # << >> => task'[c].packet \in Packets
      BY <1>1, <1>5, <1>6
    <3> QED
      BY <1>5, <2>2, <3>4, <3>7, <3>8
  <2> QED
    BY <2>1, <2>2
<1>9. TaskShape'
  BY <1>8 DEF TaskShape
<1> QED
  BY <1>1, <1>3, <1>5, <1>6, <1>7, <1>9 DEF q, p

\* An accepted packet has the steps of its family before it.
LEMMA ReceiveShape ==
    ASSUME TypeOK, TaskShape, NEW c \in Collectors, NEW p \in Packets,
           task' = [task EXCEPT ![c] = [packet |-> p, steps |-> Steps(p)]]
    PROVE  /\ task' \in [Collectors -> [packet : Packets \cup {NoPacket}, steps : Seq(StepNames)]]
           /\ TaskShape'
<1>1. task' \in [Collectors -> [packet : Packets \cup {NoPacket}, steps : Seq(StepNames)]]
  BY StepsShape DEF TypeOK
<1>2. /\ task'[c].packet = p /\ task'[c].steps = Steps(p)
      /\ \A d \in Collectors : d # c => task'[d] = task[d]
  BY DEF TypeOK
<1>3. TaskShape'
  BY <1>2, StepsShape DEF TaskShape
<1> QED
  BY <1>1, <1>3

\* The keys a packet of ours is counted under are keys of two maps.
LEMMA SlotShape ==
    ASSUME NEW p, Ours(p)
    PROVE  /\ NetSlot(p) \in Slots /\ HostSlot(p) \in Slots
           /\ NetSlot(p)[1] \in {"net4", "net6"} /\ HostSlot(p)[1] \in {"host4", "host6"}
           /\ NetSlot(p) # HostSlot(p)
<1>1. Host(p) \in Hosts(p)
  BY DEF Ours, Host, Direction
<1>2. NetSlot(p)[1] \in {"net4", "net6"} /\ HostSlot(p)[1] \in {"host4", "host6"}
  BY DEF NetSlot, HostSlot
<1>3. CASE p.version = 4
  BY <1>1, <1>2, <1>3 DEF NetSlot, HostSlot, Slots, Hosts
<1>4. CASE p.version # 4
  BY <1>1, <1>2, <1>4 DEF NetSlot, HostSlot, Slots, Hosts
<1> QED
  BY <1>3, <1>4


-----------------------------------------------------------------------------
(* The shape of the threads' state is kept. *)

\* Accepting a packet keeps the threads' invariant,
LEMMA ReceiveThreads ==
    ASSUME ThreadsInv, NEW c \in Collectors, NEW p \in mix, Receive(c, p), UNCHANGED mix
    PROVE  ThreadsInv'
<1> USE DEF ThreadsInv
<1>1. p \in Packets /\ p.packets \in Nat
  BY PacketAssumption DEF TypeOK, Packets
<1>2. task' \in [Collectors -> [packet : Packets \cup {NoPacket}, steps : Seq(StepNames)]] /\ TaskShape'
  <2>1. CASE Accepted(p)
    BY <1>1, <2>1, ReceiveShape DEF Receive
  <2>2. CASE ~Accepted(p)
    BY <2>2 DEF Receive, TypeOK, TaskShape
  <2> QED
    BY <2>1, <2>2
<1>3. owed' \in [Slots -> [Sides -> [Fields -> Int]]]
  <2>1. CASE Accepted(p) /\ Ours(p)
    <3>1. owed' = [owed EXCEPT ![NetSlot(p)]  = Count(@, p, NetFields(p)),
                               ![HostSlot(p)] = Count(@, p, FieldsOf(p))]
      BY <2>1 DEF Receive
    <3>2. /\ Count(owed[NetSlot(p)], p, NetFields(p)) \in [Sides -> [Fields -> Int]]
          /\ Count(owed[HostSlot(p)], p, FieldsOf(p)) \in [Sides -> [Fields -> Int]]
      BY <1>1, <2>1, SlotShape, CountInt DEF TypeOK
    <3> QED
      BY <2>1, <3>1, <3>2, SlotShape DEF TypeOK
  <2>2. CASE ~(Accepted(p) /\ Ours(p))
    BY <2>2 DEF Receive, TypeOK
  <2> QED
    BY <2>1, <2>2
<1> QED
  BY <1>2, <1>3 DEF Receive, TypeOK, RecalcShape

\* so does each step of a collector.
LEMMA CollectorThreads ==
    ASSUME ThreadsInv, NEW c \in Collectors, Collector(c), UNCHANGED mix
    PROVE  ThreadsInv'
<1> USE DEF ThreadsInv
<1> DEFINE p == task[c].packet
<1>1. PICK step : Doing(c, step)
  BY DEF Collector, CountNetwork, CountTotal, CountHost, CountFlow
<1>2. Done(c)
  BY DEF Collector, CountNetwork, CountTotal, CountHost, CountFlow
<1>3. /\ task' \in [Collectors -> [packet : Packets \cup {NoPacket}, steps : Seq(StepNames)]]
      /\ TaskShape' /\ p \in Packets
  BY <1>1, <1>2, DoneShape
<1>4. p.packets \in Nat
  BY <1>3, PacketAssumption DEF Packets
<1>5. counter' \in [Slots -> [Sides -> [Fields -> Nat]]]
  <2>1. CASE CountNetwork(c)
    <3>1. CASE Ours(p)
      <4>1. counter[NetSlot(p)] \in [Sides -> [Fields -> Nat]]
        BY <3>1, SlotShape DEF TypeOK
      <4>2. Count(counter[NetSlot(p)], p, NetFields(p)) \in [Sides -> [Fields -> Nat]]
        BY <1>4, <4>1, CountNat
      <4> QED
        BY <2>1, <3>1, <4>2 DEF CountNetwork, TypeOK
    <3>2. CASE ~Ours(p)
      BY <2>1, <3>2 DEF CountNetwork, TypeOK
    <3> QED
      BY <3>1, <3>2
  <2>2. CASE CountHost(c)
    <3>1. Ours(p)
      <4>1. task[c].steps \in Seq(StepNames) /\ task[c].steps # << >> /\ Head(task[c].steps) = "host"
        BY <2>2 DEF CountHost, Doing, TypeOK
      <4>2. 1 \in DOMAIN task[c].steps /\ task[c].steps[1] = "host"
        BY <4>1
      <4> QED
        BY <4>2 DEF TaskShape
    <3>2. counter[HostSlot(p)] \in [Sides -> [Fields -> Nat]]
      BY <3>1, SlotShape DEF TypeOK
    <3>3. Count(counter[HostSlot(p)], p, FieldsOf(p)) \in [Sides -> [Fields -> Nat]]
      BY <1>4, <3>2, CountNat
    <3> QED
      BY <2>2, <3>3 DEF CountHost, TypeOK
  <2>3. CASE CountTotal(c) \/ CountFlow(c)
    BY <2>3 DEF CountTotal, CountFlow, TypeOK
  <2> QED
    BY <2>1, <2>2, <2>3 DEF Collector
<1>6. flows' \in [Hosts4 -> [Sides -> [Connections -> {"absent", "waiting", "late", "counted"}]]]
  <2>1. CASE CountFlow(c)
    <3> DEFINE new == IF recalc.at \in {"build", "zero", "flows"} THEN "late" ELSE "waiting"
    <3>1. \/ flows' = flows
          \/ flows' = [flows EXCEPT ![Host(p)][Side(p)][p.connection] = IF @ = "absent" THEN new ELSE @]
      BY <2>1 DEF CountFlow
    <3>2. new \in {"late", "waiting"}
      OBVIOUS
    <3> HIDE DEF new
    <3>3. Side(p) \in Sides /\ p.connection \in Connections
      BY <1>3, SideType DEF Connections
    <3> HIDE DEF p
    <3>4. CASE flows' = flows
      BY <3>4 DEF TypeOK
    <3>5. CASE flows' # flows
      <4> DEFINE h == Host(p)
                 side == Side(p)
                 x == IF flows[h][side][p.connection] = "absent" THEN new
                      ELSE flows[h][side][p.connection]
      <4>1. flows' = [g \in Hosts4 |-> IF g = h
                        THEN [flows[h] EXCEPT ![side] = [flows[h][side] EXCEPT ![p.connection] = x]]
                        ELSE flows[g]]
        BY <3>1, <3>5 DEF TypeOK
      <4>2. h \in Hosts4 => x \in {"absent", "waiting", "late", "counted"}
        BY <3>2, <3>3 DEF TypeOK
      <4> HIDE DEF h, side, x
      <4> DEFINE Table == [Connections -> {"absent", "waiting", "late", "counted"}]
      <4>3. h \in Hosts4 => [flows[h][side] EXCEPT ![p.connection] = x] \in Table
        BY <3>3, <4>2 DEF TypeOK, side
      <4> HIDE DEF Table
      <4>4. h \in Hosts4 => [flows[h] EXCEPT ![side] = [flows[h][side] EXCEPT ![p.connection] = x]]
                               \in [Sides -> Table]
        BY <4>3 DEF TypeOK, Table
      <4>5. flows \in [Hosts4 -> [Sides -> Table]]
        BY DEF TypeOK, Table
      <4>6. flows' \in [Hosts4 -> [Sides -> Table]]
        BY <4>1, <4>4, <4>5
      <4> QED
        BY <4>6 DEF Table
    <3> QED
      BY <3>4, <3>5
  <2>2. CASE ~CountFlow(c)
    BY <2>2 DEF Collector, CountNetwork, CountTotal, CountHost, TypeOK
  <2> QED
    BY <2>1, <2>2
<1>7. UNCHANGED <<recalc, average, owed>>
  BY DEF Collector, CountNetwork, CountTotal, CountHost, CountFlow
<1> QED
  BY <1>3, <1>5, <1>6, <1>7 DEF TypeOK, RecalcShape


\* The recalculation thread moves from map to map and from key to key.
LEMMA RecalculationThreads ==
    ASSUME ThreadsInv, Recalculation, UNCHANGED mix
    PROVE  ThreadsInv'
<1> USE DEF ThreadsInv
<1>1. UNCHANGED task /\ TaskShape'
  BY DEF Recalculation, Wake, BuildSpeed, Zeroify, NextMap, zeroify_all_flow_counters, ReadTotal,
         ClearTotal, TaskShape
<1>2. \A map : SlotsOf(map) \subseteq Slots /\ \A s \in SlotsOf(map) : s[1] = map
  BY DEF SlotsOf
<1>3. recalc' \in Recalcs /\ RecalcShape'
  <2>1. CASE Wake
    <3>1. PICK period \in Periods :
             recalc' = [Asleep EXCEPT !.at = "build", !.todo = SlotsOf(MapOrder[1]), !.period = period]
      BY <2>1 DEF Wake
    <3>2. recalc' = [at |-> "build", map |-> 1, todo |-> SlotsOf(MapOrder[1]), slot |-> << >>,
                     index |-> 1, period |-> period]
      BY <3>1 DEF Asleep
    <3>3. period \in Nat \ {0}
      BY PeriodAssumption
    <3> QED
      BY <1>2, <3>2, <3>3 DEF Recalcs, RecalcShape
  <2>2. ASSUME NEW s \in recalc.todo, BuildSpeed(s) PROVE recalc' \in Recalcs /\ RecalcShape'
    <3>1. recalc' = [recalc EXCEPT !.at = "zero", !.slot = s, !.todo = @ \ {s}] /\ recalc.at = "build"
      BY <2>2 DEF BuildSpeed
    <3> QED
      BY <2>2, <3>1 DEF TypeOK, Recalcs, RecalcShape
  <2>3. CASE Zeroify
    <3>1. recalc' = [recalc EXCEPT !.at = "build", !.slot = << >>] /\ recalc.at = "zero"
      BY <2>3 DEF Zeroify
    <3> QED
      BY <3>1 DEF TypeOK, Recalcs, RecalcShape
  <2>4. CASE NextMap
    <3>1. Len(MapOrder) = 4
      BY DEF MapOrder
    <3>2. recalc.at = "build" /\ recalc.map \in 1 .. 4
      BY <2>4 DEF NextMap, TypeOK, Recalcs
    <3>3. CASE recalc.map = 4
      <4>1. recalc' = [recalc EXCEPT !.at = "flows"]
        BY <2>4, <3>1, <3>3 DEF NextMap
      <4> QED
        BY <3>2, <4>1 DEF TypeOK, Recalcs, RecalcShape
    <3>4. CASE recalc.map # 4
      <4>1. recalc' = [recalc EXCEPT !.map = @ + 1, !.todo = SlotsOf(MapOrder[recalc.map + 1])]
        BY <2>4, <3>1, <3>4 DEF NextMap
      <4>2. recalc.map + 1 \in 1 .. 4
        BY <3>2, <3>4
      <4> QED
        BY <1>2, <3>2, <4>1, <4>2 DEF TypeOK, Recalcs, RecalcShape
    <3> QED
      BY <3>3, <3>4
  <2>5. CASE zeroify_all_flow_counters
    <3>1. recalc' = [recalc EXCEPT !.at = "read"] /\ recalc.at = "flows"
      BY <2>5 DEF zeroify_all_flow_counters
    <3> QED
      BY <3>1 DEF TypeOK, Recalcs, RecalcShape
  <2>6. CASE ReadTotal
    <3>1. recalc' = [recalc EXCEPT !.at = "clear"] /\ recalc.at = "read"
      BY <2>6 DEF ReadTotal
    <3> QED
      BY <3>1 DEF TypeOK, Recalcs, RecalcShape
  <2>7. CASE ClearTotal
    <3>1. CASE recalc' = Asleep
      BY <3>1 DEF TypeOK, Recalcs, RecalcShape, Asleep
    <3>2. CASE recalc' = [recalc EXCEPT !.at = "read", !.index = @ + 1] /\ recalc.at = "clear"
      <4>1. recalc \in Recalcs /\ recalc.index + 1 \in Nat
        BY DEF TypeOK, Recalcs
      <4>2. recalc' \in Recalcs /\ recalc'.at = "read" /\ recalc'.period = recalc.period
        BY <3>2, <4>1 DEF Recalcs
      <4> QED
        BY <3>2, <4>2 DEF RecalcShape
    <3> QED
      BY <2>7, <3>1, <3>2 DEF ClearTotal
  <2> QED
    BY <2>1, <2>2, <2>3, <2>4, <2>5, <2>6, <2>7 DEF Recalculation
<1>4. counter' \in [Slots -> [Sides -> [Fields -> Nat]]]
  <2>1. CASE Zeroify
    BY <2>1 DEF Zeroify, zeroify, NoTraffic, TypeOK
  <2>2. CASE counter' = counter
    BY <2>2 DEF TypeOK
  <2> QED
    BY <2>1, <2>2 DEF Recalculation, Wake, BuildSpeed, NextMap, zeroify_all_flow_counters, ReadTotal,
                      ClearTotal
<1>5. flows' \in [Hosts4 -> [Sides -> [Connections -> {"absent", "waiting", "late", "counted"}]]]
  <2>1. ASSUME NEW s \in recalc.todo, BuildSpeed(s)
        PROVE  flows' \in [Hosts4 -> [Sides -> [Connections -> {"absent", "waiting", "late", "counted"}]]]
    BY <2>1 DEF BuildSpeed, Counted, TypeOK
  <2>2. CASE zeroify_all_flow_counters
    BY <2>2 DEF zeroify_all_flow_counters, TypeOK
  <2>3. CASE flows' = flows
    BY <2>3 DEF TypeOK
  <2> QED
    BY <2>1, <2>2, <2>3 DEF Recalculation, Wake, Zeroify, NextMap, ReadTotal, ClearTotal
<1>6. /\ owed' \in [Slots -> [Sides -> [Fields -> Int]]]
      /\ DOMAIN average' = Slots
      /\ \A s \in Slots, side \in Sides, f \in Fields : average'[s][side][f] \in Nat
  <2>1. ASSUME NEW s \in recalc.todo, BuildSpeed(s) PROVE <1>6
    <3>1. s \in Slots /\ recalc.period \in Periods /\ recalc.period \in Nat \ {0}
      BY <2>1, PeriodAssumption DEF BuildSpeed, RecalcShape
    <3>2. owed' = [owed EXCEPT ![s] = [side \in Sides |-> [f \in Fields |->
                                           @[side][f] - counter[s][side][f]]]]
      BY <2>1 DEF BuildSpeed
    <3>3. owed' \in [Slots -> [Sides -> [Fields -> Int]]]
      BY <3>1, <3>2 DEF TypeOK
    <3>4. average' = [average EXCEPT ![s] =
                          [side \in Sides |-> [f \in Fields \cup {"flows"} |->
                              Smooth(SpeedOf(s)[side][f], @[side][f], recalc.period)]]]
      BY <2>1 DEF BuildSpeed
    <3>5. \A side \in Sides, f \in Fields : SpeedOf(s)[side][f] \in Nat
      <4>1. \A a \in Nat, d \in Nat \ {0} : a \div d \in Nat
        OBVIOUS
      <4>2. \A f \in Fields : f # "flows"
        BY DEF Fields
      <4>3. \A side \in Sides, f \in Fields : SpeedOf(s)[side][f] = counter[s][side][f] \div recalc.period
        BY <4>2 DEF SpeedOf
      <4>4. \A side \in Sides, f \in Fields : counter[s][side][f] \in Nat
        BY <3>1 DEF TypeOK
      <4> QED
        BY <3>1, <4>1, <4>3, <4>4
    <3>6. ASSUME NEW side \in Sides, NEW f \in Fields PROVE average'[s][side][f] \in Nat
      <4>1. average'[s][side][f] = Smooth(SpeedOf(s)[side][f], average[s][side][f], recalc.period)
        BY <3>1, <3>4 DEF TypeOK
      <4>2. average[s][side][f] \in Nat
        BY <3>1 DEF TypeOK
      <4> QED
        BY <3>1, <3>5, <4>1, <4>2, SmoothType
    <3>7. DOMAIN average' = Slots /\ \A u \in Slots : u # s => average'[u] = average[u]
      BY <3>4 DEF TypeOK
    <3>8. ASSUME NEW u \in Slots, NEW side \in Sides, NEW f \in Fields PROVE average'[u][side][f] \in Nat
      BY <3>6, <3>7 DEF TypeOK
    <3> QED
      BY <3>3, <3>7, <3>8
  <2>2. CASE UNCHANGED <<owed, average>>
    BY <2>2 DEF TypeOK
  <2> QED
    BY <2>1, <2>2 DEF Recalculation, Wake, Zeroify, NextMap, ReadTotal, ClearTotal,
                      zeroify_all_flow_counters
<1> QED
  BY <1>1, <1>3, <1>4, <1>5, <1>6 DEF TypeOK

\* Every step keeps the threads' invariant.
LEMMA StepThreadsInv == ThreadsInv /\ [Next]_vars => ThreadsInv'
<1> SUFFICES ASSUME ThreadsInv, [Next]_vars PROVE ThreadsInv'
  OBVIOUS
<1>1. CASE Next
  BY <1>1, ReceiveThreads, CollectorThreads, RecalculationThreads DEF Next
<1>2. CASE UNCHANGED vars
  BY <1>2 DEF vars, ThreadsInv, TypeOK, TaskShape, RecalcShape
<1> QED
  BY <1>1, <1>2


\* The threads' invariant holds in every behaviour.
LEMMA ThreadsInvHolds == Spec => []ThreadsInv
  BY InitThreadsInv, StepThreadsInv, PTL DEF Spec

-----------------------------------------------------------------------------
(* Connections *)

\* The collectors keep the invariant of the flow table,
LEMMA CollectorFlows ==
    ASSUME ThreadsInv, FlowInv, NEW c \in Collectors, Collector(c)
    PROVE  FlowInv'
<1> USE DEF ThreadsInv
<1>1. recalc' = recalc
  BY DEF Collector, CountNetwork, CountTotal, CountHost, CountFlow
<1>2. CASE flows' = flows
  BY <1>1, <1>2 DEF FlowInv
<1>3. CASE CountFlow(c) /\ recalc.at \in {"build", "zero", "flows"}
  <2> DEFINE p == task[c].packet
  <2>1. \/ flows' = flows
        \/ flows' = [flows EXCEPT ![Host(p)][Side(p)][p.connection] = IF @ = "absent" THEN "late" ELSE @]
    BY <1>3 DEF CountFlow
  <2> HIDE DEF p
  <2>2. \A h \in Hosts4, side \in Sides, n \in Connections :
          flows'[h][side][n] = "waiting" => flows[h][side][n] = "waiting"
    <3>1. SUFFICES ASSUME NEW h \in Hosts4, NEW side \in Sides, NEW n \in Connections,
                          flows' = [flows EXCEPT ![Host(p)][Side(p)][p.connection] =
                                       IF @ = "absent" THEN "late" ELSE @]
                   PROVE  flows'[h][side][n] \in {flows[h][side][n], "late"}
      BY <2>1
    <3> DEFINE x == IF flows[Host(p)][Side(p)][p.connection] = "absent" THEN "late"
                    ELSE flows[Host(p)][Side(p)][p.connection]
    <3>2. flows'[h] = IF h = Host(p)
                      THEN [flows[h] EXCEPT ![Side(p)] = [flows[h][Side(p)] EXCEPT ![p.connection] = x]]
                      ELSE flows[h]
      BY <3>1 DEF TypeOK
    <3>3. h = Host(p) => flows'[h][side] = IF side = Side(p)
                                           THEN [flows[h][side] EXCEPT ![p.connection] = x]
                                           ELSE flows[h][side]
      BY <3>2 DEF TypeOK
    <3>4. /\ flows[h][side] \in [Connections -> {"absent", "waiting", "late", "counted"}]
          /\ h = Host(p) /\ side = Side(p) /\ n = p.connection => x \in {flows[h][side][n], "late"}
      BY DEF TypeOK
    <3> HIDE DEF x
    <3> QED
      BY <3>2, <3>3, <3>4
  <2> QED
    BY <1>1, <2>2 DEF FlowInv
<1>4. CASE recalc.at \notin {"build", "zero", "flows"}
  BY <1>1, <1>4 DEF FlowInv
<1> QED
  BY <1>2, <1>3, <1>4 DEF Collector, CountNetwork, CountTotal, CountHost

\* so does the recalculation thread,
LEMMA RecalculationFlows ==
    ASSUME ThreadsInv, FlowInv, Recalculation
    PROVE  FlowInv'
<1> USE DEF ThreadsInv
<1>1. CASE Wake
  BY <1>1 DEF Wake, Asleep, FlowInv
<1>2. ASSUME NEW s \in recalc.todo, BuildSpeed(s) PROVE FlowInv'
  <2>1. /\ recalc.at = "build" /\ recalc'.map = recalc.map /\ recalc'.todo = recalc.todo \ {s}
        /\ recalc'.at = "zero"
    BY <1>2 DEF BuildSpeed, TypeOK, Recalcs
  <2>2. ASSUME NEW h \in Hosts4, NEW side \in Sides, NEW n \in Connections,
               flows'[h][side][n] = "waiting"
        PROVE  flows[h][side][n] = "waiting" /\ s # <<"host4", h>>
    <3>1. CASE s[1] = "host4"
      BY <1>2, <2>2, <3>1 DEF BuildSpeed, Counted, TypeOK
    <3>2. CASE s[1] # "host4"
      BY <1>2, <2>2, <3>2 DEF BuildSpeed
    <3> QED
      BY <3>1, <3>2
  <2> QED
    BY <2>1, <2>2 DEF FlowInv
<1>3. CASE Zeroify
  <2>1. /\ recalc.at = "zero" /\ recalc'.map = recalc.map /\ recalc'.todo = recalc.todo
        /\ recalc'.at = "build" /\ flows' = flows
    BY <1>3 DEF Zeroify, TypeOK, Recalcs
  <2> QED
    BY <2>1 DEF FlowInv
<1>4. CASE NextMap
  <2>1. recalc.at = "build" /\ recalc.todo = {} /\ flows' = flows
    BY <1>4 DEF NextMap
  <2>2. \A h \in Hosts4, side \in Sides, n \in Connections :
          flows[h][side][n] = "waiting" => recalc.map = 1
    BY <2>1 DEF FlowInv
  <2>3. CASE recalc.map = 1
    <3>1. recalc' = [recalc EXCEPT !.map = @ + 1, !.todo = SlotsOf(MapOrder[recalc.map + 1])]
      BY <1>4, <2>3 DEF NextMap, MapOrder
    <3>2. recalc'.map = 2 /\ recalc'.todo = SlotsOf("host4") /\ recalc'.at = "build"
      BY <2>1, <2>3, <3>1 DEF TypeOK, Recalcs, MapOrder
    <3>3. \A h \in Hosts4 : <<"host4", h>> \in SlotsOf("host4")
      BY DEF SlotsOf, Slots
    <3> QED
      BY <3>2, <3>3 DEF FlowInv
  <2>4. CASE recalc.map # 1
    BY <2>1, <2>2, <2>4 DEF FlowInv
  <2> QED
    BY <2>3, <2>4
<1>5. CASE zeroify_all_flow_counters \/ ReadTotal \/ ClearTotal
  <2>1. CASE zeroify_all_flow_counters \/ ReadTotal
    BY <2>1 DEF zeroify_all_flow_counters, ReadTotal, TypeOK, Recalcs, FlowInv
  <2>2. CASE ClearTotal
    BY <2>2 DEF ClearTotal, Asleep, TypeOK, Recalcs, FlowInv
  <2> QED
    BY <1>5, <2>1, <2>2
<1> QED
  BY <1>1, <1>2, <1>3, <1>4, <1>5 DEF Recalculation

\* and so every step.
LEMMA StepFlowInv == ThreadsInv /\ FlowInv /\ [Next]_vars => FlowInv'
<1> SUFFICES ASSUME ThreadsInv, FlowInv, [Next]_vars PROVE FlowInv'
  OBVIOUS
<1>1. ASSUME NEW c \in Collectors, NEW p \in mix, Receive(c, p) PROVE FlowInv'
  BY <1>1 DEF Receive, FlowInv
<1>2. CASE UNCHANGED vars
  BY <1>2 DEF vars, FlowInv
<1> QED
  BY <1>1, <1>2, CollectorFlows, RecalculationFlows DEF Next

\* A connection that was recorded before recalculate_speed started is in the flow table when
\* its host is looked at, so zeroify_all_flow_counters never clears one that was not counted,
\* except those the collectors add in the meantime.
THEOREM WaitingFlowsAreCounted == Spec => []FlowLossConfined
<1>1. Init => FlowInv
  BY DEF Init, FlowInv, Asleep
<1>2. FlowInv => FlowLossConfined
  BY DEF FlowInv, FlowLossConfined
<1> QED
  BY <1>1, <1>2, StepFlowInv, ThreadsInvHolds, PTL DEF Spec

-----------------------------------------------------------------------------
(* Parts of a whole *)

\* Multiplication keeps an order.
LEMMA TimesMonotone ==
    ASSUME NEW k \in Nat, NEW a \in Nat, NEW b \in Nat, a <= b
    PROVE  a * k <= b * k /\ a * k \in Nat /\ b * k \in Nat
  OBVIOUS

\* What floor division is.
LEMMA DivBounds ==
    ASSUME NEW t \in Nat, NEW k \in Nat \ {0}
    PROVE  /\ t \div k \in Nat
           /\ (t \div k) * k <= t
           /\ t < (t \div k + 1) * k
  OBVIOUS

\* A multiple that fits is at most the quotient.
LEMMA DivMonotone ==
    ASSUME NEW t \in Nat, NEW k \in Nat \ {0}, NEW q \in Nat, q * k <= t
    PROVE  q <= t \div k
<1> DEFINE d == t \div k
<1>1. d \in Nat /\ t < (d + 1) * k
  BY DivBounds
<1> HIDE DEF d
<1>2. CASE d + 1 <= q
  <2>1. (d + 1) * k <= q * k /\ (d + 1) * k \in Nat /\ q * k \in Nat
    BY <1>1, <1>2, TimesMonotone
  <2> QED
    BY <1>1, <2>1
<1> QED
  BY <1>1, <1>2 DEF d

\* Truncated parts stay within the truncated whole: three of them,
LEMMA DivOfParts ==
    ASSUME NEW k \in Nat \ {0}, NEW a \in Nat, NEW b \in Nat, NEW c \in Nat, NEW t \in Nat,
           a + b + c <= t
    PROVE  (a \div k) + (b \div k) + (c \div k) <= t \div k
<1> DEFINE qa == a \div k
           qb == b \div k
           qc == c \div k
<1>1. /\ qa \in Nat /\ qa * k <= a
      /\ qb \in Nat /\ qb * k <= b
      /\ qc \in Nat /\ qc * k <= c
  BY DivBounds
<1> HIDE DEF qa, qb, qc
<1>2. (qa + qb + qc) * k = qa * k + qb * k + qc * k
  BY <1>1
<1>3. qa * k \in Nat /\ qb * k \in Nat /\ qc * k \in Nat
  BY <1>1
<1>4. (qa + qb + qc) * k <= t
  BY <1>1, <1>2, <1>3
<1>5. qa + qb + qc \in Nat
  BY <1>1
<1>6. qa + qb + qc <= t \div k
  BY <1>4, <1>5, DivMonotone
<1> QED
  BY <1>6 DEF qa, qb, qc

\* The moving average of the parts is within the moving average of the whole.
LEMMA SmoothOfParts ==
    ASSUME NEW period \in Periods,
           NEW xa \in Nat, NEW xb \in Nat, NEW xc \in Nat, NEW xt \in Nat, xa + xb + xc <= xt,
           NEW ya \in Nat, NEW yb \in Nat, NEW yc \in Nat, NEW yt \in Nat, ya + yb + yc <= yt
    PROVE  Smooth(xa, ya, period) + Smooth(xb, yb, period) + Smooth(xc, yc, period)
              <= Smooth(xt, yt, period)
<1> DEFINE num == ExpNum ^ period
           den == ExpDen ^ period
           w == den - num
<1>1. num \in Nat /\ den \in Nat \ {0} /\ num <= den
  BY WeightAssumption
<1>2. w \in Nat
  BY <1>1
<1> HIDE DEF num, den, w
<1>3. /\ xa * w \in Nat /\ xb * w \in Nat /\ xc * w \in Nat /\ xt * w \in Nat
      /\ ya * num \in Nat /\ yb * num \in Nat /\ yc * num \in Nat /\ yt * num \in Nat
  BY <1>1, <1>2
<1>4. xa * w + xb * w + xc * w <= xt * w
  <2>1. (xa + xb + xc) * w <= xt * w
    BY <1>2, TimesMonotone
  <2>2. (xa + xb + xc) * w = xa * w + xb * w + xc * w
    BY <1>2
  <2> QED
    BY <2>1, <2>2
<1>5. ya * num + yb * num + yc * num <= yt * num
  <2>1. (ya + yb + yc) * num <= yt * num
    BY <1>1, TimesMonotone
  <2>2. (ya + yb + yc) * num = ya * num + yb * num + yc * num
    BY <1>1
  <2> QED
    BY <2>1, <2>2
<1>6. (xa * w + ya * num) + (xb * w + yb * num) + (xc * w + yc * num) <= xt * w + yt * num
  BY <1>3, <1>4, <1>5
<1>7. /\ xa * w + ya * num \in Nat /\ xb * w + yb * num \in Nat
      /\ xc * w + yc * num \in Nat /\ xt * w + yt * num \in Nat
  BY <1>3
<1>8. ((xa * w + ya * num) \div den) + ((xb * w + yb * num) \div den) + ((xc * w + yc * num) \div den)
         <= (xt * w + yt * num) \div den
  BY <1>1, <1>6, <1>7, DivOfParts
<1> QED
  BY <1>8 DEF Smooth, num, den, w


\* The same of one part.
LEMMA SmoothOfPart ==
    ASSUME NEW period \in Periods, NEW xa \in Nat, NEW xt \in Nat, xa <= xt,
           NEW ya \in Nat, NEW yt \in Nat, ya <= yt
    PROVE  Smooth(xa, ya, period) <= Smooth(xt, yt, period)
<1>1. Smooth(xa, ya, period) + Smooth(0, 0, period) + Smooth(0, 0, period) <= Smooth(xt, yt, period)
  BY SmoothOfParts
<1>2. /\ Smooth(xa, ya, period) \in Nat /\ Smooth(0, 0, period) \in Nat
      /\ Smooth(xt, yt, period) \in Nat
  BY SmoothType
<1> QED
  BY <1>1, <1>2

\* and one.
LEMMA DivOfPart ==
    ASSUME NEW k \in Nat \ {0}, NEW a \in Nat, NEW t \in Nat, a <= t
    PROVE  a \div k <= t \div k
<1>1. (a \div k) + (0 \div k) + (0 \div k) <= t \div k
  BY DivOfParts
<1>2. a \div k \in Nat /\ 0 \div k \in Nat /\ t \div k \in Nat
  BY DivBounds
<1> QED
  BY <1>1, <1>2

\* A packet is counted under the total, under one protocol at most, and as a SYN only if it
\* is a TCP packet.
LEMMA FieldsShape ==
    ASSUME NEW p, NEW fields, fields \in {{"total"}, FieldsOf(p)}
    PROVE  /\ "total" \in fields
           /\ ~("tcp" \in fields /\ "udp" \in fields)
           /\ ~("tcp" \in fields /\ "icmp" \in fields)
           /\ ~("udp" \in fields /\ "icmp" \in fields)
           /\ "tcp_syn" \in fields => "tcp" \in fields
  BY DEF FieldsOf

\* Counting a packet keeps the parts within the whole.
LEMMA CountWithin ==
    ASSUME NEW r \in [Sides -> [Fields -> Nat]], NEW p, p.packets \in Nat,
           NEW fields, fields \in {{"total"}, FieldsOf(p)},
           \A side \in Sides : Within(r[side])
    PROVE  \A side \in Sides : Within(Count(r, p, fields)[side])
<1> SUFFICES ASSUME NEW side \in Sides PROVE Within(Count(r, p, fields)[side])
  OBVIOUS
<1> DEFINE new == Count(r, p, fields)[side]
           old == r[side]
<1>1. CASE side # Side(p)
  BY <1>1 DEF Count
<1>2. CASE side = Side(p)
  <2>1. \A f \in Fields : new[f] = old[f] + (IF f \in fields THEN p.packets ELSE 0)
    BY <1>2 DEF Count
  <2>2. \A f \in Fields : old[f] \in Nat
    OBVIOUS
  <2>3. Within(old)
    OBVIOUS
  <2> HIDE DEF new, old
  <2>4. Within(new)
    BY <2>1, <2>2, <2>3, FieldsShape DEF Within, Fields
  <2> QED
    BY <2>4 DEF new
<1> QED
  BY <1>1, <1>2

\* A collector counts in the total whatever it counts in a part.
LEMMA CollectorWithin ==
    ASSUME ThreadsInv, CountersWithin, NEW c \in Collectors, Collector(c)
    PROVE  CountersWithin'
<1> USE DEF ThreadsInv
<1> DEFINE p == task[c].packet
<1>1. p.packets \in Nat
  <2>1. task[c].steps # << >>
    BY DEF Collector, CountNetwork, CountTotal, CountHost, CountFlow, Doing
  <2> QED
    BY <2>1, PacketAssumption DEF TaskShape, Packets
<1> HIDE DEF p
<1>2. ASSUME NEW s, NEW fields, fields \in {{"total"}, FieldsOf(p)},
             counter' = [counter EXCEPT ![s] = Count(@, p, fields)]
      PROVE  CountersWithin'
  <2>1. CASE s \in Slots
    <3>1. counter[s] \in [Sides -> [Fields -> Nat]] /\ \A side \in Sides : Within(counter[s][side])
      BY <2>1 DEF TypeOK, CountersWithin
    <3>2. \A side \in Sides : Within(Count(counter[s], p, fields)[side])
      BY <1>1, <1>2, <3>1, CountWithin
    <3>3. /\ counter'[s] = Count(counter[s], p, fields)
          /\ \A u \in Slots : u # s => counter'[u] = counter[u]
      BY <1>2, <2>1 DEF TypeOK
    <3> QED
      BY <3>2, <3>3 DEF CountersWithin
  <2>2. CASE s \notin Slots
    BY <1>2, <2>2 DEF TypeOK, CountersWithin
  <2> QED
    BY <2>1, <2>2
<1>3. CASE counter' = counter
  BY <1>3 DEF CountersWithin
<1>4. CASE CountNetwork(c)
  BY <1>2, <1>3, <1>4 DEF CountNetwork, NetFields, p
<1>5. CASE CountHost(c)
  BY <1>2, <1>5 DEF CountHost, p
<1> QED
  BY <1>3, <1>4, <1>5 DEF Collector, CountTotal, CountFlow

\* Every step keeps the parts within their total.
LEMMA StepCountersWithin == ThreadsInv /\ CountersWithin /\ [Next]_vars => CountersWithin'
<1> SUFFICES ASSUME ThreadsInv, CountersWithin, [Next]_vars PROVE CountersWithin'
  OBVIOUS
<1>1. CASE counter' = counter
  BY <1>1 DEF CountersWithin
<1>2. CASE Zeroify
  <2>1. \A side \in Sides : Within(NoTraffic[side])
    BY DEF Within, NoTraffic, Fields
  <2>2. counter' = [counter EXCEPT ![recalc.slot] = NoTraffic]
    BY <1>2 DEF Zeroify, zeroify
  <2>3. \A s \in Slots : counter'[s] \in {counter[s], NoTraffic}
    BY <2>2 DEF ThreadsInv, TypeOK
  <2> QED
    BY <2>1, <2>3 DEF CountersWithin
<1> QED
  BY <1>1, <1>2, CollectorWithin
     DEF Next, Receive, Recalculation, Wake, BuildSpeed, NextMap, zeroify_all_flow_counters,
         ReadTotal, ClearTotal, vars

\* A key's new average is made of parts that are within their whole.
LEMMA BuildSpeedWithin ==
    ASSUME ThreadsInv, CountersWithin, PartsWithinTotal, NEW s \in recalc.todo, BuildSpeed(s)
    PROVE  PartsWithinTotal'
<1> USE DEF ThreadsInv
<1> DEFINE k == recalc.period
<1>1. s \in Slots /\ k \in Periods /\ k \in Nat \ {0}
  BY PeriodAssumption DEF BuildSpeed, RecalcShape
<1>2. ASSUME NEW side \in Sides PROVE Within(average'[s][side])
  <2> DEFINE n(f) == counter[s][side][f] \div k
             o(f) == average[s][side][f]
  <2>1. \A f \in Fields : average'[s][side][f] = Smooth(n(f), o(f), k)
    <3>1. average' = [average EXCEPT ![s] =
                          [d \in Sides |-> [f \in Fields \cup {"flows"} |->
                              Smooth(SpeedOf(s)[d][f], @[d][f], recalc.period)]]]
      BY DEF BuildSpeed
    <3>2. \A f \in Fields : average'[s][side][f] = Smooth(SpeedOf(s)[side][f], average[s][side][f], k)
      BY <1>1, <3>1 DEF TypeOK
    <3>3. \A f \in Fields : f # "flows"
      BY DEF Fields
    <3>4. \A f \in Fields : SpeedOf(s)[side][f] = n(f)
      BY <3>3 DEF SpeedOf
    <3> QED
      BY <3>2, <3>4
  <2>2. \A f \in Fields : counter[s][side][f] \in Nat /\ o(f) \in Nat
    BY <1>1 DEF TypeOK
  <2>3. \A f \in Fields : n(f) \in Nat
    BY <1>1, <2>2, DivBounds
  <2>4. Within(counter[s][side]) /\ Within(average[s][side])
    BY <1>1 DEF CountersWithin, PartsWithinTotal, Within
  <2>5. /\ n("tcp") + n("udp") + n("icmp") <= n("total")
        /\ n("tcp_syn") <= n("tcp")
        /\ n("fragmented") <= n("total")
        /\ n("dropped") <= n("total")
    BY <1>1, <2>2, <2>4, DivOfPart, DivOfParts DEF Within, Fields
  <2>6. /\ o("tcp") + o("udp") + o("icmp") <= o("total")
        /\ o("tcp_syn") <= o("tcp")
        /\ o("fragmented") <= o("total")
        /\ o("dropped") <= o("total")
    BY <2>4 DEF Within
  <2>7. \A f \in Fields : o(f) \in Nat
    BY <2>2
  <2> HIDE DEF n, o, k
  <2>8. Smooth(n("tcp"), o("tcp"), k) + Smooth(n("udp"), o("udp"), k) + Smooth(n("icmp"), o("icmp"), k)
           <= Smooth(n("total"), o("total"), k)
    BY <1>1, <2>3, <2>5, <2>6, <2>7, SmoothOfParts DEF Fields
  <2>9. /\ Smooth(n("tcp_syn"), o("tcp_syn"), k) <= Smooth(n("tcp"), o("tcp"), k)
        /\ Smooth(n("fragmented"), o("fragmented"), k) <= Smooth(n("total"), o("total"), k)
        /\ Smooth(n("dropped"), o("dropped"), k) <= Smooth(n("total"), o("total"), k)
    BY <1>1, <2>3, <2>5, <2>6, <2>7, SmoothOfPart DEF Fields
  <2> QED
    BY <2>1, <2>8, <2>9 DEF Within, Fields
<1>3. \A u \in Slots : u # s => average'[u] = average[u]
  BY DEF BuildSpeed, TypeOK
<1> QED
  BY <1>2, <1>3 DEF PartsWithinTotal, Within

\* Whatever is counted, and however often it is divided, averaged and truncated, the speeds
\* of the protocols never add up to more than the total speed.
THEOREM SpeedsAreParts == Spec => []PartsWithinTotal
<1>1. Init => CountersWithin /\ PartsWithinTotal
  BY DEF Init, CountersWithin, PartsWithinTotal, Within, NoTraffic, NoSpeed, Fields
<1>2. ThreadsInv /\ CountersWithin /\ PartsWithinTotal /\ [Next]_vars => PartsWithinTotal'
  <2> SUFFICES ASSUME ThreadsInv, CountersWithin, PartsWithinTotal, [Next]_vars PROVE PartsWithinTotal'
    OBVIOUS
  <2>1. CASE average' = average
    BY <2>1 DEF PartsWithinTotal
  <2> QED
    BY <2>1, BuildSpeedWithin
       DEF Next, Receive, Collector, CountNetwork, CountTotal, CountHost, CountFlow, Recalculation,
           Wake, Zeroify, NextMap, zeroify_all_flow_counters, ReadTotal, ClearTotal, vars
<1> QED
  BY <1>1, <1>2, StepCountersWithin, ThreadsInvHolds, PTL DEF Spec


-----------------------------------------------------------------------------
(* What the collectors have in hand *)

\* The packets a function says the collectors hold.
InHand(g) == UNION {{c} \X (1 .. g[c]) : c \in Collectors}

\* What collectors have in hand is a finite set.
LEMMA InHandFinite ==
    ASSUME NEW g \in [Collectors -> Nat]
    PROVE  IsFiniteSet(InHand(g))
<1> DEFINE share == [c \in Collectors |-> {c} \X (1 .. g[c])]
           Shares == {{c} \X (1 .. g[c]) : c \in Collectors}
<1>1. share \in Surjection(Collectors, Shares)
  BY DEF Surjection
<1>2. IsFiniteSet(Shares)
  BY <1>1, FS_Surjection, CollectorAssumption
<1>3. ASSUME NEW c \in Collectors PROVE IsFiniteSet({c} \X (1 .. g[c]))
  <2>1. g[c] \in Int /\ 1 \in Int
    OBVIOUS
  <2>2. IsFiniteSet(1 .. g[c])
    BY <2>1, FS_Interval
  <2>3. IsFiniteSet({c})
    BY FS_Singleton
  <2> QED
    BY <2>2, <2>3, FS_Product
<1> QED
  BY <1>2, <1>3, FS_UNION DEF InHand

\* A change of what one collector holds changes the sum by as much.
LEMMA InHandChange ==
    ASSUME NEW g \in [Collectors -> Nat], NEW h \in [Collectors -> Nat], NEW c \in Collectors,
           \A d \in Collectors : d # c => g[d] = h[d]
    PROVE  /\ Cardinality(InHand(g)) \in Nat /\ Cardinality(InHand(h)) \in Nat
           /\ Cardinality(InHand(g)) - g[c] = Cardinality(InHand(h)) - h[c]
<1> DEFINE Zero == [d \in Collectors |-> IF d = c THEN 0 ELSE g[d]]
<1>1. Zero \in [Collectors -> Nat]
  OBVIOUS
<1>2. ASSUME NEW k \in [Collectors -> Nat], \A d \in Collectors : d # c => k[d] = g[d]
      PROVE  /\ Cardinality(InHand(k)) \in Nat
             /\ Cardinality(InHand(k)) = Cardinality(InHand(Zero)) + k[c]
  <2> DEFINE One == {c} \X (1 .. k[c])
  <2>1. IsFiniteSet(One) /\ Cardinality(One) = k[c]
    <3>1. IsFiniteSet(1 .. k[c]) /\ Cardinality(1 .. k[c]) = k[c]
      BY FS_Interval
    <3>2. IsFiniteSet({c}) /\ Cardinality({c}) = 1
      BY FS_Singleton
    <3>3. IsFiniteSet(One) /\ Cardinality(One) = Cardinality({c}) * Cardinality(1 .. k[c])
      BY <3>1, <3>2, FS_Product
    <3> QED
      BY <3>1, <3>2, <3>3
  <2>2. InHand(k) = InHand(Zero) \cup One
    <3>1. ASSUME NEW x \in InHand(k) PROVE x \in InHand(Zero) \cup One
      <4>1. PICK d \in Collectors : x \in {d} \X (1 .. k[d])
        BY DEF InHand
      <4>2. CASE d = c
        BY <4>1, <4>2
      <4>3. CASE d # c
        <5>1. k[d] = Zero[d]
          BY <1>2, <4>3
        <5> QED
          BY <4>1, <5>1 DEF InHand
      <4> QED
        BY <4>2, <4>3
    <3>2. ASSUME NEW x \in InHand(Zero) PROVE x \in InHand(k)
      <4>1. PICK d \in Collectors : x \in {d} \X (1 .. Zero[d])
        BY DEF InHand
      <4>2. d # c
        BY <4>1
      <4>3. Zero[d] = k[d]
        BY <1>2, <4>2
      <4> QED
        BY <4>1, <4>3 DEF InHand
    <3>3. One \subseteq InHand(k)
      BY DEF InHand
    <3> QED
      BY <3>1, <3>2, <3>3
  <2>3. InHand(Zero) \cap One = {}
    <3>1. SUFFICES ASSUME NEW x \in InHand(Zero), x \in One PROVE FALSE
      OBVIOUS
    <3>2. PICK d \in Collectors : x \in {d} \X (1 .. Zero[d])
      BY <3>1 DEF InHand
    <3>3. d = c
      BY <3>1, <3>2
    <3> QED
      BY <3>2, <3>3
  <2>4. IsFiniteSet(InHand(Zero)) /\ IsFiniteSet(InHand(k))
    BY <1>1, InHandFinite
  <2>5. Cardinality(InHand(Zero)) \in Nat /\ Cardinality(InHand(k)) \in Nat
    BY <2>4, FS_CardinalityType
  <2> HIDE DEF One, Zero
  <2>6. Cardinality(InHand(Zero) \cup One)
          = Cardinality(InHand(Zero)) + Cardinality(One) - Cardinality(InHand(Zero) \cap One)
    BY <2>1, <2>4, FS_Union
  <2>7. Cardinality(InHand(Zero) \cap One) = 0
    BY <2>3, FS_EmptySet
  <2> QED
    BY <2>1, <2>2, <2>5, <2>6, <2>7
<1>3. Cardinality(InHand(Zero)) \in Nat
  BY <1>1, InHandFinite, FS_CardinalityType
<1> HIDE DEF Zero
<1>4. Cardinality(InHand(g)) = Cardinality(InHand(Zero)) + g[c]
  BY <1>2
<1>5. Cardinality(InHand(h)) = Cardinality(InHand(Zero)) + h[c]
  BY <1>2
<1> QED
  BY <1>3, <1>4, <1>5


\* A step of a packet adds it to a field of a counter.
Adds(p, step, s, side, f) ==
    /\ Owes(p, step)
    /\ SlotOf(p, step) = s
    /\ Side(p) = side
    /\ f \in FieldsAt(p, step)

\* What the steps q of a packet have still to add.
Pending(p, q, s, side, f) ==
    IF \E i \in DOMAIN q : Adds(p, q[i], s, side, f) THEN p.packets ELSE 0

\* What a collector still has to add, as a function of its packet and steps.
LEMMA DueIsPending ==
    ASSUME NEW c, NEW s, NEW side, NEW f
    PROVE  Due(c, s, side, f) = Pending(task[c].packet, task[c].steps, s, side, f)
  BY DEF Due, Pending, Adds

\* It is a natural number.
LEMMA DueType ==
    ASSUME ThreadsInv, NEW c \in Collectors, NEW s, NEW side, NEW f
    PROVE  Due(c, s, side, f) \in Nat
<1>1. CASE task[c].steps = << >>
  <2>1. DOMAIN task[c].steps = {}
    BY <1>1
  <2> QED
    BY <2>1 DEF Due
<1>2. CASE task[c].steps # << >>
  <2>1. task[c].packet.packets \in Nat
    BY <1>2, PacketAssumption DEF ThreadsInv, TaskShape, Packets
  <2> QED
    BY <2>1 DEF Due
<1> QED
  BY <1>1, <1>2

\* The step a thread does is what its packet owed the counter before and not after.
LEMMA PendingTail ==
    ASSUME NEW p, p.packets \in Nat, NEW q \in Seq(StepNames), q # << >>,
           \A i, j \in DOMAIN q : q[i] = q[j] => i = j,
           NEW s, NEW side, NEW f
    PROVE  Pending(p, q, s, side, f) =
             Pending(p, Tail(q), s, side, f)
             + (IF Adds(p, Head(q), s, side, f) THEN p.packets ELSE 0)
<1>1. /\ Len(q) \in Nat \ {0} /\ DOMAIN q = 1 .. Len(q) /\ Head(q) = q[1]
      /\ Tail(q) \in Seq(StepNames) /\ DOMAIN Tail(q) = 1 .. Len(q) - 1
      /\ \A i \in 1 .. Len(q) - 1 : Tail(q)[i] = q[i + 1]
  OBVIOUS
<1>2. ASSUME NEW i \in DOMAIN q, NEW j \in DOMAIN q, Adds(p, q[i], s, side, f), Adds(p, q[j], s, side, f)
      PROVE  i = j
  <2>1. Ours(p) /\ q[i] \in {"net", "host"} /\ q[j] \in {"net", "host"}
    BY <1>2 DEF Adds, Owes
  <2>2. SlotOf(p, q[i]) = SlotOf(p, q[j])
    BY <1>2 DEF Adds
  <2>3. SlotOf(p, "net") # SlotOf(p, "host")
    BY <2>1, SlotShape DEF SlotOf
  <2>4. q[i] = q[j]
    BY <2>1, <2>2, <2>3
  <2> QED
    BY <2>4
<1>3. CASE \E i \in DOMAIN Tail(q) : Adds(p, Tail(q)[i], s, side, f)
  <2>1. PICK i \in DOMAIN Tail(q) : Adds(p, Tail(q)[i], s, side, f)
    BY <1>3
  <2>2. i + 1 \in DOMAIN q /\ Adds(p, q[i + 1], s, side, f) /\ i + 1 # 1 /\ 1 \in DOMAIN q
    BY <1>1, <2>1
  <2>3. ~Adds(p, q[1], s, side, f)
    BY <1>2, <2>2
  <2> QED
    BY <1>1, <1>3, <2>2, <2>3 DEF Pending
<1>4. CASE ~\E i \in DOMAIN Tail(q) : Adds(p, Tail(q)[i], s, side, f)
  <2>1. \A i \in DOMAIN q : Adds(p, q[i], s, side, f) => i = 1
    <3>1. SUFFICES ASSUME NEW i \in DOMAIN q, i # 1 PROVE ~Adds(p, q[i], s, side, f)
      OBVIOUS
    <3>2. i - 1 \in DOMAIN Tail(q) /\ Tail(q)[i - 1] = q[i]
      BY <1>1, <3>1
    <3> QED
      BY <1>4, <3>2
  <2>2. (\E i \in DOMAIN q : Adds(p, q[i], s, side, f)) <=> Adds(p, Head(q), s, side, f)
    BY <1>1, <2>1
  <2> QED
    BY <1>4, <2>2 DEF Pending
<1> QED
  BY <1>3, <1>4

\* A packet that is accepted owes its network and its host.
LEMMA PendingAll ==
    ASSUME NEW p, Accepted(p), NEW s, NEW side, NEW f
    PROVE  Pending(p, Steps(p), s, side, f) =
             IF /\ Ours(p)
                /\ Side(p) = side
                /\ \/ s = NetSlot(p) /\ f \in NetFields(p)
                   \/ s = HostSlot(p) /\ f \in FieldsOf(p)
             THEN p.packets ELSE 0
<1>1. CASE ~Ours(p)
  BY <1>1 DEF Pending, Adds, Owes
<1>2. CASE Ours(p)
  <2> DEFINE q == Steps(p)
  <2>1. q \in {<<"total", "net", "host">>, <<"net", "total", "host">>, <<"net", "total", "host", "flow">>}
    BY <1>2 DEF Steps
  <2>2. \A step \in {"net", "host"} : \E i \in DOMAIN q : q[i] = step
    <3>1. CASE q = <<"total", "net", "host">>
      BY <3>1
    <3>2. CASE q = <<"net", "total", "host">>
      BY <3>2
    <3>3. CASE q = <<"net", "total", "host", "flow">>
      BY <3>3
    <3> QED
      BY <2>1, <3>1, <3>2, <3>3
  <2> HIDE DEF q
  <2>3. \A step : Owes(p, step) <=> step \in {"net", "host"}
    BY <1>2 DEF Owes
  <2>4. (\E i \in DOMAIN q : Adds(p, q[i], s, side, f))
           <=> Adds(p, "net", s, side, f) \/ Adds(p, "host", s, side, f)
    BY <2>2, <2>3 DEF Adds
  <2>5. /\ Adds(p, "net", s, side, f) <=> s = NetSlot(p) /\ Side(p) = side /\ f \in NetFields(p)
        /\ Adds(p, "host", s, side, f) <=> s = HostSlot(p) /\ Side(p) = side /\ f \in FieldsOf(p)
    BY <2>3 DEF Adds, SlotOf, FieldsAt
  <2> QED
    BY <1>2, <2>4, <2>5 DEF Pending, q
<1> QED
  BY <1>1, <1>2

\* When one collector's debt changes, so does what all have in flight.
LEMMA InFlightChange ==
    ASSUME ThreadsInv, ThreadsInv', NEW c \in Collectors, NEW s, NEW side, NEW f,
           \A d \in Collectors : d # c => task'[d] = task[d]
    PROVE  /\ InFlight(s, side, f) \in Nat /\ InFlight(s, side, f)' \in Nat
           /\ InFlight(s, side, f)' - Due(c, s, side, f)' = InFlight(s, side, f) - Due(c, s, side, f)
<1> DEFINE g == [d \in Collectors |-> Due(d, s, side, f)]
           h == [d \in Collectors |-> Due(d, s, side, f)']
<1>1. g \in [Collectors -> Nat]
  BY DueType
<1>2. ASSUME NEW d \in Collectors PROVE Due(d, s, side, f)' \in Nat
  <2>1. CASE task'[d].steps = << >>
    <3>1. DOMAIN task'[d].steps = {}
      BY <2>1
    <3> QED
      BY <3>1 DEF Due
  <2>2. CASE task'[d].steps # << >>
    <3>1. task'[d].packet.packets \in Nat
      BY <2>2, PacketAssumption DEF ThreadsInv, TaskShape, Packets
    <3> QED
      BY <3>1 DEF Due
  <2> QED
    BY <2>1, <2>2
<1>3. h \in [Collectors -> Nat]
  BY <1>2
<1>4. \A d \in Collectors : d # c => h[d] = g[d]
  BY DEF Due
<1>5. InFlight(s, side, f) = Cardinality(InHand(g))
  BY DEF InFlight, InHand
<1>6. InFlight(s, side, f)' = Cardinality(InHand(h))
  BY DEF InFlight, InHand
<1>7. /\ Cardinality(InHand(h)) \in Nat /\ Cardinality(InHand(g)) \in Nat
      /\ Cardinality(InHand(h)) - h[c] = Cardinality(InHand(g)) - g[c]
  <2> HIDE DEF g, h
  <2> QED
    BY <1>1, <1>3, <1>4, InHandChange
<1> QED
  BY <1>5, <1>6, <1>7


-----------------------------------------------------------------------------
(* Conservation *)

\* What a counter holds that no recalculation has used.
Unused(s, side, f) == IF recalc.at = "zero" /\ recalc.slot = s THEN 0 ELSE counter[s][side][f]

\* A collector's step: what it adds to a counter is what its packet owed it.
LEMMA StepConserves ==
    ASSUME ThreadsInv, ThreadsInv', CountersConserved, NEW c \in Collectors, NEW step,
           Doing(c, step), Done(c), UNCHANGED <<recalc, owed>>,
           \A s \in Slots, side \in Sides, f \in Fields :
             counter'[s][side][f] = counter[s][side][f]
               + (IF Adds(task[c].packet, step, s, side, f) THEN task[c].packet.packets ELSE 0),
           \A s \in Slots, side \in Sides, f \in Fields :
             recalc.at = "zero" /\ recalc.slot = s => ~Adds(task[c].packet, step, s, side, f)
    PROVE  CountersConserved'
<1> SUFFICES ASSUME NEW s \in Slots, NEW side \in Sides, NEW f \in Fields
             PROVE  owed'[s][side][f] = Unused(s, side, f)' + InFlight(s, side, f)'
  BY DEF CountersConserved, Unused
<1> DEFINE p == task[c].packet
           q == task[c].steps
           added == IF Adds(p, step, s, side, f) THEN p.packets ELSE 0
<1>1. /\ \A d \in Collectors : d # c => task'[d] = task[d]
      /\ p \in Packets
      /\ task'[c].steps = Tail(q)
      /\ task'[c].steps # << >> => task'[c].packet = p
  BY DoneShape DEF ThreadsInv
<1>2. p.packets \in Nat
  BY <1>1, PacketAssumption DEF Packets
<1>3. /\ q \in Seq(StepNames) /\ q # << >> /\ Head(q) = step
      /\ \A i, j \in DOMAIN q : q[i] = q[j] => i = j
  BY DEF Doing, ThreadsInv, TypeOK, TaskShape
<1>4. Due(c, s, side, f) = Pending(p, q, s, side, f)
  BY DueIsPending
<1>5. Pending(p, q, s, side, f) = Pending(p, Tail(q), s, side, f) + added
  <2> HIDE DEF p, q
  <2> QED
    BY <1>2, <1>3, PendingTail
<1>6. Due(c, s, side, f)' = Pending(p, Tail(q), s, side, f)
  <2>1. Due(c, s, side, f)' = Pending(task'[c].packet, task'[c].steps, s, side, f)
    BY DEF Due, Pending, Adds
  <2>2. CASE task'[c].steps # << >>
    BY <1>1, <2>1, <2>2
  <2>3. CASE task'[c].steps = << >>
    <3>1. DOMAIN task'[c].steps = {}
      BY <2>3
    <3> QED
      BY <1>1, <2>1, <3>1 DEF Pending
  <2> QED
    BY <2>2, <2>3
<1>7. /\ InFlight(s, side, f) \in Nat /\ InFlight(s, side, f)' \in Nat
      /\ InFlight(s, side, f)' - Due(c, s, side, f)' = InFlight(s, side, f) - Due(c, s, side, f)
  BY <1>1, InFlightChange
<1>8. Pending(p, Tail(q), s, side, f) \in Nat /\ added \in Nat
  BY <1>2 DEF Pending
<1>9. Unused(s, side, f)' = Unused(s, side, f) + added /\ Unused(s, side, f) \in Nat
  <2>1. counter[s][side][f] \in Nat
    BY DEF ThreadsInv, TypeOK
  <2>2. counter'[s][side][f] = counter[s][side][f] + added
    OBVIOUS
  <2>3. recalc.at = "zero" /\ recalc.slot = s => added = 0
    OBVIOUS
  <2> HIDE DEF added
  <2> QED
    BY <2>1, <2>2, <2>3 DEF Unused
<1>10. owed[s][side][f] = Unused(s, side, f) + InFlight(s, side, f)
  BY DEF CountersConserved, Unused
<1> HIDE DEF added, p, q
<1>11. InFlight(s, side, f)' = InFlight(s, side, f) - added
  BY <1>4, <1>5, <1>6, <1>7, <1>8
<1> QED
  BY <1>7, <1>8, <1>9, <1>10, <1>11

\* A step of a collector moves packets from its hand to a counter.
LEMMA CollectorConserves ==
    ASSUME ThreadsInv, ThreadsInv', CountersConserved, NEW c \in Collectors, Collector(c)
    PROVE  CountersConserved'
<1> DEFINE p == task[c].packet
<1>1. UNCHANGED <<recalc, owed>> /\ Done(c)
  BY DEF Collector, CountNetwork, CountTotal, CountHost, CountFlow
<1>2. task[c].steps # << >> /\ p.packets \in Nat
  <2>1. task[c].steps # << >>
    BY DEF Collector, CountNetwork, CountTotal, CountHost, CountFlow, Doing
  <2> QED
    BY <2>1, PacketAssumption DEF ThreadsInv, TaskShape, Packets
\* The mutex keeps a collector from the key the recalculation thread is about to clear.
<1>3. ASSUME recalc.at = "zero" PROVE MapLocked(recalc.slot[1])
  BY <1>3 DEF ThreadsInv, RecalcShape, MapLocked
\* A step that adds nothing to a counter.
<1>4. ASSUME NEW step, Doing(c, step), counter' = counter, ~Owes(p, step)
      PROVE  CountersConserved'
  <2>1. \A s, side, f : ~Adds(p, step, s, side, f)
    BY <1>4 DEF Adds
  <2>2. \A s \in Slots, side \in Sides, f \in Fields : counter[s][side][f] \in Nat
    BY DEF ThreadsInv, TypeOK
  <2>3. \A s \in Slots, side \in Sides, f \in Fields :
          counter'[s][side][f] = counter[s][side][f] + (IF Adds(p, step, s, side, f) THEN p.packets ELSE 0)
    BY <1>4, <2>1, <2>2
  <2> QED
    BY <1>1, <1>4, <2>1, <2>3, StepConserves
\* A step that adds the packet to its key.
<1>5. ASSUME NEW step \in {"net", "host"}, Doing(c, step), Ours(p),
             counter' = [counter EXCEPT ![SlotOf(p, step)] = Count(@, p, FieldsAt(p, step))],
             ~MapLocked(SlotOf(p, step)[1])
      PROVE  CountersConserved'
  <2>1. SlotOf(p, step) \in Slots
    BY <1>5, SlotShape DEF SlotOf
  <2>2. counter[SlotOf(p, step)] \in [Sides -> [Fields -> Nat]]
    BY <2>1 DEF ThreadsInv, TypeOK
  <2>3. \A side \in Sides, f \in Fields :
          Count(counter[SlotOf(p, step)], p, FieldsAt(p, step))[side][f] =
            counter[SlotOf(p, step)][side][f]
              + (IF side = Side(p) /\ f \in FieldsAt(p, step) THEN p.packets ELSE 0)
    <3> HIDE DEF p
    <3> QED
      BY <1>2, <2>2, CountNat
  <2>4. ASSUME NEW s \in Slots, NEW side \in Sides, NEW f \in Fields
        PROVE  counter'[s][side][f] =
                 counter[s][side][f] + (IF Adds(p, step, s, side, f) THEN p.packets ELSE 0)
    <3>1. counter[s][side][f] \in Nat
      BY DEF ThreadsInv, TypeOK
    <3>2. Owes(p, step)
      BY <1>5 DEF Owes
    <3>3. CASE s = SlotOf(p, step)
      <4>1. counter'[s] = Count(counter[s], p, FieldsAt(p, step))
        BY <1>5, <3>3 DEF ThreadsInv, TypeOK
      <4>2. Adds(p, step, s, side, f) <=> side = Side(p) /\ f \in FieldsAt(p, step)
        BY <3>2, <3>3 DEF Adds
      <4> QED
        BY <2>3, <3>3, <4>1, <4>2
    <3>4. CASE s # SlotOf(p, step)
      <4>1. counter'[s] = counter[s]
        BY <1>5, <3>4 DEF ThreadsInv, TypeOK
      <4> QED
        BY <3>1, <3>4, <4>1 DEF Adds
    <3> QED
      BY <3>3, <3>4
  <2>5. \A s \in Slots, side \in Sides, f \in Fields :
          recalc.at = "zero" /\ recalc.slot = s => ~Adds(p, step, s, side, f)
    BY <1>3, <1>5 DEF Adds
  <2> QED
    BY <1>1, <1>5, <2>4, <2>5, StepConserves
<1>6. CASE CountNetwork(c)
  <2>1. CASE Ours(p)
    BY <1>5, <1>6, <2>1 DEF CountNetwork, SlotOf, FieldsAt
  <2>2. CASE ~Ours(p)
    BY <1>4, <1>6, <2>2 DEF CountNetwork, Owes
  <2> QED
    BY <2>1, <2>2
<1>7. CASE CountHost(c)
  <2>1. Ours(p)
    <3>1. task[c].steps \in Seq(StepNames) /\ task[c].steps # << >> /\ Head(task[c].steps) = "host"
      BY <1>7 DEF CountHost, Doing, ThreadsInv, TypeOK
    <3>2. 1 \in DOMAIN task[c].steps /\ task[c].steps[1] = "host"
      BY <3>1
    <3> QED
      BY <3>2 DEF ThreadsInv, TaskShape
  <2> QED
    BY <1>5, <1>7, <2>1 DEF CountHost, SlotOf, FieldsAt
<1>8. CASE CountTotal(c) \/ CountFlow(c)
  BY <1>4, <1>8 DEF CountTotal, CountFlow, Owes
<1> QED
  BY <1>6, <1>7, <1>8 DEF Collector


\* Steps of no collector change nothing in flight.
LEMMA InFlightSame ==
    ASSUME task' = task
    PROVE  \A s, side, f : InFlight(s, side, f)' = InFlight(s, side, f)
  BY DEF InFlight, Due

\* A packet that is accepted is owed to the counters its steps will add it to.
LEMMA ReceiveConserves ==
    ASSUME ThreadsInv, ThreadsInv', CountersConserved, NEW c \in Collectors, NEW p \in mix, Receive(c, p)
    PROVE  CountersConserved'
<1>1. UNCHANGED <<recalc, counter>> /\ task[c].steps = << >>
  BY DEF Receive
<1>2. p.packets \in Nat
  BY PacketAssumption DEF ThreadsInv, TypeOK, Packets
<1>3. CASE ~Accepted(p)
  <2>1. UNCHANGED <<task, owed>>
    BY <1>3 DEF Receive
  <2> QED
    BY <1>1, <2>1, InFlightSame DEF CountersConserved
<1>4. CASE Accepted(p)
  <2> SUFFICES ASSUME NEW s \in Slots, NEW side \in Sides, NEW f \in Fields
               PROVE  owed'[s][side][f] = Unused(s, side, f)' + InFlight(s, side, f)'
    BY DEF CountersConserved, Unused
  <2> DEFINE added == IF /\ Ours(p)
                         /\ Side(p) = side
                         /\ \/ s = NetSlot(p) /\ f \in NetFields(p)
                            \/ s = HostSlot(p) /\ f \in FieldsOf(p)
                      THEN p.packets ELSE 0
  <2>1. /\ task'[c] = [packet |-> p, steps |-> Steps(p)]
        /\ \A d \in Collectors : d # c => task'[d] = task[d]
    BY <1>4 DEF Receive, ThreadsInv, TypeOK
  <2>2. Due(c, s, side, f) = 0
    <3>1. DOMAIN task[c].steps = {}
      BY <1>1
    <3> QED
      BY <3>1 DEF Due
  <2>3. Due(c, s, side, f)' = added
    <3>1. Due(c, s, side, f)' = Pending(task'[c].packet, task'[c].steps, s, side, f)
      BY DEF Due, Pending, Adds
    <3>2. task'[c].packet = p /\ task'[c].steps = Steps(p)
      BY <2>1
    <3> QED
      BY <1>4, <3>1, <3>2, PendingAll
  <2>4. added \in Nat
    BY <1>2
  <2>5. owed[s][side][f] \in Int
    BY DEF ThreadsInv, TypeOK
  <2>6. owed'[s][side][f] = owed[s][side][f] + added
    <3>1. CASE Ours(p)
      <4>1. owed' = [owed EXCEPT ![NetSlot(p)]  = Count(@, p, NetFields(p)),
                                 ![HostSlot(p)] = Count(@, p, FieldsOf(p))]
        BY <1>4, <3>1 DEF Receive
      <4>2. NetSlot(p) \in Slots /\ HostSlot(p) \in Slots /\ NetSlot(p) # HostSlot(p)
        BY <3>1, SlotShape
      <4>3. /\ owed[NetSlot(p)] \in [Sides -> [Fields -> Int]]
            /\ owed[HostSlot(p)] \in [Sides -> [Fields -> Int]]
        BY <4>2 DEF ThreadsInv, TypeOK
      <4>4. /\ owed'[NetSlot(p)] = Count(owed[NetSlot(p)], p, NetFields(p))
            /\ owed'[HostSlot(p)] = Count(owed[HostSlot(p)], p, FieldsOf(p))
            /\ s \notin {NetSlot(p), HostSlot(p)} => owed'[s] = owed[s]
        BY <4>1, <4>2 DEF ThreadsInv, TypeOK
      <4>5. CASE s = NetSlot(p)
        <5>1. owed'[s][side][f] = owed[s][side][f]
                 + (IF side = Side(p) /\ f \in NetFields(p) THEN p.packets ELSE 0)
          BY <1>2, <4>3, <4>4, <4>5, CountInt
        <5> QED
          BY <3>1, <4>2, <4>5, <5>1
      <4>6. CASE s = HostSlot(p)
        <5>1. owed'[s][side][f] = owed[s][side][f]
                 + (IF side = Side(p) /\ f \in FieldsOf(p) THEN p.packets ELSE 0)
          BY <1>2, <4>3, <4>4, <4>6, CountInt
        <5> QED
          BY <3>1, <4>2, <4>6, <5>1
      <4>7. CASE s \notin {NetSlot(p), HostSlot(p)}
        BY <2>5, <4>4, <4>7
      <4> QED
        BY <4>5, <4>6, <4>7
    <3>2. CASE ~Ours(p)
      BY <1>4, <2>5, <3>2 DEF Receive
    <3> QED
      BY <3>1, <3>2
  <2> HIDE DEF added
  <2>7. /\ InFlight(s, side, f) \in Nat /\ InFlight(s, side, f)' \in Nat
        /\ InFlight(s, side, f)' - Due(c, s, side, f)' = InFlight(s, side, f) - Due(c, s, side, f)
    BY <2>1, InFlightChange
  <2>8. InFlight(s, side, f)' = InFlight(s, side, f) + added
    BY <2>2, <2>3, <2>4, <2>7
  <2>9. /\ owed[s][side][f] = Unused(s, side, f) + InFlight(s, side, f)
        /\ Unused(s, side, f)' = Unused(s, side, f) /\ Unused(s, side, f) \in Nat
    <3>1. counter[s][side][f] \in Nat
      BY DEF ThreadsInv, TypeOK
    <3> QED
      BY <1>1, <3>1 DEF CountersConserved, Unused
  <2> QED
    BY <2>4, <2>6, <2>7, <2>8, <2>9
<1> QED
  BY <1>3, <1>4

\* A key is used once: what its turn takes from the counter is cleared from it, and nothing
\* is added in between.
LEMMA RecalculationConserves ==
    ASSUME ThreadsInv, CountersConserved, Recalculation
    PROVE  CountersConserved'
<1>1. \A s, side, f : InFlight(s, side, f)' = InFlight(s, side, f)
  <2>1. task' = task
    BY DEF Recalculation, Wake, BuildSpeed, Zeroify, NextMap, zeroify_all_flow_counters, ReadTotal,
           ClearTotal
  <2> QED
    BY <2>1, InFlightSame
<1>2. ASSUME NEW s \in Slots, NEW side \in Sides, NEW f \in Fields
      PROVE  InFlight(s, side, f) = owed[s][side][f] - Unused(s, side, f)
  <2>1. owed[s][side][f] \in Int /\ counter[s][side][f] \in Nat
    BY DEF ThreadsInv, TypeOK
  <2> DEFINE g == [d \in Collectors |-> Due(d, s, side, f)]
  <2>2. g \in [Collectors -> Nat]
    BY DueType
  <2>3. InFlight(s, side, f) = Cardinality(InHand(g))
    BY DEF InFlight, InHand
  <2>4. InFlight(s, side, f) \in Nat
    BY <2>2, <2>3, InHandFinite, FS_CardinalityType
  <2> QED
    BY <2>1, <2>4 DEF CountersConserved, Unused
<1>3. CASE UNCHANGED <<counter, owed>> /\ recalc.at # "zero" /\ recalc'.at # "zero"
  BY <1>1, <1>3 DEF CountersConserved
<1>4. ASSUME NEW k \in recalc.todo, BuildSpeed(k) PROVE CountersConserved'
  <2>1. k \in Slots /\ recalc.at = "build" /\ recalc'.at = "zero" /\ recalc'.slot = k /\ counter' = counter
    BY <1>4 DEF BuildSpeed, ThreadsInv, TypeOK, Recalcs, RecalcShape
  <2>2. /\ owed'[k] = [side \in Sides |-> [f \in Fields |-> owed[k][side][f] - counter[k][side][f]]]
        /\ \A s \in Slots : s # k => owed'[s] = owed[s]
    BY <1>4, <2>1 DEF BuildSpeed, ThreadsInv, TypeOK
  <2>3. ASSUME NEW s \in Slots, NEW side \in Sides, NEW f \in Fields
        PROVE  owed'[s][side][f] = Unused(s, side, f)' + InFlight(s, side, f)
    <3>1. /\ owed[s][side][f] \in Int /\ counter[s][side][f] \in Nat
          /\ InFlight(s, side, f) = owed[s][side][f] - counter[s][side][f]
      BY <1>2, <2>1 DEF ThreadsInv, TypeOK, Unused
    <3>2. CASE s = k
      <4>1. Unused(s, side, f)' = 0 /\ owed'[s][side][f] = owed[s][side][f] - counter[s][side][f]
        BY <2>1, <2>2, <3>2 DEF Unused
      <4> QED
        BY <3>1, <4>1
    <3>3. CASE s # k
      <4>1. Unused(s, side, f)' = counter[s][side][f] /\ owed'[s][side][f] = owed[s][side][f]
        BY <2>1, <2>2, <3>3 DEF Unused
      <4> QED
        BY <3>1, <4>1
    <3> QED
      BY <3>2, <3>3
  <2> QED
    BY <1>1, <2>3 DEF CountersConserved, Unused
<1>5. CASE Zeroify
  <2>1. /\ recalc.slot \in Slots /\ recalc.at = "zero" /\ recalc'.at = "build" /\ owed' = owed
        /\ counter' = [counter EXCEPT ![recalc.slot] = NoTraffic]
    BY <1>5 DEF Zeroify, zeroify, ThreadsInv, TypeOK, Recalcs, RecalcShape
  <2>2. ASSUME NEW s \in Slots, NEW side \in Sides, NEW f \in Fields
        PROVE  Unused(s, side, f)' = Unused(s, side, f)
    <3>1. CASE s = recalc.slot
      BY <2>1, <3>1 DEF Unused, NoTraffic, ThreadsInv, TypeOK
    <3>2. CASE s # recalc.slot
      BY <2>1, <3>2 DEF Unused, ThreadsInv, TypeOK
    <3> QED
      BY <3>1, <3>2
  <2> QED
    BY <1>1, <2>1, <2>2 DEF CountersConserved, Unused
<1>6. CASE Wake
  BY <1>3, <1>6 DEF Wake, Asleep
<1>7. CASE NextMap \/ zeroify_all_flow_counters \/ ReadTotal
  <2>1. UNCHANGED <<counter, owed>> /\ recalc.at # "zero"
    BY <1>7 DEF NextMap, zeroify_all_flow_counters, ReadTotal
  <2>2. recalc'.at # "zero"
    BY <1>7 DEF NextMap, zeroify_all_flow_counters, ReadTotal, ThreadsInv, TypeOK, Recalcs
  <2> QED
    BY <1>3, <2>1, <2>2
<1>8. CASE ClearTotal
  <2>1. UNCHANGED <<counter, owed>> /\ recalc.at # "zero"
    BY <1>8 DEF ClearTotal
  <2>2. recalc'.at # "zero"
    BY <1>8 DEF ClearTotal, Asleep, ThreadsInv, TypeOK, Recalcs
  <2> QED
    BY <1>3, <2>1, <2>2
<1> QED
  BY <1>4, <1>5, <1>6, <1>7, <1>8 DEF Recalculation

\* No packet of a host or a network is lost or used twice on its way from process_packet to a
\* speed: the mutex of each map is held from the moment a key's counters are read until they
\* are zero, and every accepted packet is counted under its network and its host.
THEOREM PacketsAreConserved == Spec => []CountersConserved
<1>1. Init => CountersConserved
  <2> SUFFICES ASSUME Init, NEW s \in Slots, NEW side \in Sides, NEW f \in Fields
               PROVE  owed[s][side][f] = Unused(s, side, f) + InFlight(s, side, f)
    BY DEF CountersConserved, Unused
  <2>1. owed[s][side][f] = 0 /\ Unused(s, side, f) = 0
    BY DEF Init, NoTraffic, Unused
  <2>2. \A c \in Collectors : Due(c, s, side, f) = 0
    BY DEF Init, Idle, Due
  <2>3. UNION {{c} \X (1 .. Due(c, s, side, f)) : c \in Collectors} = {}
    BY <2>2
  <2>4. InFlight(s, side, f) = 0
    BY <2>3, FS_EmptySet DEF InFlight
  <2> QED
    BY <2>1, <2>4
<1>2. ThreadsInv /\ ThreadsInv' /\ CountersConserved /\ [Next]_vars => CountersConserved'
  <2> SUFFICES ASSUME ThreadsInv, ThreadsInv', CountersConserved, [Next]_vars PROVE CountersConserved'
    OBVIOUS
  <2>1. CASE UNCHANGED vars
    <3>1. UNCHANGED <<task, recalc, counter, owed>>
      BY <2>1 DEF vars
    <3> QED
      BY <3>1, InFlightSame DEF CountersConserved
  <2> QED
    BY <2>1, ReceiveConserves, CollectorConserves, RecalculationConserves DEF Next
<1> QED
  BY <1>1, <1>2, ThreadsInvHolds, PTL DEF Spec

=============================================================================
