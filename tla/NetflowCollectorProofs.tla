----------------------- MODULE NetflowCollectorProofs -----------------------
(***************************************************************************)
(* Proofs about the NetFlow and IPFIX collectors, for any number of        *)
(* threads and any set of packets.                                         *)
(*                                                                         *)
(* ReadsStayInSet is not inductive: that the next record fits does not say *)
(* that the one after it will.  The invariant adds that the records left   *)
(* to count fit together (Bounded), and that no NetFlow v9 template and no *)
(* options template being read has variable fields, because then records   *)
(* would have another length than the one the count was computed with.     *)
(***************************************************************************)
EXTENDS NetflowCollector, TLAPS

InData(s) == s.pc \in {"records", "flow", "timeouts"}

\* Where a thread is in its packet.
Placed(s) ==
    /\ s.pc \notin {"idle", "set"} => s.set <= Len(s.packet.sets)
    /\ s.pc \in {"data", "records", "flow", "timeouts"} => Current(s).kind = "data"
    /\ s.pc = "data" => Current(s).length >= Header
    /\ s.pc = "template" => Current(s).kind \in {"template", "options"}
    /\ s.pc = "flow" => s.found.type = "Data"
    /\ s.pc = "timeouts" => s.found.type = "Options"

\* The records of a data set fit in it, the ones already read and all the others.
Bounded(s) ==
    InData(s) =>
        /\ s.offset <= Current(s).length
        /\ s.found.variable => s.packet.version = "ipfix" /\ s.found.type = "Data"
        /\ ~s.found.variable =>
              /\ s.offset = Header + s.index * s.found.total_length
              /\ Header + s.count * s.found.total_length <= Current(s).length
              /\ s.index <= s.count
              /\ s.pc # "records" => s.index < s.count

FoundIn(s, T) ==
    InData(s) =>
        /\ <<s.packet.version, s.packet.address, s.packet.source_id, s.found>> \in T
        /\ s.found.template_id = Current(s).template_id

ThreadOK(s, T) == s \in ThreadState /\ Placed(s) /\ Bounded(s) /\ FoundIn(s, T)

TablesOK ==
    /\ templates \in [Versions -> [Addresses \X SourceIds ->
                         [TemplateIds -> Template \cup {NoTemplate}]]]
    /\ \A v \in Versions, a \in Addresses, i \in SourceIds, id \in TemplateIds :
          LET tmpl == templates[v][<<a, i>>][id] IN
          tmpl # NoTemplate => /\ <<v, a, i, tmpl>> \in taught
                               /\ tmpl.template_id = id
                               /\ v = "v9" => ~tmpl.variable

OthersOK ==
    /\ rates \in [Versions -> [Addresses -> Rates \cup {0}]]
    /\ timeouts \in [Versions -> [Addresses -> Timeouts \cup {ZeroTimeouts, NoTimeouts}]]
    /\ DOMAIN passed = Threads
    /\ received \in 0 .. MaxPackets

ThreadsOK ==
    /\ thread \in [Threads -> ThreadState]
    /\ \A t \in Threads : ThreadOK(thread[t], taught)

IInv == TablesOK /\ OthersOK /\ ThreadsOK

-----------------------------------------------------------------------------
(* Arithmetic.                                                             *)

\* n whole records of length b fit where n of them were counted.
LEMMA DivisionFits ==
    ASSUME NEW a \in Nat, NEW b \in Nat \ {0}
    PROVE  /\ a \div b \in Nat
           /\ (a \div b) * b <= a
BY Z3

\* Of n records that fit, the one after the first i of them fits.
LEMMA OneMoreFits ==
    ASSUME NEW i \in Nat, NEW n \in Nat, NEW b \in Nat, NEW o \in Nat, NEW len \in Nat,
           i < n, o = Header + i * b, Header + n * b <= len
    PROVE  /\ o + b = Header + (i + 1) * b
           /\ o + b <= len
<1>1. PICK d \in Nat : n = i + 1 + d  BY n - i - 1 \in Nat
<1>2. d * b \in Nat /\ i * b \in Nat  OBVIOUS
<1>3. n * b = i * b + b + d * b  BY <1>1
<1>4. (i + 1) * b = i * b + b  OBVIOUS
<1> QED
  <2> DEFINE x == i * b
             y == d * b
  <2>1. x \in Nat /\ y \in Nat /\ n * b = x + b + y /\ (i + 1) * b = x + b
    BY <1>2, <1>3, <1>4
  <2>2. o = 1 + x /\ 1 + (x + b + y) <= len  BY <2>1 DEF Header
  <2> HIDE DEF x, y
  <2>3. o + b = 1 + (x + b) /\ o + b <= len  BY <2>1, <2>2
  <2> QED  BY <2>1, <2>3 DEF Header

-----------------------------------------------------------------------------
(* States of a thread.                                                     *)

\* pc tells which kind of state a thread is in.
LEMMA Shapes ==
    ASSUME NEW s \in ThreadState
    PROVE  /\ s.pc \in {"set", "data"} => s \in SetState
           /\ s.pc = "template" => s \in TemplateState
           /\ s.pc = "records" => s \in RecordsState
           /\ s.pc \in {"flow", "timeouts"} => s \in InsideState
BY DEF ThreadState, SetState, TemplateState, RecordsState, InsideState, Idle

\* What a packet's fields are.
LEMMA PacketFields ==
    ASSUME NEW p \in Packets
    PROVE  /\ p.version \in Versions
           /\ p.address \in Addresses
           /\ p.source_id \in SourceIds
           /\ p.count \in Nat
           /\ p.sets \in Seq(SetType)
BY NetflowAssumption DEF PacketType

\* The set a thread reads.
LEMMA CurrentSet ==
    ASSUME NEW s, s.packet \in Packets, s.set \in Nat \ {0}, s.set <= Len(s.packet.sets)
    PROVE  /\ Current(s) \in SetType
           /\ Current(s).length \in Nat
           /\ Current(s).template_id \in TemplateIds
           /\ Current(s).definitions \in Seq(Definition)
           /\ Current(s).record_length \in Nat \ {0}
           /\ Current(s).sampling_rate \in Rates \cup {0}
           /\ Current(s).timeouts \in Timeouts \cup {ZeroTimeouts}
           /\ Current(s).kind \in {"template", "options", "data", "reserved"}
<1>1. s.packet.sets \in Seq(SetType)  BY PacketFields
<1>2. Current(s) \in SetType  BY <1>1 DEF Current
<1> QED  BY <1>2 DEF SetType

\* Waiting for a packet is a good state.
LEMMA IdleOK == ASSUME NEW T PROVE ThreadOK(Idle, T)
BY DEF ThreadOK, ThreadState, Idle, Placed, Bounded, FoundIn, InData

\* So is the beginning of any set,
LEMMA SetOK ==
    ASSUME NEW T, NEW p \in Packets, NEW n \in Nat \ {0}, NEW m \in Nat
    PROVE  ThreadOK(ReadingSet(p, n, m), T)
BY DEF ThreadOK, ThreadState, SetState, ReadingSet, Placed, Bounded, FoundIn, InData

\* what follows a set,
LEMMA AfterSetOK ==
    ASSUME NEW T, NEW s, s.packet \in Packets, s.set \in Nat \ {0}, s.number \in Nat
    PROVE  ThreadOK(AfterSet(s), T)
<1> DEFINE next == IF Current(s).length = 0 THEN s.set ELSE s.set + 1
<1>1. next \in Nat \ {0} /\ s.number + 1 \in Nat  OBVIOUS
<1>2. ThreadOK(ReadingSet(s.packet, next, s.number + 1), T)
  <2> HIDE DEF next
  <2> QED  BY <1>1, SetOK
<1> QED  BY <1>2, IdleOK DEF AfterSet

\* a data set whose template is not looked up yet,
LEMMA FindingOK ==
    ASSUME NEW T, NEW s, s.packet \in Packets, s.set \in Nat \ {0}, s.number \in Nat,
           s.set <= Len(s.packet.sets), Current(s).kind = "data", Current(s).length >= Header
    PROVE  ThreadOK(FindingTemplate(s), T)
BY DEF ThreadOK, ThreadState, SetState, FindingTemplate, Placed, Bounded, FoundIn, InData, Current

\* a template set at any template of it,
LEMMA TemplatesOK ==
    ASSUME NEW T, NEW s, s.packet \in Packets, s.set \in Nat \ {0}, s.number \in Nat,
           NEW i \in Nat, s.set <= Len(s.packet.sets),
           Current(s).kind \in {"template", "options"}
    PROVE  ThreadOK(ReadingTemplates(s, i), T)
BY DEF ThreadOK, ThreadState, TemplateState, ReadingTemplates, Placed, Bounded, FoundIn,
       InData, Current

\* a data set whose remaining records fit,
LEMMA RecordsOK ==
    ASSUME NEW T, NEW s, s.packet \in Packets, s.set \in Nat \ {0}, s.number \in Nat,
           s.set <= Len(s.packet.sets), Current(s).kind = "data",
           NEW i \in Nat, NEW c \in Nat, NEW o \in Nat, NEW f \in Template,
           <<s.packet.version, s.packet.address, s.packet.source_id, f>> \in T,
           f.template_id = Current(s).template_id,
           o <= Current(s).length,
           f.variable => s.packet.version = "ipfix" /\ f.type = "Data",
           ~f.variable => /\ o = Header + i * f.total_length
                          /\ Header + c * f.total_length <= Current(s).length
                          /\ i <= c
    PROVE  ThreadOK(ReadingRecords(s, i, c, o, f), T)
<1> DEFINE r == ReadingRecords(s, i, c, o, f)
<1>1. /\ r.pc = "records" /\ r.packet = s.packet /\ r.set = s.set /\ r.index = i
      /\ r.count = c /\ r.offset = o /\ r.found = f /\ r \in RecordsState
  BY DEF ReadingRecords, RecordsState
<1>2. Current(r) = Current(s)  BY <1>1 DEF Current
<1> HIDE DEF r
<1>3. r \in ThreadState  BY <1>1 DEF ThreadState
<1>4. Placed(r)  BY <1>1, <1>2 DEF Placed
<1>5. Bounded(r)  BY <1>1, <1>2 DEF Bounded
<1>6. FoundIn(r, T)  BY <1>1, <1>2 DEF FoundIn
<1> QED  BY <1>3, <1>4, <1>5, <1>6 DEF ThreadOK, r

\* and the inside of a record, when there is one more.
LEMMA InsideOK ==
    ASSUME NEW T, NEW s \in RecordsState, ThreadOK(s, T), ~RecordsDone(s), NEW x \in Nat,
           NEW pc \in {"flow", "timeouts"},
           pc = "flow" => s.found.type = "Data",
           pc = "timeouts" => s.found.type = "Options"
    PROVE  ThreadOK(InsideRecord(s, pc, x), T)
<1> DEFINE r == InsideRecord(s, pc, x)
<1>1. /\ r.pc = pc /\ r.packet = s.packet /\ r.set = s.set /\ r.index = s.index
      /\ r.count = s.count /\ r.offset = s.offset /\ r.found = s.found /\ r \in InsideState
  BY DEF InsideRecord, InsideState, RecordsState
<1>2. Current(r) = Current(s)  BY <1>1 DEF Current
<1>0. s.pc = "records" /\ s.index \in Nat /\ s.count \in Nat  BY DEF RecordsState
<1> HIDE DEF r
<1>3. r \in ThreadState  BY <1>1 DEF ThreadState
<1>4. Placed(r)  BY <1>0, <1>1, <1>2 DEF Placed, ThreadOK
<1>5. Bounded(r)  BY <1>0, <1>1, <1>2 DEF Bounded, ThreadOK, InData, RecordsDone
<1>6. FoundIn(r, T)  BY <1>0, <1>1, <1>2 DEF FoundIn, ThreadOK, InData
<1> QED  BY <1>3, <1>4, <1>5, <1>6 DEF ThreadOK, r

\* A template that has been sent stays sent.
LEMMA MoreTaught ==
    ASSUME NEW s, NEW T, NEW U, ThreadOK(s, T), T \subseteq U
    PROVE  ThreadOK(s, U)
BY DEF ThreadOK, FoundIn

\* The fields of a thread inside a data set.
LEMMA DataFields ==
    ASSUME NEW s, NEW T, ThreadOK(s, T), s.pc \in {"data", "records", "flow", "timeouts"}
    PROVE  /\ s.packet \in Packets /\ s.set \in Nat \ {0} /\ s.number \in Nat
           /\ s.set <= Len(s.packet.sets)
           /\ Current(s).kind = "data"
           /\ s.pc = "data" => Current(s).length >= Header
           /\ InData(s) => /\ s.index \in Nat /\ s.count \in Nat /\ s.offset \in Nat
                           /\ s.found \in Template /\ s.found.total_length \in Nat
                           /\ s.found.variable \in BOOLEAN
                           /\ s.found.type \in {"Data", "Options"}
<1>1. s \in SetState \/ s \in RecordsState \/ s \in InsideState
  BY Shapes DEF ThreadOK
<1>2. s.packet \in Packets /\ s.set \in Nat \ {0} /\ s.number \in Nat
  BY <1>1 DEF SetState, RecordsState, InsideState
<1>3. s.set <= Len(s.packet.sets) /\ Current(s).kind = "data"
      /\ (s.pc = "data" => Current(s).length >= Header)
  BY DEF ThreadOK, Placed
<1>4. ASSUME InData(s) PROVE /\ s.index \in Nat /\ s.count \in Nat /\ s.offset \in Nat
                            /\ s.found \in Template
  BY <1>1, <1>4 DEF InData, SetState, RecordsState, InsideState
<1> QED  BY <1>2, <1>3, <1>4 DEF Template

\* After a record of the length the template says.
LEMMA NextRecordOK ==
    ASSUME NEW s, NEW T, ThreadOK(s, T), s.pc \in {"flow", "timeouts"}, ~s.found.variable
    PROVE  ThreadOK(NextRecord(s, s.found.total_length), T)
<1> DEFINE b == s.found.total_length
<1>1. /\ s.packet \in Packets /\ s.set \in Nat \ {0} /\ s.number \in Nat
      /\ s.set <= Len(s.packet.sets) /\ Current(s).kind = "data"
      /\ s.index \in Nat /\ s.count \in Nat /\ s.offset \in Nat
      /\ s.found \in Template /\ b \in Nat
  BY DataFields DEF InData
<1>2. /\ s.offset = Header + s.index * b
      /\ Header + s.count * b <= Current(s).length
      /\ s.index < s.count
  BY DEF ThreadOK, Bounded, InData
<1>3. /\ <<s.packet.version, s.packet.address, s.packet.source_id, s.found>> \in T
      /\ s.found.template_id = Current(s).template_id
  BY DEF ThreadOK, FoundIn, InData
<1>4. Current(s).length \in Nat  BY <1>1, CurrentSet
<1> HIDE DEF b
<1>5. s.offset + b = Header + (s.index + 1) * b /\ s.offset + b <= Current(s).length
  BY <1>1, <1>2, <1>4, OneMoreFits
<1>7. s.offset + b \in Nat /\ s.index + 1 \in Nat /\ s.index + 1 <= s.count
  BY <1>1, <1>2
<1>8. ThreadOK(ReadingRecords(s, s.index + 1, s.count, s.offset + b, s.found), T)
  BY <1>1, <1>2, <1>3, <1>5, <1>7, RecordsOK DEF b
<1> QED  BY <1>8 DEF NextRecord, b

\* After a record with variable fields that fits.
LEMMA AfterVariableOK ==
    ASSUME NEW s, NEW T, ThreadOK(s, T), s.pc = "flow", s.found.variable,
           read_ipfix_variable_length_field(s)
    PROVE  ThreadOK(AfterVariableRecord(s), T)
<1> DEFINE r == Current(s).record_length
<1>1. /\ s.packet \in Packets /\ s.set \in Nat \ {0} /\ s.number \in Nat
      /\ s.set <= Len(s.packet.sets) /\ Current(s).kind = "data"
      /\ s.index \in Nat /\ s.count \in Nat /\ s.offset \in Nat
      /\ s.found \in Template
  BY DataFields DEF InData
<1>2. s.packet.version = "ipfix" /\ s.found.type = "Data"  BY DEF ThreadOK, Bounded, InData
<1>3. /\ <<s.packet.version, s.packet.address, s.packet.source_id, s.found>> \in T
      /\ s.found.template_id = Current(s).template_id
  BY DEF ThreadOK, FoundIn, InData
<1>4. Current(s).length \in Nat /\ r \in Nat  BY <1>1, CurrentSet
<1>5. s.offset + r \in Nat /\ s.offset + r <= Current(s).length /\ s.index + 1 \in Nat
  BY <1>1, <1>4 DEF read_ipfix_variable_length_field
<1>6. ThreadOK(NextRecord(s, r), T)
  <2> HIDE DEF r
  <2> QED  BY <1>1, <1>2, <1>3, <1>5, RecordsOK DEF NextRecord
<1>7. ThreadOK(AfterSet(s), T)  BY <1>1, AfterSetOK
<1> QED  BY <1>6, <1>7, IdleOK DEF AfterVariableRecord

\* What the readers of templates store.
LEMMA ReadTemplateOK ==
    ASSUME NEW v \in Versions, NEW kind \in {"template", "options"}, NEW d \in Definition,
           ReadTemplate(v, kind, d) # NoTemplate
    PROVE  /\ ReadTemplate(v, kind, d) \in Template
           /\ v = "v9" => ~ReadTemplate(v, kind, d).variable
<1> USE DEF Definition, Template, TemplateOf, VariableLength
<1>1. CASE v = "v9" /\ kind = "template"
  BY <1>1 DEF ReadTemplate, process_netflow_v9_template
<1>2. CASE v = "v9" /\ kind = "options"
  BY <1>2 DEF ReadTemplate, process_netflow_v9_options_template
<1>3. CASE v = "ipfix" /\ kind = "template"
  BY <1>3 DEF ReadTemplate, read_ipfix_data_template
<1>4. CASE v = "ipfix" /\ kind = "options"
  BY <1>4 DEF ReadTemplate, read_ipfix_options_template
<1> QED  BY <1>1, <1>2, <1>3, <1>4 DEF Versions

\* A thread that moves to a good state leaves the threads good.
LEMMA ThreadStep ==
    ASSUME ThreadsOK, NEW t \in Threads, NEW s, ThreadOK(s, taught'),
           taught \subseteq taught', Goto(t, s)
    PROVE  ThreadsOK'
<1>1. thread' \in [Threads -> ThreadState]  BY DEF ThreadsOK, Goto, ThreadOK
<1>2. ASSUME NEW u \in Threads PROVE ThreadOK(thread'[u], taught')
  <2>1. CASE u = t  BY <2>1 DEF ThreadsOK, Goto
  <2>2. CASE u # t
    <3>1. thread'[u] = thread[u]  BY <2>2 DEF Goto, ThreadsOK
    <3> QED  BY <3>1, MoreTaught DEF ThreadsOK
  <2> QED  BY <2>1, <2>2
<1> QED  BY <1>1, <1>2 DEF ThreadsOK

-----------------------------------------------------------------------------
(* The invariant.                                                          *)

\* The invariant holds when the threads start.
LEMMA InitOK == Init => IInv
<1> SUFFICES ASSUME Init PROVE IInv  OBVIOUS
<1>1. TablesOK  BY DEF Init, TablesOK
<1>2. OthersOK  BY NetflowAssumption DEF Init, OthersOK
<1>3. ThreadsOK
  <2>1. Idle \in ThreadState  BY DEF ThreadState
  <2> QED  BY <2>1, IdleOK DEF Init, ThreadsOK
<1> QED  BY <1>1, <1>2, <1>3 DEF IInv

\* A step that changes neither the templates nor what was taught.
LEMMA TablesKept ==
    ASSUME TablesOK, UNCHANGED <<templates, taught>>
    PROVE  TablesOK'
BY DEF TablesOK

\* The arrival of a packet keeps the invariant.
LEMMA ReceiveOK ==
    ASSUME IInv, NEW t \in Threads, NEW packet \in Packets, Receive(t, packet)
    PROVE  IInv'
<1>1. TablesOK'  BY TablesKept DEF Receive, IInv
<1>2. OthersOK'
  <2>1. received' \in 0 .. MaxPackets
    BY NetflowAssumption DEF Receive, IInv, OthersOK
  <2> QED  BY <2>1 DEF Receive, IInv, OthersOK
<1>3. ThreadsOK'
  <2>1. CASE UNCHANGED thread  BY <2>1 DEF Receive, IInv, ThreadsOK
  <2>2. CASE Goto(t, ReadingSet(packet, 1, 0))
    BY <2>2, SetOK, ThreadStep DEF Receive, IInv
  <2> QED  BY <2>1, <2>2 DEF Receive
<1> QED  BY <1>1, <1>2, <1>3 DEF IInv

\* A step that moves one thread and changes none of the maps.
LEMMA MoveOK ==
    ASSUME IInv, NEW t \in Threads, NEW s, ThreadOK(s, taught), Goto(t, s), SharedUnchanged
    PROVE  IInv'
<1>1. TablesOK'  BY TablesKept DEF SharedUnchanged, IInv
<1>2. OthersOK'  BY DEF SharedUnchanged, IInv, OthersOK
<1>3. ThreadsOK'
  <2>1. taught' = taught  BY DEF SharedUnchanged
  <2> QED  BY <2>1, ThreadStep DEF IInv
<1> QED  BY <1>1, <1>2, <1>3 DEF IInv

\* The fields of a thread that is about to read a set.
LEMMA SetFields ==
    ASSUME NEW s, NEW T, ThreadOK(s, T), s.pc = "set"
    PROVE  s.packet \in Packets /\ s.set \in Nat \ {0} /\ s.number \in Nat
BY Shapes DEF ThreadOK, SetState

\* A set goes to the reader for its kind.
LEMMA DispatchOK ==
    ASSUME NEW s, NEW T, ThreadOK(s, T), s.pc = "set", Readable(s), Current(s).kind # "reserved"
    PROVE  ThreadOK(Dispatch(s), T)
<1>1. s.packet \in Packets /\ s.set \in Nat \ {0} /\ s.number \in Nat  BY SetFields
<1>2. s.set <= Len(s.packet.sets) /\ Current(s).length >= Header  BY DEF Readable
<1>3. Current(s).kind \in {"template", "options", "data"}  BY <1>1, <1>2, CurrentSet
<1>4. CASE Current(s).kind = "data"  BY <1>1, <1>2, <1>4, FindingOK DEF Dispatch
<1>5. CASE Current(s).kind # "data"  BY <1>1, <1>2, <1>3, <1>5, TemplatesOK DEF Dispatch
<1> QED  BY <1>4, <1>5

\* The loop over the flowsets of a NetFlow v9 packet keeps the invariant.
LEMMA V9PacketOK ==
    ASSUME IInv, NEW t \in Threads, process_netflow_packet_v9(t)
    PROVE  IInv'
<1> DEFINE s == thread[t]
           r == IF s.number = s.packet.count \/ ~Readable(s) THEN Idle
                ELSE IF Current(s).kind = "reserved"
                     THEN ReadingSet(s.packet, s.set, s.number + 1)
                ELSE Dispatch(s)
<1>1. ThreadOK(s, taught) /\ s.pc = "set"
  BY DEF IInv, ThreadsOK, process_netflow_packet_v9
<1>2. ThreadOK(r, taught)
  <2>1. s.packet \in Packets /\ s.set \in Nat \ {0} /\ s.number \in Nat  BY <1>1, SetFields
  <2>2. ThreadOK(ReadingSet(s.packet, s.set, s.number + 1), taught)
    <3>1. s.number + 1 \in Nat  BY <2>1
    <3> HIDE DEF s
    <3> QED  BY <2>1, <3>1, SetOK
  <2> HIDE DEF s
  <2> QED  BY <1>1, <2>2, IdleOK, DispatchOK
<1>3. Goto(t, r) /\ SharedUnchanged  BY DEF process_netflow_packet_v9
<1> HIDE DEF r
<1> QED  BY <1>2, <1>3, MoveOK

\* So does the loop over the sets of an IPFIX packet.
LEMMA IpfixSetsOK ==
    ASSUME IInv, NEW t \in Threads, process_ipfix_sets(t)
    PROVE  IInv'
<1> DEFINE s == thread[t]
           r == IF s.number >= SetsMaximum \/ ~Readable(s) THEN Idle
                ELSE IF Current(s).kind = "reserved" THEN AfterSet(s)
                ELSE Dispatch(s)
<1>1. ThreadOK(s, taught) /\ s.pc = "set"
  BY DEF IInv, ThreadsOK, process_ipfix_sets
<1>2. ThreadOK(r, taught)
  <2> HIDE DEF s
  <2>1. s.packet \in Packets /\ s.set \in Nat \ {0} /\ s.number \in Nat  BY <1>1, SetFields
  <2>2. ThreadOK(AfterSet(s), taught)  BY <2>1, AfterSetOK
  <2> QED  BY <1>1, <2>2, IdleOK, DispatchOK
<1>3. Goto(t, r) /\ SharedUnchanged  BY DEF process_ipfix_sets
<1> HIDE DEF r
<1> QED  BY <1>2, <1>3, MoveOK

\* The fields of a thread that reads templates.
LEMMA TemplateFields ==
    ASSUME NEW s, NEW T, ThreadOK(s, T), s.pc = "template"
    PROVE  /\ s.packet \in Packets /\ s.set \in Nat \ {0} /\ s.number \in Nat
           /\ s.index \in Nat /\ s.set <= Len(s.packet.sets)
           /\ Current(s).kind \in {"template", "options"}
BY Shapes DEF ThreadOK, TemplateState, Placed

\* A template that is stored is one its reader returned.
LEMMA NextTemplateOK ==
    ASSUME NEW s, NEW T, ThreadOK(s, T), s.pc = "template", NextTemplate(s) # NoTemplate
    PROVE  /\ NextTemplate(s) \in Template
           /\ s.packet.version = "v9" => ~NextTemplate(s).variable
<1>1. /\ s.packet \in Packets /\ s.set \in Nat \ {0}
      /\ s.index \in Nat /\ s.set <= Len(s.packet.sets)
      /\ Current(s).kind \in {"template", "options"}
  BY TemplateFields
<1>2. Current(s).definitions \in Seq(Definition)  BY <1>1, CurrentSet
<1>3. s.index < Len(Current(s).definitions)  BY DEF NextTemplate
<1>4. Current(s).definitions[s.index + 1] \in Definition  BY <1>1, <1>2, <1>3
<1>5. s.packet.version \in Versions  BY <1>1, PacketFields
<1>6. NextTemplate(s) = ReadTemplate(s.packet.version, Current(s).kind,
                                     Current(s).definitions[s.index + 1])
  BY <1>3 DEF NextTemplate
<1> QED  BY <1>1, <1>4, <1>5, <1>6, ReadTemplateOK

\* Storing a template keeps the invariant: the table gets what was taught.
LEMMA ProcessTemplateOK ==
    ASSUME IInv, NEW t \in Threads, process_template(t)
    PROVE  IInv'
<1> DEFINE s == thread[t]
           tmpl == NextTemplate(s)
<1>1. ThreadOK(s, taught) /\ s.pc = "template" /\ tmpl # NoTemplate
  BY DEF IInv, ThreadsOK, process_template
<1>2. /\ s.packet \in Packets /\ s.set \in Nat \ {0} /\ s.number \in Nat
      /\ s.index \in Nat /\ s.set <= Len(s.packet.sets)
      /\ Current(s).kind \in {"template", "options"}
  BY <1>1, TemplateFields
<1>3. tmpl \in Template /\ (s.packet.version = "v9" => ~tmpl.variable)
  BY <1>1, NextTemplateOK
<1>4. /\ s.packet.version \in Versions /\ s.packet.address \in Addresses
      /\ s.packet.source_id \in SourceIds
  BY <1>2, PacketFields
<1>5. /\ templates' = [templates EXCEPT ![s.packet.version]
                         [<<s.packet.address, s.packet.source_id>>][tmpl.template_id] = tmpl]
      /\ taught' = taught \cup {<<s.packet.version, s.packet.address, s.packet.source_id, tmpl>>}
      /\ Goto(t, ReadingTemplates(s, s.index + 1))
      /\ UNCHANGED <<rates, timeouts, passed, received, reported>>
  BY DEF process_template, add_update_peer_template, Key
<1> HIDE DEF tmpl
<1>6. tmpl.template_id \in TemplateIds  BY <1>3 DEF Template
<1>7. TablesOK'
  <2> DEFINE v == s.packet.version
             a == s.packet.address
             i == s.packet.source_id
  <2> HIDE DEF s, v, a, i
  <2>0. /\ v \in Versions /\ a \in Addresses /\ i \in SourceIds
        /\ templates' = [templates EXCEPT ![v][<<a, i>>][tmpl.template_id] = tmpl]
        /\ taught' = taught \cup {<<v, a, i, tmpl>>}
        /\ v = "v9" => ~tmpl.variable
    BY <1>3, <1>4, <1>5 DEF v, a, i
  <2>1. templates' \in [Versions -> [Addresses \X SourceIds ->
                          [TemplateIds -> Template \cup {NoTemplate}]]]
    BY <2>0, <1>3, <1>6 DEF IInv, TablesOK
  <2>2. ASSUME NEW w \in Versions, NEW b \in Addresses, NEW j \in SourceIds,
               NEW id \in TemplateIds, templates'[w][<<b, j>>][id] # NoTemplate
        PROVE  /\ <<w, b, j, templates'[w][<<b, j>>][id]>> \in taught'
               /\ templates'[w][<<b, j>>][id].template_id = id
               /\ w = "v9" => ~templates'[w][<<b, j>>][id].variable
    <3>1. CASE w = v /\ b = a /\ j = i /\ id = tmpl.template_id
      <4>1. templates'[w][<<b, j>>][id] = tmpl  BY <2>0, <3>1, <1>6 DEF IInv, TablesOK
      <4> QED  BY <4>1, <3>1, <2>0
    <3>2. CASE ~(w = v /\ b = a /\ j = i /\ id = tmpl.template_id)
      <4>1. templates'[w][<<b, j>>][id] = templates[w][<<b, j>>][id]
        <5>1. CASE w # v  BY <2>0, <5>1 DEF IInv, TablesOK
        <5>2. CASE w = v /\ <<b, j>> # <<a, i>>  BY <2>0, <5>2 DEF IInv, TablesOK
        <5>3. CASE w = v /\ b = a /\ j = i /\ id # tmpl.template_id
          BY <2>0, <5>3, <1>6 DEF IInv, TablesOK
        <5> QED  BY <3>2, <5>1, <5>2, <5>3
      <4> QED  BY <4>1, <2>0, <2>2 DEF IInv, TablesOK
    <3> QED  BY <3>1, <3>2
  <2> QED  BY <2>1, <2>2 DEF TablesOK
<1>8. OthersOK'  BY <1>5 DEF IInv, OthersOK
<1>9. ThreadsOK'
  <2> HIDE DEF s
  <2>1. ThreadOK(ReadingTemplates(s, s.index + 1), taught')
    <3>1. s.index + 1 \in Nat  BY <1>2
    <3> QED  BY <1>2, <3>1, TemplatesOK
  <2> QED  BY <2>1, <1>5, ThreadStep DEF IInv
<1> QED  BY <1>7, <1>8, <1>9 DEF IInv

\* The end of a template set keeps the invariant.
LEMMA TemplateEndOK ==
    ASSUME IInv, NEW t \in Threads, process_template_end(t)
    PROVE  IInv'
<1> DEFINE s == thread[t]
<1>1. ThreadOK(s, taught) /\ s.pc = "template"
  BY DEF IInv, ThreadsOK, process_template_end
<1>2. ThreadOK(AfterSet(s), taught)
  <2> HIDE DEF s
  <2> QED  BY <1>1, TemplateFields, AfterSetOK
<1>3. SharedUnchanged /\ (Goto(t, AfterSet(s)) \/ Goto(t, Idle))
  BY DEF process_template_end
<1> QED  BY <1>2, <1>3, IdleOK, MoveOK

\* What a thread finds in the table is a template its exporter has sent.
LEMMA FindOK ==
    ASSUME IInv, NEW s, ThreadOK(s, taught), s.pc = "data",
           peer_find_template(s.packet, Current(s).template_id) # NoTemplate
    PROVE  LET f == peer_find_template(s.packet, Current(s).template_id) IN
           /\ f \in Template
           /\ <<s.packet.version, s.packet.address, s.packet.source_id, f>> \in taught
           /\ f.template_id = Current(s).template_id
           /\ s.packet.version = "v9" => ~f.variable
<1>1. s.packet \in Packets /\ s.set \in Nat \ {0} /\ s.set <= Len(s.packet.sets)
  BY DataFields
<1>2. Current(s).template_id \in TemplateIds  BY <1>1, CurrentSet
<1>3. /\ s.packet.version \in Versions /\ s.packet.address \in Addresses
      /\ s.packet.source_id \in SourceIds
  BY <1>1, PacketFields
<1> QED  BY <1>2, <1>3 DEF IInv, TablesOK, peer_find_template, Key

\* As many records as the length of the set allows.
LEMMA RecordsFit ==
    ASSUME NEW s, s.packet \in Packets, s.set \in Nat \ {0}, s.set <= Len(s.packet.sets),
           Current(s).length >= Header,
           NEW f \in Template, f.total_length # 0
    PROVE  /\ Records(s, f) \in Nat
           /\ Header + Records(s, f) * f.total_length <= Current(s).length
<1> DEFINE a == Current(s).length - Header
           b == f.total_length
<1>1. a \in Nat /\ b \in Nat \ {0} /\ Current(s).length \in Nat
  BY CurrentSet DEF Template, Header
<1>2. Records(s, f) = a \div b  BY DEF Records
<1>3. a \div b \in Nat /\ (a \div b) * b <= a
  <2> HIDE DEF a, b
  <2> QED  BY <1>1, DivisionFits
<1>4. Header + (a \div b) * b <= Current(s).length
  <2> DEFINE m == (a \div b) * b
  <2>1. m \in Int /\ m <= Current(s).length - Header  BY <1>1, <1>3
  <2> HIDE DEF m
  <2>2. Header + m <= Current(s).length  BY <1>1, <2>1 DEF Header
  <2> QED  BY <2>2 DEF m
<1> QED  BY <1>2, <1>3, <1>4

\* The first record of a set of count records.
LEMMA FirstRecordOK ==
    ASSUME IInv, NEW s, ThreadOK(s, taught), s.pc = "data", NEW f, NEW c \in Nat,
           f = peer_find_template(s.packet, Current(s).template_id), f # NoTemplate,
           f.variable => s.packet.version = "ipfix" /\ f.type = "Data",
           ~f.variable => Header + c * f.total_length <= Current(s).length
    PROVE  ThreadOK(ReadingRecords(s, 0, c, Header, f), taught)
<1>1. /\ s.packet \in Packets /\ s.set \in Nat \ {0} /\ s.number \in Nat
      /\ s.set <= Len(s.packet.sets) /\ Current(s).kind = "data"
      /\ Header <= Current(s).length
  <2>1. Current(s).length >= Header  BY DataFields
  <2> QED  BY <2>1, DataFields, CurrentSet DEF Header
<1>2. /\ f \in Template
      /\ <<s.packet.version, s.packet.address, s.packet.source_id, f>> \in taught
      /\ f.template_id = Current(s).template_id
  BY FindOK
<1>3. f.total_length \in Nat  BY <1>2 DEF Template
<1>4. Header = Header + 0 * f.total_length /\ 0 <= c /\ Header \in Nat  BY <1>3 DEF Header
<1> QED  BY <1>1, <1>2, <1>4, RecordsOK

\* Looking up the template of a NetFlow v9 data flowset keeps the invariant.
LEMMA V9DataOK ==
    ASSUME IInv, NEW t \in Threads, process_netflow_v9_data(t)
    PROVE  IInv'
<1> DEFINE s == thread[t]
           f == peer_find_template(s.packet, Current(s).template_id)
           r == IF f = NoTemplate THEN AfterSet(s)
                ELSE IF \/ f.fields = 0 \/ f.total_length = 0
                        \/ Records(s, f) \notin 1 .. FlowsMaximum
                     THEN Idle
                ELSE ReadingRecords(s, 0, Records(s, f), Header, f)
<1>1. ThreadOK(s, taught) /\ s.pc = "data" /\ s.packet.version = "v9"
  BY DEF IInv, ThreadsOK, process_netflow_v9_data
<1>2. Goto(t, r) /\ SharedUnchanged  BY DEF process_netflow_v9_data
<1>3. ThreadOK(r, taught)
  <2> HIDE DEF s
  <2>1. /\ s.packet \in Packets /\ s.set \in Nat \ {0} /\ s.number \in Nat
        /\ s.set <= Len(s.packet.sets) /\ Current(s).length >= Header
    BY <1>1, DataFields
  <2>2. CASE f = NoTemplate  BY <2>1, <2>2, AfterSetOK
  <2>3. CASE f # NoTemplate /\ f.total_length # 0
    <3>1. f \in Template /\ ~f.variable  BY <1>1, <2>3, FindOK
    <3>2. /\ Records(s, f) \in Nat
          /\ Header + Records(s, f) * f.total_length <= Current(s).length
      BY <2>1, <2>3, <3>1, RecordsFit
    <3>3. ThreadOK(ReadingRecords(s, 0, Records(s, f), Header, f), taught)
      BY <1>1, <2>3, <3>1, <3>2, FirstRecordOK
    <3> QED  BY <2>3, <3>3, IdleOK
  <2>4. CASE f # NoTemplate /\ f.total_length = 0  BY <2>4, IdleOK
  <2> QED  BY <2>2, <2>3, <2>4
<1> HIDE DEF r
<1> QED  BY <1>2, <1>3, MoveOK

\* Looking up the template of an IPFIX data set keeps the invariant.
LEMMA IpfixDataOK ==
    ASSUME IInv, NEW t \in Threads, process_ipfix_data_set(t)
    PROVE  IInv'
<1> DEFINE s == thread[t]
           f == peer_find_template(s.packet, Current(s).template_id)
           c == IF f.type = "Data" THEN process_ipfix_regular_data_set(s, f)
                ELSE process_ipfix_options_data_set(s, f)
           r == IF f = NoTemplate THEN Idle
                ELSE IF f.fields = 0 THEN Idle
                ELSE IF f.type = "Options" /\ f.variable THEN AfterSet(s)
                ELSE IF c = 0 THEN Idle
                ELSE ReadingRecords(s, 0, c, Header, f)
<1>1. ThreadOK(s, taught) /\ s.pc = "data" /\ s.packet.version = "ipfix"
  BY DEF IInv, ThreadsOK, process_ipfix_data_set
<1>2. Goto(t, r) /\ SharedUnchanged  BY DEF process_ipfix_data_set
<1>3. ThreadOK(r, taught)
  <2> HIDE DEF s
  <2>1. /\ s.packet \in Packets /\ s.set \in Nat \ {0} /\ s.number \in Nat
        /\ s.set <= Len(s.packet.sets) /\ Current(s).length >= Header
    BY <1>1, DataFields
  <2>2. ThreadOK(AfterSet(s), taught)  BY <2>1, AfterSetOK
  <2>3. Current(s).length \in Nat  BY <2>1, CurrentSet
  <2>4. CASE f # NoTemplate /\ ~(f.type = "Options" /\ f.variable) /\ c # 0
    <3>1. f \in Template /\ f.type \in {"Data", "Options"} /\ f.total_length \in Nat
          /\ f.variable \in BOOLEAN
      BY <1>1, <2>4, FindOK DEF Template
    <3>2. CASE f.variable
      <4>1. c \in Nat  BY <2>3, <2>4, <3>1, <3>2 DEF process_ipfix_regular_data_set
      <4>2. f.type = "Data"  BY <2>4, <3>1, <3>2
      <4>3. ThreadOK(ReadingRecords(s, 0, c, Header, f), taught)
        <5> HIDE DEF c
        <5> QED  BY <1>1, <2>4, <3>2, <4>1, <4>2, FirstRecordOK
      <4> QED  BY <4>3, <2>2, IdleOK
    <3>3. CASE ~f.variable /\ f.type = "Data"
      <4>1. f.total_length # 0 /\ c = Records(s, f)
        BY <2>4, <3>3 DEF process_ipfix_regular_data_set
      <4>2. c \in Nat /\ Header + c * f.total_length <= Current(s).length
        BY <2>1, <3>1, <4>1, RecordsFit
      <4>3. ThreadOK(ReadingRecords(s, 0, c, Header, f), taught)
        <5> HIDE DEF c
        <5> QED  BY <1>1, <2>4, <3>3, <4>2, FirstRecordOK
      <4> QED  BY <4>3, <2>2, IdleOK
    <3>4. CASE ~f.variable /\ f.type = "Options"
      <4>1. c = 1 /\ ~(Header + f.total_length > Current(s).length)
        BY <2>4, <3>4 DEF process_ipfix_options_data_set
      <4>2. c \in Nat /\ Header + c * f.total_length <= Current(s).length
        BY <2>3, <3>1, <4>1 DEF Header
      <4>3. ThreadOK(ReadingRecords(s, 0, c, Header, f), taught)
        <5> HIDE DEF c
        <5> QED  BY <1>1, <2>4, <3>4, <4>2, FirstRecordOK
      <4> QED  BY <4>3, <2>2, IdleOK
    <3> QED  BY <3>1, <3>2, <3>3, <3>4
  <2>5. CASE ~(f # NoTemplate /\ ~(f.type = "Options" /\ f.variable) /\ c # 0)
    <3> HIDE DEF c
    <3> QED  BY <2>2, <2>5, IdleOK
  <2> QED  BY <2>4, <2>5
<1> HIDE DEF r
<1> QED  BY <1>2, <1>3, MoveOK

\* A step inside a record: one thread moves, and rates, timeouts and flows passed
\* on keep their types.
LEMMA RecordStep ==
    ASSUME IInv, NEW t \in Threads, NEW s, ThreadOK(s, taught), Goto(t, s),
           UNCHANGED <<templates, received, taught>>,
           rates' \in [Versions -> [Addresses -> Rates \cup {0}]],
           timeouts' \in [Versions -> [Addresses -> Timeouts \cup {ZeroTimeouts, NoTimeouts}]],
           DOMAIN passed' = Threads
    PROVE  IInv'
<1>1. TablesOK'  BY TablesKept DEF IInv
<1>2. OthersOK'  BY DEF IInv, OthersOK
<1>3. ThreadsOK'  BY ThreadStep DEF IInv
<1> QED  BY <1>1, <1>2, <1>3 DEF IInv

\* What a thread inside a record may rely on.
LEMMA RecordFields ==
    ASSUME IInv, NEW s, ThreadOK(s, taught), InData(s)
    PROVE  /\ s.packet.version \in Versions /\ s.packet.address \in Addresses
           /\ SamplingRate(s) \in Rates \cup {0}
           /\ Current(s).timeouts \in Timeouts \cup {ZeroTimeouts}
<1>1. s.packet \in Packets /\ s.set \in Nat \ {0} /\ s.set <= Len(s.packet.sets)
  BY DataFields DEF InData
<1> QED  BY <1>1, PacketFields, CurrentSet DEF SamplingRate

\* The two updates of a sampling rate keep the type of the map.
LEMMA RatesKept ==
    ASSUME IInv, NEW a \in Addresses, NEW r \in Rates \cup {0},
           \/ update_netflow_v9_sampling_rate(a, r)
           \/ update_ipfix_sampling_rate(a, r)
    PROVE  rates' \in [Versions -> [Addresses -> Rates \cup {0}]]
<1>1. CASE update_netflow_v9_sampling_rate(a, r)
  BY <1>1 DEF IInv, OthersOK, update_netflow_v9_sampling_rate, Versions
<1>2. CASE update_ipfix_sampling_rate(a, r)
  BY <1>2 DEF IInv, OthersOK, update_ipfix_sampling_rate, Versions
<1> QED  BY <1>1, <1>2

\* The end of a data set keeps the invariant.
LEMMA EndOfDataOK ==
    ASSUME IInv, NEW t \in Threads, end_of_data_set(t)
    PROVE  IInv'
<1> DEFINE s == thread[t]
<1>1. ThreadOK(s, taught) /\ s.pc = "records"  BY DEF IInv, ThreadsOK, end_of_data_set
<1>2. ThreadOK(AfterSet(s), taught)
  <2> HIDE DEF s
  <2> QED  BY <1>1, DataFields, AfterSetOK
<1>3. SharedUnchanged /\ (Goto(t, AfterSet(s)) \/ Goto(t, Idle))  BY DEF end_of_data_set
<1> QED  BY <1>2, <1>3, IdleOK, MoveOK

\* Looking the sampling rate up keeps the invariant.
LEMMA FindRateOK ==
    ASSUME IInv, NEW t \in Threads, find_sampling_rate(t)
    PROVE  IInv'
<1> DEFINE s == thread[t]
           rate == rates[s.packet.version][s.packet.address]
           x == IF rate = 0 THEN ConfiguredRatio ELSE rate
<1>1. /\ ThreadOK(s, taught) /\ s.pc = "records" /\ ~RecordsDone(s)
      /\ s.found.type = "Data"
  BY DEF IInv, ThreadsOK, find_sampling_rate, StopReading
<1>2. Goto(t, InsideRecord(s, "flow", x)) /\ SharedUnchanged  BY DEF find_sampling_rate
<1>3. ThreadOK(InsideRecord(s, "flow", x), taught)
  <2> HIDE DEF s
  <2>1. s \in RecordsState  BY <1>1, Shapes DEF ThreadOK
  <2>2. s.packet.version \in Versions /\ s.packet.address \in Addresses
    BY <1>1, RecordFields DEF InData
  <2>3. x \in Nat
    <3>1. rate \in Rates \cup {0}  BY <2>2 DEF IInv, OthersOK
    <3> HIDE DEF rate
    <3> QED  BY <3>1, NetflowAssumption
  <2> HIDE DEF x
  <2> QED  BY <1>1, <2>1, <2>3, InsideOK
<1> QED  BY <1>2, <1>3, MoveOK

\* A NetFlow v9 data record keeps the invariant.
LEMMA V9RecordOK ==
    ASSUME IInv, NEW t \in Threads, netflow9_flowset_to_store(t)
    PROVE  IInv'
<1> DEFINE s == thread[t]
<1>1. ThreadOK(s, taught) /\ s.pc = "flow" /\ s.packet.version = "v9"
  BY DEF IInv, ThreadsOK, netflow9_flowset_to_store
<1>2. /\ update_netflow_v9_sampling_rate(s.packet.address, SamplingRate(s))
      /\ Goto(t, NextRecord(s, s.found.total_length))
      /\ UNCHANGED <<templates, timeouts, received, taught>>
  BY DEF netflow9_flowset_to_store
<1>3. ThreadOK(NextRecord(s, s.found.total_length), taught)
  <2> HIDE DEF s
  <2>1. ~s.found.variable  BY <1>1 DEF ThreadOK, Bounded, InData
  <2> QED  BY <1>1, <2>1, NextRecordOK
<1>4. rates' \in [Versions -> [Addresses -> Rates \cup {0}]]
  <2> HIDE DEF s
  <2> QED  BY <1>1, <1>2, RecordFields, RatesKept DEF InData
<1>5. DOMAIN passed' = Threads
  <2>1. s.packet \in Packets /\ s.set \in Nat \ {0} /\ s.set <= Len(s.packet.sets)
    BY <1>1, DataFields
  <2>2. Current(s).content \in {"flow", "nat", "asa", "lite"}
    BY <2>1, CurrentSet DEF SetType, RecordContents
  <2> QED  BY <2>2 DEF netflow9_flowset_to_store, PassOn, IInv, OthersOK
<1>6. timeouts' \in [Versions -> [Addresses -> Timeouts \cup {ZeroTimeouts, NoTimeouts}]]
  BY <1>2 DEF IInv, OthersOK
<1> QED  BY <1>2, <1>3, <1>4, <1>5, <1>6, RecordStep

\* An IPFIX data record keeps the invariant.
LEMMA IpfixRecordOK ==
    ASSUME IInv, NEW t \in Threads, ipfix_data_set_to_store(t)
    PROVE  IInv'
<1> DEFINE s == thread[t]
<1>1. ThreadOK(s, taught) /\ s.pc = "flow" /\ s.packet.version = "ipfix"
  BY DEF IInv, ThreadsOK, ipfix_data_set_to_store
<1>2. UNCHANGED <<templates, rates, timeouts, received, taught>>
  BY DEF ipfix_data_set_to_store
<1>3. PICK r : Goto(t, r) /\ ThreadOK(r, taught)
  <2>1. CASE s.found.variable /\ Goto(t, Idle)  BY <2>1, IdleOK
  <2>2. CASE s.found.variable /\ read_ipfix_variable_length_field(s)
             /\ Goto(t, AfterVariableRecord(s))
    <3> HIDE DEF s
    <3> QED  BY <1>1, <2>2, AfterVariableOK
  <2>3. CASE ~s.found.variable /\ Goto(t, NextRecord(s, s.found.total_length))
    <3> HIDE DEF s
    <3> QED  BY <1>1, <2>3, NextRecordOK
  <2> QED  BY <2>1, <2>2, <2>3 DEF ipfix_data_set_to_store
<1>4. DOMAIN passed' = Threads  BY DEF ipfix_data_set_to_store, PassOn, IInv, OthersOK
<1>5. /\ rates' \in [Versions -> [Addresses -> Rates \cup {0}]]
      /\ timeouts' \in [Versions -> [Addresses -> Timeouts \cup {ZeroTimeouts, NoTimeouts}]]
  BY <1>2 DEF IInv, OthersOK
<1> QED  BY <1>2, <1>3, <1>4, <1>5, RecordStep

\* The sampling rate of an options record, of either protocol, keeps the invariant.
LEMMA OptionsOK ==
    ASSUME IInv, NEW t \in Threads,
           netflow9_options_flowset_to_store(t) \/ ipfix_options_set_to_store(t)
    PROVE  IInv'
<1> DEFINE s == thread[t]
<1>1. /\ ThreadOK(s, taught) /\ s.pc = "records" /\ ~RecordsDone(s)
      /\ s.found.type = "Options"
  BY DEF IInv, ThreadsOK, netflow9_options_flowset_to_store, ipfix_options_set_to_store,
         StopReading
<1>2. /\ \/ update_netflow_v9_sampling_rate(s.packet.address, SamplingRate(s))
         \/ update_ipfix_sampling_rate(s.packet.address, SamplingRate(s))
      /\ Goto(t, InsideRecord(s, "timeouts", 0))
      /\ UNCHANGED <<templates, timeouts, passed, received, taught>>
  BY DEF netflow9_options_flowset_to_store, ipfix_options_set_to_store
<1>3. ThreadOK(InsideRecord(s, "timeouts", 0), taught)
  <2> HIDE DEF s
  <2>1. s \in RecordsState  BY <1>1, Shapes DEF ThreadOK
  <2> QED  BY <1>1, <2>1, InsideOK
<1>4. rates' \in [Versions -> [Addresses -> Rates \cup {0}]]
  <2> HIDE DEF s
  <2> QED  BY <1>1, <1>2, RecordFields, RatesKept DEF InData
<1>5. /\ timeouts' \in [Versions -> [Addresses -> Timeouts \cup {ZeroTimeouts, NoTimeouts}]]
      /\ DOMAIN passed' = Threads
  BY <1>2 DEF IInv, OthersOK
<1> QED  BY <1>2, <1>3, <1>4, <1>5, RecordStep

\* Storing the timeouts of an options record keeps the invariant.
LEMMA TimeoutsOK ==
    ASSUME IInv, NEW t \in Threads, store_timeouts(t)
    PROVE  IInv'
<1> DEFINE s == thread[t]
<1>1. ThreadOK(s, taught) /\ s.pc = "timeouts"  BY DEF IInv, ThreadsOK, store_timeouts
<1>2. /\ update_device_flow_timeouts(s.packet, Current(s).timeouts)
      /\ Goto(t, NextRecord(s, s.found.total_length))
      /\ UNCHANGED <<templates, rates, passed, received, taught>>
  BY DEF store_timeouts
<1> HIDE DEF s
<1>3. ThreadOK(NextRecord(s, s.found.total_length), taught)
  <2>1. ~s.found.variable  BY <1>1 DEF ThreadOK, Bounded, InData, Placed
  <2> QED  BY <1>1, <2>1, NextRecordOK
<1>4. timeouts' \in [Versions -> [Addresses -> Timeouts \cup {ZeroTimeouts, NoTimeouts}]]
  BY <1>1, <1>2, RecordFields DEF InData, IInv, OthersOK, update_device_flow_timeouts
<1>5. /\ rates' \in [Versions -> [Addresses -> Rates \cup {0}]]
      /\ DOMAIN passed' = Threads
  BY <1>2 DEF IInv, OthersOK
<1> QED  BY <1>2, <1>3, <1>4, <1>5, RecordStep

\* The states of every thread, and the templates in the tables, stay within the
\* bounds the readers of records rely on, in every behaviour of the collectors.
THEOREM InvariantHolds == Spec => []IInv
<1>1. Init => IInv  BY InitOK
<1>2. IInv /\ [Next]_vars => IInv'
  <2> SUFFICES ASSUME IInv, [Next]_vars PROVE IInv'  OBVIOUS
  <2>1. CASE UNCHANGED vars
    BY <2>1 DEF vars, IInv, TablesOK, OthersOK, ThreadsOK
  <2>2. CASE Next
    <3>1. PICK t \in Threads : \/ \E packet \in Packets : Receive(t, packet)
                               \/ Timeout(t)
                               \/ Step(t)
      BY <2>2 DEF Next
    <3>2. CASE \E packet \in Packets : Receive(t, packet)  BY <3>2, ReceiveOK
    <3>3. CASE Timeout(t)  BY <3>3, <2>1 DEF Timeout
    <3>4. CASE Step(t)
      BY <3>4, V9PacketOK, IpfixSetsOK, ProcessTemplateOK, TemplateEndOK, V9DataOK,
         IpfixDataOK, EndOfDataOK, FindRateOK, V9RecordOK, IpfixRecordOK, OptionsOK,
         TimeoutsOK DEF Step
    <3> QED  BY <3>1, <3>2, <3>3, <3>4
  <2> QED  BY <2>1, <2>2
<1> QED  BY <1>1, <1>2, PTL DEF Spec

\* Every variable keeps its type, and a thread inside a set uses the reader that
\* the set's kind and the template's type call for (the dispatch on flowset_id in
\* process_netflow_packet_v9 and process_ipfix_sets).
THEOREM NetflowTypeCorrect == Spec => []TypeOK
<1>1. IInv => TypeOK
  <2> SUFFICES ASSUME IInv PROVE TypeOK  OBVIOUS
  <2>1. thread \in [Threads -> ThreadState]  BY DEF IInv, ThreadsOK
  <2>2. \A t \in Threads : Placed(thread[t])  BY DEF IInv, ThreadsOK, ThreadOK
  <2> QED  BY <2>1, <2>2 DEF IInv, TablesOK, OthersOK, TypeOK, Placed
<1> QED  BY <1>1, InvariantHolds, PTL

\* No record is read outside its set, although other threads replace templates
\* between two records: for every packet, the count computed from the thread's
\* copy of the template (process_ipfix_regular_data_set) bounds what is read with it.
THEOREM ReadsInSet == Spec => []ReadsStayInSet
<1>1. IInv => ReadsStayInSet
  <2> SUFFICES ASSUME IInv, NEW t \in Threads, InData(thread[t])
               PROVE  /\ thread[t].offset <= Current(thread[t]).length
                      /\ ~thread[t].found.variable
                         /\ (thread[t].pc = "records" => ~RecordsDone(thread[t])) =>
                           thread[t].offset + thread[t].found.total_length
                             <= Current(thread[t]).length
    BY DEF ReadsStayInSet, InData
  <2> DEFINE s == thread[t]
  <2>1. ThreadOK(s, taught)  BY DEF IInv, ThreadsOK
  <2> HIDE DEF s
  <2>2. InData(s)  BY DEF s
  <2>3. s.offset <= Current(s).length  BY <2>1, <2>2 DEF ThreadOK, Bounded
  <2>4. ASSUME ~s.found.variable, s.pc = "records" => ~RecordsDone(s)
        PROVE  s.offset + s.found.total_length <= Current(s).length
    <3>1. /\ s.index \in Nat /\ s.count \in Nat /\ s.offset \in Nat
          /\ s.found.total_length \in Nat
          /\ s.packet \in Packets /\ s.set \in Nat \ {0} /\ s.set <= Len(s.packet.sets)
      BY <2>1, <2>2, DataFields DEF InData
    <3>2. Current(s).length \in Nat  BY <3>1, CurrentSet
    <3>3. /\ s.offset = Header + s.index * s.found.total_length
          /\ Header + s.count * s.found.total_length <= Current(s).length
          /\ s.index <= s.count
          /\ s.pc # "records" => s.index < s.count
      BY <2>1, <2>2, <2>4 DEF ThreadOK, Bounded
    <3>4. s.index < s.count  BY <3>1, <3>3, <2>4 DEF RecordsDone
    <3> DEFINE b == s.found.total_length
    <3> HIDE DEF b
    <3>5. s.offset + b <= Current(s).length
      BY <3>1, <3>2, <3>3, <3>4, OneMoreFits DEF b
    <3> QED  BY <3>5 DEF b
  <2> QED  BY <2>3, <2>4 DEF s
<1> QED  BY <1>1, InvariantHolds, PTL

\* The data of an exporter is decoded only with templates the same exporter sent,
\* with the same protocol and source id (the key of add_update_peer_template and
\* peer_find_template), whatever other exporters send to other threads.
THEOREM ExportersApart == Spec => []ExportersKeptApart
<1>1. IInv => ExportersKeptApart
  BY DEF IInv, TablesOK, ThreadsOK, ThreadOK, FoundIn, InData, ExportersKeptApart
<1> QED  BY <1>1, InvariantHolds, PTL

-----------------------------------------------------------------------------
(* Sampling rates.  RatesAreReported needs to know in addition where the   *)
(* ratio comes from that a thread holds between looking it up and passing  *)
(* the flow on.                                                            *)

RatesOK ==
    \A v \in Versions, a \in Addresses :
        IF rates[v][a] = 0 THEN \A r \in Rates : <<v, a, r>> \notin reported
        ELSE <<v, a, rates[v][a]>> \in reported

RatioOK(v, a, x, R) == x = ConfiguredRatio \/ <<v, a, x>> \in R

FlowOK(s, R) == s.pc = "flow" => RatioOK(s.packet.version, s.packet.address, s.ratio, R)

PassedOK(p, R) ==
    p.ratios # <<>> /\ ~p.nested =>
        \A i \in DOMAIN p.ratios : RatioOK(p.version, p.address, p.ratios[i], R)

RatesInv ==
    /\ RatesOK
    /\ \A t \in Threads : FlowOK(thread[t], reported)
    /\ \A t \in Threads : PassedOK(passed[t], reported)

\* Recording a rate, of either protocol: the map and the history stay together.
LEMMA ReportOK ==
    ASSUME IInv, RatesOK, NEW s, s.packet.address \in Addresses, NEW r \in Rates \cup {0},
           \/ s.packet.version = "v9" /\ update_netflow_v9_sampling_rate(s.packet.address, r)
           \/ s.packet.version = "ipfix" /\ update_ipfix_sampling_rate(s.packet.address, r),
           Report(s, r)
    PROVE  RatesOK' /\ reported \subseteq reported'
<1>1. reported \subseteq reported'  BY DEF Report
<1>2. CASE r = 0
  BY <1>2 DEF RatesOK, Report, update_netflow_v9_sampling_rate, update_ipfix_sampling_rate
<1>3. CASE r # 0
  <2> DEFINE v == s.packet.version
             a == s.packet.address
  <2>1. /\ v \in Versions /\ a \in Addresses /\ r \in Rates
        /\ rates' = [rates EXCEPT ![v][a] = r]
        /\ reported' = reported \cup {<<v, a, r>>}
    BY <1>3 DEF Report, Versions, update_netflow_v9_sampling_rate, update_ipfix_sampling_rate
  <2> HIDE DEF v, a
  <2>2. ASSUME NEW w \in Versions, NEW b \in Addresses
        PROVE  IF rates'[w][b] = 0 THEN \A q \in Rates : <<w, b, q>> \notin reported'
               ELSE <<w, b, rates'[w][b]>> \in reported'
    <3>1. CASE w = v /\ b = a
      <4>1. rates'[w][b] = r  BY <2>1, <3>1 DEF IInv, OthersOK
      <4> QED  BY <4>1, <3>1, <2>1, <1>3
    <3>2. CASE ~(w = v /\ b = a)
      <4>1. rates'[w][b] = rates[w][b]  BY <2>1, <3>2 DEF IInv, OthersOK
      <4> QED  BY <4>1, <3>2, <2>1 DEF RatesOK
    <3> QED  BY <3>1, <3>2
  <2> QED  BY <2>2, <1>1 DEF RatesOK
<1> QED  BY <1>1, <1>2, <1>3

\* A thread that moves, when what it holds and passes on is accounted for.
LEMMA RatesMove ==
    ASSUME IInv, RatesInv, NEW t \in Threads, NEW s, Goto(t, s), RatesOK',
           reported \subseteq reported', FlowOK(s, reported'),
           \/ UNCHANGED passed
           \/ \E p : passed' = [passed EXCEPT ![t] = p] /\ PassedOK(p, reported')
    PROVE  RatesInv'
<1>1. ASSUME NEW u \in Threads PROVE FlowOK(thread'[u], reported')
  <2>1. CASE u = t  BY <2>1 DEF Goto, IInv, ThreadsOK
  <2>2. CASE u # t
    <3>1. thread'[u] = thread[u]  BY <2>2 DEF Goto, IInv, ThreadsOK
    <3>2. FlowOK(thread[u], reported)  BY DEF RatesInv
    <3> QED  BY <3>1, <3>2 DEF FlowOK, RatioOK
  <2> QED  BY <2>1, <2>2
<1>2. ASSUME NEW u \in Threads PROVE PassedOK(passed'[u], reported')
  <2>1. PassedOK(passed[u], reported')
    <3>1. PassedOK(passed[u], reported)  BY DEF RatesInv
    <3> QED  BY <3>1 DEF PassedOK, RatioOK
  <2>2. CASE UNCHANGED passed  BY <2>1, <2>2
  <2>3. CASE \E p : passed' = [passed EXCEPT ![t] = p] /\ PassedOK(p, reported')
    <3>1. PICK p : passed' = [passed EXCEPT ![t] = p] /\ PassedOK(p, reported')  BY <2>3
    <3>2. CASE u = t
      <4>1. passed'[u] = p  BY <3>1, <3>2 DEF IInv, OthersOK
      <4> QED  BY <3>1, <4>1
    <3>3. CASE u # t
      <4>1. passed'[u] = passed[u]  BY <3>1, <3>3 DEF IInv, OthersOK
      <4> QED  BY <2>1, <4>1
    <3> QED  BY <3>2, <3>3
  <2> QED  BY <2>2, <2>3
<1> QED  BY <1>1, <1>2 DEF RatesInv

\* A thread that moves out of, or stays outside, the reading of a flow.
LEMMA QuietMove ==
    ASSUME IInv, RatesInv, NEW t \in Threads, NEW s, Goto(t, s), s.pc # "flow",
           UNCHANGED <<rates, reported, passed>>
    PROVE  RatesInv'
<1>1. RatesOK'  BY DEF RatesInv, RatesOK
<1>2. FlowOK(s, reported')  BY DEF FlowOK
<1> QED  BY <1>1, <1>2, RatesMove

\* The states of a thread that hold no ratio.
LEMMA NotInFlow ==
    ASSUME NEW s
    PROVE  /\ Idle.pc # "flow"
           /\ \A p, n, m : ReadingSet(p, n, m).pc # "flow"
           /\ AfterSet(s).pc # "flow"
           /\ Dispatch(s).pc # "flow"
           /\ \A i : ReadingTemplates(s, i).pc # "flow"
           /\ \A i, c, o, f : ReadingRecords(s, i, c, o, f).pc # "flow"
           /\ \A n : NextRecord(s, n).pc # "flow"
           /\ AfterVariableRecord(s).pc # "flow"
BY DEF Idle, ReadingSet, AfterSet, Dispatch, FindingTemplate, ReadingTemplates,
       ReadingRecords, NextRecord, AfterVariableRecord

\* Looking a rate up: it is the configured one or one that was reported.
LEMMA FindRateReported ==
    ASSUME IInv, RatesInv, NEW t \in Threads, find_sampling_rate(t)
    PROVE  RatesInv'
<1> DEFINE s == thread[t]
           rate == rates[s.packet.version][s.packet.address]
           x == IF rate = 0 THEN ConfiguredRatio ELSE rate
           r == InsideRecord(s, "flow", x)
<1>1. Goto(t, r) /\ UNCHANGED <<rates, reported, passed>>
  BY DEF find_sampling_rate, SharedUnchanged
<1>2. ThreadOK(s, taught) /\ s.pc = "records"  BY DEF IInv, ThreadsOK, find_sampling_rate
<1>3. s.packet.version \in Versions /\ s.packet.address \in Addresses
  <2> HIDE DEF s
  <2> QED  BY <1>2, RecordFields DEF InData
<1>4. RatioOK(s.packet.version, s.packet.address, x, reported)
  BY <1>3 DEF RatesInv, RatesOK, RatioOK
<1>5. r.packet = s.packet /\ r.ratio = x  BY DEF InsideRecord
<1> HIDE DEF r, x
<1>6. FlowOK(r, reported')  BY <1>1, <1>4, <1>5 DEF FlowOK
<1>7. RatesOK'  BY <1>1 DEF RatesInv, RatesOK
<1> QED  BY <1>1, <1>6, <1>7, RatesMove

\* What is passed on is scaled by the ratio the thread holds, unless the packet
\* inside a Netflow Lite record brings its own.
LEMMA PassOnReported ==
    ASSUME NEW t, NEW s, NEW R, NEW ratios, RatioOK(s.packet.version, s.packet.address, s.ratio, R),
           NEW nested \in BOOLEAN, nested \/ ratios \in {<<s.ratio>>, <<s.ratio, s.ratio>>},
           PassOn(t, s, ratios, nested)
    PROVE  \E p : passed' = [passed EXCEPT ![t] = p] /\ PassedOK(p, R)
<1> DEFINE p == [version |-> s.packet.version, address |-> s.packet.address,
                 ratios |-> ratios, nested |-> nested]
<1>1. passed' = [passed EXCEPT ![t] = p]  BY DEF PassOn
<1>2. PassedOK(p, R)
  <2>1. CASE nested  BY <2>1 DEF PassedOK
  <2>2. CASE ~nested
    <3>1. \A i \in DOMAIN ratios : ratios[i] = s.ratio  BY <2>2
    <3> QED  BY <3>1 DEF PassedOK
  <2> QED  BY <2>1, <2>2
<1> QED  BY <1>1, <1>2

\* A NetFlow v9 data record, which may report a rate itself.
LEMMA V9RecordReported ==
    ASSUME IInv, RatesInv, NEW t \in Threads, netflow9_flowset_to_store(t)
    PROVE  RatesInv'
<1> DEFINE s == thread[t]
<1>1. /\ ThreadOK(s, taught) /\ s.pc = "flow" /\ s.packet.version = "v9"
      /\ update_netflow_v9_sampling_rate(s.packet.address, SamplingRate(s))
      /\ Report(s, SamplingRate(s))
      /\ Goto(t, NextRecord(s, s.found.total_length))
  BY DEF IInv, ThreadsOK, netflow9_flowset_to_store
<1>2. FlowOK(s, reported)  BY DEF RatesInv
<1>3. \/ UNCHANGED passed
      \/ PassOn(t, s, <<s.ratio>>, FALSE)
      \/ PassOn(t, s, <<s.ratio, s.ratio>>, FALSE)
      \/ \E x : PassOn(t, s, <<x>>, TRUE)
  <2>1. s.packet \in Packets /\ s.set \in Nat \ {0} /\ s.set <= Len(s.packet.sets)
    BY <1>1, DataFields
  <2>2. Current(s).content \in {"flow", "nat", "asa", "lite"}
    BY <2>1, CurrentSet DEF SetType, RecordContents
  <2> QED  BY <2>2 DEF netflow9_flowset_to_store
<1> HIDE DEF s
<1>4. RatesOK' /\ reported \subseteq reported'
  BY <1>1, RecordFields, ReportOK DEF InData, RatesInv
<1>5. RatioOK(s.packet.version, s.packet.address, s.ratio, reported')
  BY <1>1, <1>2, <1>4 DEF FlowOK, RatioOK
<1>6. \/ UNCHANGED passed
      \/ \E p : passed' = [passed EXCEPT ![t] = p] /\ PassedOK(p, reported')
  BY <1>3, <1>5, PassOnReported
<1>7. FlowOK(NextRecord(s, s.found.total_length), reported')  BY NotInFlow DEF FlowOK
<1> QED  BY <1>1, <1>4, <1>6, <1>7, RatesMove

\* An IPFIX data record.
LEMMA IpfixRecordReported ==
    ASSUME IInv, RatesInv, NEW t \in Threads, ipfix_data_set_to_store(t)
    PROVE  RatesInv'
<1> DEFINE s == thread[t]
<1>1. s.pc = "flow" /\ UNCHANGED <<rates, reported>>  BY DEF ipfix_data_set_to_store
<1>2. RatioOK(s.packet.version, s.packet.address, s.ratio, reported')
  BY <1>1 DEF RatesInv, FlowOK
<1>3. UNCHANGED passed \/ PassOn(t, s, <<s.ratio>>, FALSE)  BY DEF ipfix_data_set_to_store
<1>4. \/ UNCHANGED passed
      \/ \E p : passed' = [passed EXCEPT ![t] = p] /\ PassedOK(p, reported')
  BY <1>2, <1>3, PassOnReported
<1>5. PICK r : Goto(t, r) /\ r.pc # "flow"  BY NotInFlow DEF ipfix_data_set_to_store
<1>6. FlowOK(r, reported')  BY <1>5 DEF FlowOK
<1>7. RatesOK'  BY <1>1 DEF RatesInv, RatesOK
<1> QED  BY <1>1, <1>4, <1>5, <1>6, <1>7, RatesMove

\* The rate of an options record.
LEMMA OptionsReported ==
    ASSUME IInv, RatesInv, NEW t \in Threads,
           netflow9_options_flowset_to_store(t) \/ ipfix_options_set_to_store(t)
    PROVE  RatesInv'
<1> DEFINE s == thread[t]
           r == InsideRecord(s, "timeouts", 0)
<1>1. /\ ThreadOK(s, taught) /\ s.pc = "records"
      /\ Report(s, SamplingRate(s)) /\ Goto(t, r) /\ UNCHANGED passed
      /\ \/ s.packet.version = "v9"
            /\ update_netflow_v9_sampling_rate(s.packet.address, SamplingRate(s))
         \/ s.packet.version = "ipfix"
            /\ update_ipfix_sampling_rate(s.packet.address, SamplingRate(s))
  BY DEF IInv, ThreadsOK, netflow9_options_flowset_to_store, ipfix_options_set_to_store
<1>2. FlowOK(r, reported')  BY DEF FlowOK, InsideRecord
<1> HIDE DEF s, r
<1>3. RatesOK' /\ reported \subseteq reported'
  BY <1>1, RecordFields, ReportOK DEF InData, RatesInv
<1> QED  BY <1>1, <1>2, <1>3, RatesMove

\* Flows are scaled by the configured ratio or by one the exporter's address has
\* reported, and a rate once kept is not lost to options records without one
\* (update_netflow_v9_sampling_rate and update_ipfix_sampling_rate return early),
\* however the look-ups and updates of the threads interleave.
THEOREM RatesReported == Spec => []RatesAreReported
<1>1. Init => RatesInv
  BY DEF Init, RatesInv, RatesOK, FlowOK, PassedOK, Idle
<1>2. IInv /\ RatesInv /\ [Next]_vars => RatesInv'
  <2> SUFFICES ASSUME IInv, RatesInv, [Next]_vars PROVE RatesInv'  OBVIOUS
  <2>1. CASE UNCHANGED vars
    BY <2>1 DEF vars, RatesInv, RatesOK
  <2>2. CASE Next
    <3>1. PICK t \in Threads : \/ \E packet \in Packets : Receive(t, packet)
                               \/ Timeout(t)
                               \/ Step(t)
      BY <2>2 DEF Next
    <3>2. CASE \E packet \in Packets : Receive(t, packet)
      <4>1. PICK packet \in Packets : Receive(t, packet)  BY <3>2
      <4>2. CASE UNCHANGED thread  BY <4>1, <4>2 DEF Receive, RatesInv, RatesOK
      <4>3. CASE Goto(t, ReadingSet(packet, 1, 0))
        BY <4>1, <4>3, NotInFlow, QuietMove DEF Receive
      <4> QED  BY <4>1, <4>2, <4>3 DEF Receive
    <3>3. CASE Timeout(t)  BY <3>3, <2>1 DEF Timeout
    <3>4. CASE \/ process_netflow_packet_v9(t) \/ process_ipfix_sets(t)
               \/ process_template(t) \/ process_template_end(t)
               \/ process_netflow_v9_data(t) \/ process_ipfix_data_set(t)
               \/ end_of_data_set(t) \/ store_timeouts(t)
      <4>1. UNCHANGED <<rates, reported, passed>>
        BY <3>4 DEF process_netflow_packet_v9, process_ipfix_sets, process_template,
             process_template_end, process_netflow_v9_data, process_ipfix_data_set,
             end_of_data_set, store_timeouts, SharedUnchanged
      <4>2. \E r : Goto(t, r) /\ r.pc # "flow"
        <5>1. CASE process_netflow_packet_v9(t)
          BY <5>1, NotInFlow DEF process_netflow_packet_v9
        <5>2. CASE process_ipfix_sets(t)  BY <5>2, NotInFlow DEF process_ipfix_sets
        <5>3. CASE process_template(t)  BY <5>3, NotInFlow DEF process_template
        <5>4. CASE process_template_end(t)  BY <5>4, NotInFlow DEF process_template_end
        <5>5. CASE process_netflow_v9_data(t)  BY <5>5, NotInFlow DEF process_netflow_v9_data
        <5>6. CASE process_ipfix_data_set(t)  BY <5>6, NotInFlow DEF process_ipfix_data_set
        <5>7. CASE end_of_data_set(t)  BY <5>7, NotInFlow DEF end_of_data_set
        <5>8. CASE store_timeouts(t)  BY <5>8, NotInFlow DEF store_timeouts
        <5> QED  BY <3>4, <5>1, <5>2, <5>3, <5>4, <5>5, <5>6, <5>7, <5>8
      <4> QED  BY <4>1, <4>2, QuietMove
    <3> QED
      BY <3>1, <3>2, <3>3, <3>4, FindRateReported, V9RecordReported, IpfixRecordReported,
         OptionsReported DEF Step
  <2> QED  BY <2>1, <2>2
<1>3. RatesInv => RatesAreReported
  BY DEF RatesInv, RatesOK, PassedOK, RatioOK, RatesAreReported
<1> QED  BY <1>1, <1>2, <1>3, InvariantHolds, PTL DEF Spec

-----------------------------------------------------------------------------
(* What packets teach.  A thread that is in a packet has learnt the        *)
(* templates of the sets behind it, and has counted one set after the      *)
(* other, unless it stays at a reserved set.  The records of a data set    *)
(* with variable fields lie one after the other.  An exporter that has     *)
(* sent a template for some id always finds one under it.                  *)

\* All the templates of the set are read.
ReadWhole(packet, set) ==
    packet.version = "v9" /\ set.kind = "options" => Len(set.definitions) = 1

\* A reserved set that is read again and again.
Stays(s) ==
    /\ s.set <= Len(s.packet.sets)
    /\ Current(s).kind = "reserved"
    /\ s.packet.version = "v9" \/ Current(s).length = 0

BehindSets(s, known) ==
    \A i \in DOMAIN s.packet.sets :
        i < s.set /\ ReadWhole(s.packet, s.packet.sets[i]) =>
            SetLearnt(s.packet, s.packet.sets[i], known)

BehindTemplates(s, known) ==
    s.pc = "template" =>
        /\ s.index <= Len(Current(s).definitions)
        /\ \A j \in DOMAIN Current(s).definitions :
              j <= s.index => Learnt(s.packet, Current(s), j, known)

Counted(s) ==
    /\ s.number = s.set - 1 \/ (s.pc = "set" /\ Stays(s))
    /\ s.pc # "set" => Current(s).length >= Header

InRow(s) ==
    InData(s) /\ s.found.variable =>
        /\ s.offset = Header + s.index * Current(s).record_length
        /\ s.pc = "flow" => s.offset < Current(s).length

Behind(s, known) ==
    s.pc # "idle" =>
        BehindSets(s, known) /\ BehindTemplates(s, known) /\ Counted(s) /\ InRow(s)

TaughtInv ==
    \A x \in taught :
        /\ x[1] \in Versions /\ x[2] \in Addresses /\ x[3] \in SourceIds /\ x[4] \in Template
        /\ templates[x[1]][<<x[2], x[3]>>][x[4].template_id] # NoTemplate

LearntInv == TaughtInv /\ \A t \in Threads : Behind(thread[t], taught)

\* What the property asks of a thread that goes from s to r.
EndsLearnt(s, r, known) ==
    s.pc # "idle" /\ r.pc = "idle" =>
        \A n \in DOMAIN s.packet.sets :
            CleanUpTo(s.packet, n, known) => SetLearnt(s.packet, s.packet.sets[n], known)

\* What is learnt stays learnt.
LEMMA BehindLater ==
    ASSUME NEW s, NEW T, NEW U, T \subseteq U, Behind(s, T)
    PROVE  Behind(s, U)
BY DEF Behind, BehindSets, BehindTemplates, SetLearnt, Learnt

\* The place of a thread that has a packet.
LEMMA Place ==
    ASSUME NEW s, NEW T, ThreadOK(s, T), s.pc # "idle"
    PROVE  /\ s.packet \in Packets /\ s.set \in Nat \ {0} /\ s.number \in Nat
           /\ s.packet.sets \in Seq(SetType)
           /\ s.packet.version \in Versions
           /\ s.pc # "set" => s.set <= Len(s.packet.sets)
           /\ s.set <= Len(s.packet.sets) => /\ Current(s).length \in Nat
                                             /\ Current(s).record_length \in Nat \ {0}
                                             /\ Current(s) = s.packet.sets[s.set]
<1>1. s.packet \in Packets /\ s.set \in Nat \ {0} /\ s.number \in Nat
  BY DEF ThreadOK, ThreadState, SetState, TemplateState, RecordsState, InsideState, Idle
<1>2. s.packet.sets \in Seq(SetType) /\ s.packet.version \in Versions  BY <1>1, PacketFields
<1>3. s.pc # "set" => s.set <= Len(s.packet.sets)  BY DEF ThreadOK, Placed
<1>4. s.set <= Len(s.packet.sets) => /\ Current(s).length \in Nat
                                     /\ Current(s).record_length \in Nat \ {0}
  BY <1>1, CurrentSet
<1> QED  BY <1>1, <1>2, <1>3, <1>4 DEF Current

\* The loop comes to the set the thread is at, and nothing is wrong with it.
Reached(s, known) ==
    /\ s.set <= Len(s.packet.sets)
    /\ CleanSet(s.packet, Current(s), known)
    /\ s.set <= (IF s.packet.version = "v9" THEN s.packet.count ELSE SetsMaximum)

\* Sets nothing is wrong with are read whole.
LEMMA CleanReadWhole ==
    ASSUME NEW p, NEW set, NEW T, CleanSet(p, set, T)
    PROVE  ReadWhole(p, set)
BY DEF CleanSet, CleanTemplates, ReadWhole

\* A packet may end at a set with which something is wrong, which the loop does
\* not reach, or which is the last one and learnt.
LEMMA EndsAt ==
    ASSUME NEW s, NEW T, NEW r, ThreadOK(s, T), Behind(s, T),
           Reached(s, T) => s.set = Len(s.packet.sets) /\ SetLearnt(s.packet, Current(s), T)
    PROVE  EndsLearnt(s, r, T)
<1> SUFFICES ASSUME s.pc # "idle", NEW n \in DOMAIN s.packet.sets,
                    CleanUpTo(s.packet, n, T)
             PROVE  SetLearnt(s.packet, s.packet.sets[n], T)
  BY DEF EndsLearnt
<1>1. /\ s.packet \in Packets /\ s.set \in Nat \ {0} /\ s.packet.sets \in Seq(SetType)
      /\ s.set <= Len(s.packet.sets) => Current(s) = s.packet.sets[s.set]
  BY Place
<1>2. n \in Nat \ {0} /\ n <= Len(s.packet.sets)  BY <1>1
<1>3. CASE n < s.set
  <2>1. CleanSet(s.packet, s.packet.sets[n], T)  BY <1>2 DEF CleanUpTo
  <2> QED  BY <1>3, <2>1, CleanReadWhole DEF Behind, BehindSets
<1>4. CASE s.set <= n
  <2> DEFINE limit == IF s.packet.version = "v9" THEN s.packet.count ELSE SetsMaximum
  <2>1. limit \in Nat  BY <1>1, PacketFields, NetflowAssumption
  <2>2. n <= limit  BY DEF CleanUpTo
  <2>3. s.set <= Len(s.packet.sets) /\ s.set \in 1 .. n  BY <1>1, <1>2, <1>4
  <2>4. CleanSet(s.packet, Current(s), T)  BY <1>1, <2>3 DEF CleanUpTo
  <2> HIDE DEF limit
  <2>5. s.set <= limit  BY <1>1, <1>2, <1>4, <2>1, <2>2
  <2>6. s.set = Len(s.packet.sets) /\ SetLearnt(s.packet, Current(s), T)
    BY <2>3, <2>4, <2>5 DEF limit, Reached
  <2>7. n = s.set  BY <1>1, <1>2, <1>4, <2>6
  <2> QED  BY <1>1, <2>3, <2>6, <2>7
<1> QED  BY <1>1, <1>2, <1>3, <1>4

\* After a set: what was behind the thread and the set itself are behind it now.
LEMMA AfterSetBehind ==
    ASSUME NEW s, NEW T, ThreadOK(s, T), Behind(s, T), s.pc # "idle",
           s.set <= Len(s.packet.sets), s.number = s.set - 1, Current(s).length # 0,
           ReadWhole(s.packet, Current(s)) => SetLearnt(s.packet, Current(s), T)
    PROVE  Behind(AfterSet(s), T) /\ EndsLearnt(s, AfterSet(s), T)
<1> DEFINE r == AfterSet(s)
<1>1. /\ s.set \in Nat \ {0} /\ s.number \in Nat /\ s.packet.sets \in Seq(SetType)
      /\ Current(s) = s.packet.sets[s.set]
  BY Place
<1>2. r = IF s.set + 1 > Len(s.packet.sets) THEN Idle
          ELSE ReadingSet(s.packet, s.set + 1, s.number + 1)
  BY DEF AfterSet
<1> HIDE DEF r
<1>3. CASE s.set + 1 > Len(s.packet.sets)
  <2>1. r.pc = "idle" /\ s.set = Len(s.packet.sets)  BY <1>1, <1>2, <1>3 DEF Idle
  <2>2. EndsLearnt(s, r, T)  BY <2>1, EndsAt, CleanReadWhole DEF Reached
  <2> QED  BY <2>1, <2>2 DEF Behind, r
<1>4. CASE ~(s.set + 1 > Len(s.packet.sets))
  <2>1. /\ r.pc = "set" /\ r.packet = s.packet /\ r.set = s.set + 1
        /\ r.number = s.number + 1
    BY <1>2, <1>4 DEF ReadingSet
  <2>2. BehindSets(r, T)
    <3> SUFFICES ASSUME NEW i \in DOMAIN s.packet.sets, i < s.set + 1,
                        ReadWhole(s.packet, s.packet.sets[i])
                 PROVE  SetLearnt(s.packet, s.packet.sets[i], T)
      BY <2>1 DEF BehindSets
    <3>1. i \in Nat  BY <1>1
    <3>2. CASE i = s.set  BY <1>1, <3>2
    <3>3. CASE i < s.set  BY <3>3 DEF Behind, BehindSets
    <3> QED  BY <1>1, <3>1, <3>2, <3>3
  <2>3. Counted(r)  BY <1>1, <2>1 DEF Counted
  <2>4. Behind(r, T)  BY <2>1, <2>2, <2>3 DEF Behind, BehindTemplates, InRow, InData
  <2> QED  BY <2>1, <2>4 DEF EndsLearnt, r
<1> QED  BY <1>3, <1>4

\* The loop ends at the limit on sets or at a set that cannot be read,
LEMMA StopBehind ==
    ASSUME NEW s, NEW T, ThreadOK(s, T), Behind(s, T), s.pc = "set",
           \/ s.packet.version = "v9" /\ s.number = s.packet.count
           \/ s.packet.version = "ipfix" /\ s.number >= SetsMaximum
           \/ ~Readable(s)
    PROVE  Behind(Idle, T) /\ EndsLearnt(s, Idle, T)
<1>1. /\ s.packet \in Packets /\ s.set \in Nat \ {0} /\ s.number \in Nat
  BY Place
<1>2. s.packet.count \in Nat /\ SetsMaximum \in Nat  BY <1>1, PacketFields, NetflowAssumption
<1>3. ASSUME Reached(s, T) PROVE FALSE
  <2>1. Readable(s)  BY <1>3 DEF CleanSet, Readable, Reached
  <2>2. Current(s).length \in Nat  BY <1>1, <1>3, CurrentSet DEF Reached
  <2>3. ~Stays(s)  BY <1>3, <2>2 DEF Stays, CleanSet, Header, Reached
  <2>4. s.number = s.set - 1  BY <2>3 DEF Behind, Counted
  <2>5. CASE s.packet.version = "v9"  BY <1>1, <1>2, <1>3, <2>1, <2>4, <2>5 DEF Reached
  <2>6. CASE s.packet.version # "v9"  BY <1>1, <1>2, <1>3, <2>1, <2>4, <2>6 DEF Reached
  <2> QED  BY <2>5, <2>6
<1>4. EndsLearnt(s, Idle, T)  BY <1>3, EndsAt
<1> QED  BY <1>4 DEF Behind, Idle

\* stays at or passes over a reserved set,
LEMMA ReservedBehind ==
    ASSUME NEW s, NEW T, ThreadOK(s, T), Behind(s, T), s.pc = "set",
           Readable(s), Current(s).kind = "reserved", NEW r,
           \/ s.packet.version = "v9" /\ r = ReadingSet(s.packet, s.set, s.number + 1)
           \/ s.packet.version = "ipfix" /\ r = AfterSet(s)
    PROVE  Behind(r, T) /\ EndsLearnt(s, r, T)
<1>1. s.set <= Len(s.packet.sets)  BY DEF Readable
<1>2. CASE r = ReadingSet(s.packet, s.set, s.number + 1) /\ Stays(s)
  <2>1. /\ r.pc = "set" /\ r.packet = s.packet /\ r.set = s.set
    BY <1>2 DEF ReadingSet
  <2>2. BehindSets(r, T)  BY <2>1 DEF Behind, BehindSets
  <2>3. Counted(r)  BY <1>2, <2>1 DEF Counted, Stays, Current
  <2> QED  BY <2>1, <2>2, <2>3 DEF Behind, BehindTemplates, InRow, InData, EndsLearnt
<1>3. CASE r = AfterSet(s) /\ ~Stays(s) /\ Current(s).length # 0
  <2>1. s.number = s.set - 1  BY <1>3 DEF Behind, Counted
  <2>2. SetLearnt(s.packet, Current(s), T)  BY DEF SetLearnt
  <2> QED  BY <1>1, <1>3, <2>1, <2>2, AfterSetBehind
<1>4. CASE s.packet.version = "v9"  BY <1>1, <1>2, <1>4 DEF Stays
<1>5. CASE s.packet.version = "ipfix"
  <2>1. CASE Current(s).length = 0
    <3>1. s.set \in Nat  BY Place
    <3>2. r = ReadingSet(s.packet, s.set, s.number + 1)
      BY <1>1, <1>5, <2>1, <3>1, Place DEF AfterSet
    <3> QED  BY <1>1, <1>2, <2>1, <3>2 DEF Stays
  <2>2. CASE Current(s).length # 0  BY <1>3, <1>5, <2>2 DEF Stays
  <2> QED  BY <2>1, <2>2
<1> QED  BY <1>4, <1>5

\* or hands the set to its reader.
LEMMA DispatchBehind ==
    ASSUME NEW s, NEW T, ThreadOK(s, T), Behind(s, T), s.pc = "set",
           Readable(s), Current(s).kind # "reserved"
    PROVE  Behind(Dispatch(s), T) /\ EndsLearnt(s, Dispatch(s), T)
<1> DEFINE r == Dispatch(s)
<1>0. /\ s.packet \in Packets /\ s.set \in Nat \ {0} /\ s.set <= Len(s.packet.sets)
      /\ Current(s).length >= Header
  BY Place DEF Readable
<1>1. /\ r.pc \in {"data", "template"} /\ r.packet = s.packet /\ r.set = s.set
      /\ r.number = s.number /\ (r.pc = "template" => r.index = 0)
  BY DEF Dispatch, FindingTemplate, ReadingTemplates
<1>2. Current(r) = Current(s)  BY <1>1 DEF Current
<1>3. Current(s).definitions \in Seq(Definition)  BY <1>0, CurrentSet
<1> HIDE DEF r
<1>4. BehindSets(r, T)  BY <1>1 DEF Behind, BehindSets
<1>5. BehindTemplates(r, T)
  <2>1. \A j \in DOMAIN Current(s).definitions : ~(j <= 0)  BY <1>3
  <2>2. 0 <= Len(Current(s).definitions)  BY <1>3
  <2> QED  BY <1>1, <1>2, <2>1, <2>2 DEF BehindTemplates
<1>6. Counted(r)  BY <1>0, <1>1, <1>2 DEF Behind, Counted, Stays
<1> QED  BY <1>1, <1>4, <1>5, <1>6 DEF Behind, InRow, InData, EndsLearnt, r

\* At the end of a template set all its templates are learnt, or something is
\* wrong with the set.
LEMMA TemplateEndBehind ==
    ASSUME NEW s, NEW T, ThreadOK(s, T), s.pc = "template", Behind(s, T), NEW r,
           \/ AllRead(s) /\ r = IF PaddingAccepted(s) THEN AfterSet(s) ELSE Idle
           \/ ~AllRead(s) /\ NextTemplate(s) = NoTemplate /\ r = Idle
    PROVE  Behind(r, T) /\ EndsLearnt(s, r, T)
<1>1. /\ s.packet \in Packets /\ s.set \in Nat \ {0} /\ s.number \in Nat
      /\ s.index \in Nat /\ s.set <= Len(s.packet.sets)
      /\ Current(s).kind \in {"template", "options"}
  BY TemplateFields
<1>2. Current(s).definitions \in Seq(Definition)  BY <1>1, CurrentSet
<1>3. /\ s.number = s.set - 1 /\ Current(s).length >= Header
      /\ s.index <= Len(Current(s).definitions)
      /\ \A j \in DOMAIN Current(s).definitions :
            j <= s.index => Learnt(s.packet, Current(s), j, T)
  BY DEF Behind, Counted, BehindTemplates
<1>4. Current(s).length # 0  BY <1>1, <1>3, CurrentSet DEF Header
<1>5. CASE AllRead(s) /\ PaddingAccepted(s)
  <2>1. ASSUME ReadWhole(s.packet, Current(s)) PROVE SetLearnt(s.packet, Current(s), T)
    <3>1. s.index = Len(Current(s).definitions)  BY <1>1, <1>5, <2>1 DEF AllRead, ReadWhole
    <3>2. \A j \in DOMAIN Current(s).definitions : j <= s.index  BY <1>2, <3>1
    <3> QED  BY <1>3, <3>2 DEF SetLearnt
  <2> QED  BY <1>1, <1>3, <1>4, <1>5, <2>1, AfterSetBehind
<1>6. CASE r = Idle /\ ~(AllRead(s) /\ PaddingAccepted(s))
  <2>1. ASSUME CleanSet(s.packet, Current(s), T) PROVE FALSE
    <3>1. CleanTemplates(s.packet, Current(s))  BY <1>1, <2>1 DEF CleanSet
    <3>2. CASE AllRead(s)
      <4>1. CASE Current(s).kind = "options" /\ s.packet.version # "v9"
                 /\ Current(s).padding = "zero" /\ Current(s).definitions # <<>>
        <5>1. s.index = Len(Current(s).definitions)  BY <3>2, <4>1 DEF AllRead
        <5>2. s.index > 0  BY <1>1, <1>2, <4>1, <5>1
        <5> QED  BY <1>6, <3>2, <4>1, <5>2 DEF PaddingAccepted
      <4> QED  BY <1>6, <3>1, <3>2, <4>1 DEF CleanTemplates, PaddingAccepted
    <3>3. CASE ~AllRead(s)
      <4>1. s.index < Len(Current(s).definitions)
        <5>1. s.index # Len(Current(s).definitions)
          BY <3>1, <3>3 DEF AllRead, CleanTemplates
        <5>2. Len(Current(s).definitions) \in Nat  BY <1>2
        <5> QED  BY <1>1, <1>3, <5>1, <5>2
      <4>2. s.index + 1 \in DOMAIN Current(s).definitions  BY <1>1, <1>2, <4>1
      <4> QED  BY <3>1, <3>3, <4>1, <4>2 DEF CleanTemplates, NextTemplate
    <3> QED  BY <3>2, <3>3
  <2>2. EndsLearnt(s, Idle, T)  BY <2>1, EndsAt DEF Reached
  <2> QED  BY <1>6, <2>2 DEF Behind, Idle
<1> QED  BY <1>5, <1>6

\* A template that is stored is learnt.
LEMMA TemplateBehind ==
    ASSUME NEW s, NEW T, NEW U, ThreadOK(s, T), s.pc = "template", Behind(s, T),
           NextTemplate(s) # NoTemplate,
           U = T \cup {<<s.packet.version, s.packet.address, s.packet.source_id, NextTemplate(s)>>}
    PROVE  Behind(ReadingTemplates(s, s.index + 1), U)
<1> DEFINE r == ReadingTemplates(s, s.index + 1)
<1>1. /\ r.pc = "template" /\ r.packet = s.packet /\ r.set = s.set
      /\ r.number = s.number /\ r.index = s.index + 1
  BY DEF ReadingTemplates
<1>2. Current(r) = Current(s)  BY <1>1 DEF Current
<1> HIDE DEF r
<1>3. /\ s.packet \in Packets /\ s.set \in Nat \ {0} /\ s.index \in Nat
      /\ s.set <= Len(s.packet.sets)
  BY TemplateFields
<1>4. Current(s).definitions \in Seq(Definition)  BY <1>3, CurrentSet
<1>5. Behind(s, U)  BY BehindLater
<1>6. /\ s.index < Len(Current(s).definitions)
      /\ NextTemplate(s) = ReadTemplate(s.packet.version, Current(s).kind,
                                        Current(s).definitions[s.index + 1])
  BY DEF NextTemplate
<1>7. Learnt(s.packet, Current(s), s.index + 1, U)  BY <1>6 DEF Learnt
<1>8. s.index + 1 <= Len(Current(s).definitions)  BY <1>3, <1>4, <1>6
<1>9. ASSUME NEW j \in DOMAIN Current(s).definitions, j <= s.index + 1
      PROVE  Learnt(s.packet, Current(s), j, U)
  <2>1. j \in Nat  BY <1>4
  <2>2. CASE j = s.index + 1  BY <1>7, <2>2
  <2>3. CASE j # s.index + 1
    <3>1. j <= s.index  BY <1>3, <1>9, <2>1, <2>3
    <3> QED  BY <1>5, <3>1 DEF Behind, BehindTemplates
  <2> QED  BY <2>2, <2>3
<1>10. BehindTemplates(r, U)  BY <1>1, <1>2, <1>8, <1>9 DEF BehindTemplates
<1>11. BehindSets(r, U)  BY <1>1, <1>5 DEF Behind, BehindSets
<1>12. Counted(r)  BY <1>1, <1>2, <1>5 DEF Behind, Counted
<1> QED  BY <1>1, <1>10, <1>11, <1>12 DEF Behind, InRow, InData, r

-----------------------------------------------------------------------------
(* Data sets.                                                              *)

\* A data set nothing is wrong with fits a template its exporter has sent.
LEMMA FitsFound ==
    ASSUME NEW s, NEW T, NEW f, Current(s).kind = "data",
           CleanSet(s.packet, Current(s), T),
           <<s.packet.version, s.packet.address, s.packet.source_id, f>> \in T,
           f.template_id = Current(s).template_id
    PROVE  Fits(s.packet, Current(s), f)
<1> DEFINE x == <<s.packet.version, s.packet.address, s.packet.source_id, f>>
<1>1. x[1] = s.packet.version /\ x[2] = s.packet.address /\ x[3] = s.packet.source_id /\ x[4] = f
  OBVIOUS
<1>2. x \in T  OBVIOUS
<1> HIDE DEF x
<1>3. x \in Sent(s.packet, Current(s), T)  BY <1>1, <1>2 DEF Sent
<1>4. CleanData(s.packet, Current(s), T)  BY DEF CleanSet
<1> QED  BY <1>1, <1>3, <1>4 DEF CleanData

\* Data of a template that is not found: NetFlow v9, or something is wrong.
LEMMA NotFound ==
    ASSUME TaughtInv, NEW s, Current(s).kind = "data", CleanSet(s.packet, Current(s), taught),
           peer_find_template(s.packet, Current(s).template_id) = NoTemplate
    PROVE  s.packet.version # "ipfix"
<1> SUFFICES ASSUME s.packet.version = "ipfix" PROVE FALSE  OBVIOUS
<1>1. CleanData(s.packet, Current(s), taught)  BY DEF CleanSet
<1>2. PICK x \in Sent(s.packet, Current(s), taught) : TRUE  BY <1>1 DEF CleanData
<1> QED  BY <1>2 DEF Sent, TaughtInv, peer_find_template, Key

\* A thread that leaves a data set, or ends its packet at a faulty one.
LEMMA LeaveData ==
    ASSUME NEW s, NEW T, ThreadOK(s, T), Behind(s, T),
           s.pc \in {"data", "records", "flow", "timeouts"}, NEW r,
           \/ r = AfterSet(s)
           \/ r = Idle /\ ~CleanSet(s.packet, Current(s), T)
    PROVE  Behind(r, T) /\ EndsLearnt(s, r, T)
<1>1. s.set <= Len(s.packet.sets) /\ Current(s).kind = "data"  BY DataFields
<1>2. CASE r = AfterSet(s)
  <2>1. s.number = s.set - 1 /\ Current(s).length >= Header  BY DEF Behind, Counted
  <2>2. Current(s).length # 0  BY <1>1, <2>1, Place DEF Header
  <2>3. SetLearnt(s.packet, Current(s), T)  BY <1>1 DEF SetLearnt
  <2> QED  BY <1>1, <1>2, <2>1, <2>2, <2>3, AfterSetBehind
<1>3. CASE r = Idle /\ ~CleanSet(s.packet, Current(s), T)
  <2>1. EndsLearnt(s, Idle, T)  BY <1>3, EndsAt DEF Reached
  <2> QED  BY <1>3, <2>1 DEF Behind, Idle
<1> QED  BY <1>2, <1>3

\* A thread that stays in a data set.
LEMMA StayInData ==
    ASSUME NEW s, NEW T, ThreadOK(s, T), Behind(s, T),
           s.pc \in {"data", "records", "flow", "timeouts"}, NEW r,
           InData(r), r.packet = s.packet, r.set = s.set, r.number = s.number, InRow(r)
    PROVE  Behind(r, T) /\ EndsLearnt(s, r, T)
<1>1. Current(r) = Current(s)  BY DEF Current
<1>2. BehindSets(r, T)  BY DEF Behind, BehindSets
<1>3. Counted(r)  BY <1>1 DEF Behind, Counted, InData
<1> QED  BY <1>2, <1>3 DEF Behind, BehindTemplates, InData, EndsLearnt

\* The first record.
LEMMA FirstBehind ==
    ASSUME NEW s, NEW T, ThreadOK(s, T), Behind(s, T), s.pc = "data", NEW c, NEW f
    PROVE  LET r == ReadingRecords(s, 0, c, Header, f)
           IN  Behind(r, T) /\ EndsLearnt(s, r, T)
<1> DEFINE r == ReadingRecords(s, 0, c, Header, f)
<1>1. /\ r.pc = "records" /\ r.packet = s.packet /\ r.set = s.set /\ r.number = s.number
      /\ r.index = 0 /\ r.offset = Header
  BY DEF ReadingRecords
<1> HIDE DEF r
<1>2. Current(r) = Current(s)  BY <1>1 DEF Current
<1>3. Current(s).record_length \in Nat  BY Place
<1>4. InRow(r)  BY <1>1, <1>2, <1>3 DEF InRow, Header
<1> QED  BY <1>1, <1>4, StayInData DEF InData, r

\* The record after this one, which has the length the row calls for.
LEMMA NextBehind ==
    ASSUME NEW s, NEW T, ThreadOK(s, T), Behind(s, T), InData(s), NEW n,
           s.found.variable => n = Current(s).record_length
    PROVE  Behind(NextRecord(s, n), T) /\ EndsLearnt(s, NextRecord(s, n), T)
<1> DEFINE r == NextRecord(s, n)
<1>1. /\ r.pc = "records" /\ r.packet = s.packet /\ r.set = s.set /\ r.number = s.number
      /\ r.index = s.index + 1 /\ r.offset = s.offset + n /\ r.found = s.found
  BY DEF NextRecord, ReadingRecords
<1> HIDE DEF r
<1>2. Current(r) = Current(s)  BY <1>1 DEF Current
<1>3. Current(s).record_length \in Nat /\ s.index \in Nat  BY Place, DataFields DEF InData
<1>4. ASSUME s.found.variable
      PROVE  r.offset = Header + r.index * Current(r).record_length
  <2> DEFINE b == Current(s).record_length
  <2>1. s.offset = Header + s.index * b /\ n = b
    BY <1>4 DEF Behind, InRow, InData
  <2>2. b \in Nat  BY <1>3
  <2> HIDE DEF b
  <2>3. (s.index + 1) * b = s.index * b + b /\ s.index * b \in Nat  BY <1>3, <2>2
  <2>4. s.offset + n = Header + (s.index + 1) * b  BY <2>1, <2>2, <2>3 DEF Header
  <2> QED  BY <1>1, <1>2, <2>4 DEF b
<1>5. InRow(r)  BY <1>1, <1>4 DEF InRow
<1> QED  BY <1>1, <1>5, StayInData DEF InData, r

\* The inside of a record.
LEMMA InsideBehind ==
    ASSUME NEW s, NEW T, ThreadOK(s, T), Behind(s, T), s.pc = "records", ~RecordsDone(s),
           NEW pc \in {"flow", "timeouts"}, NEW x
    PROVE  Behind(InsideRecord(s, pc, x), T) /\ EndsLearnt(s, InsideRecord(s, pc, x), T)
<1> DEFINE r == InsideRecord(s, pc, x)
<1>1. /\ r.pc = pc /\ r.packet = s.packet /\ r.set = s.set /\ r.number = s.number
      /\ r.index = s.index /\ r.offset = s.offset /\ r.found = s.found
  BY DEF InsideRecord
<1> HIDE DEF r
<1>2. Current(r) = Current(s)  BY <1>1 DEF Current
<1>3. Current(s).length \in Nat /\ s.offset \in Nat  BY Place, DataFields DEF InData
<1>4. s.found.variable => s.offset < Current(s).length  BY <1>3 DEF RecordsDone
<1>5. InRow(r)  BY <1>1, <1>2, <1>4 DEF Behind, InRow, InData
<1> QED  BY <1>1, <1>5, StayInData DEF InData, r

\* A packet ends inside a data set only at a fault of the set.
LEMMA EndOfDataFaulty ==
    ASSUME NEW s, NEW T, ThreadOK(s, T), s.pc = "records", StopReading(s),
           ~(RecordsDone(s) /\ ~HalfRecord(s))
    PROVE  ~CleanSet(s.packet, Current(s), T)
<1> SUFFICES ASSUME CleanSet(s.packet, Current(s), T) PROVE FALSE  OBVIOUS
<1>1. /\ Current(s).kind = "data" /\ s.index \in Nat /\ s.count \in Nat /\ s.offset \in Nat
      /\ s.found.total_length \in Nat /\ Current(s).length \in Nat
  BY DataFields, Place DEF InData
<1>2. Fits(s.packet, Current(s), s.found)
  BY <1>1, FitsFound DEF ThreadOK, FoundIn, InData
<1>3. Bounded(s) /\ InData(s)  BY DEF ThreadOK, InData
<1>4. CASE RecordsDone(s)
  <2>1. s.found.variable /\ Current(s).padding # "none"  BY <1>4 DEF HalfRecord
  <2>2. s.found.type = "Data"  BY <1>3, <2>1 DEF Bounded
  <2> QED  BY <1>2, <2>1, <2>2 DEF Fits
<1>5. CASE ~RecordsDone(s)
  <2>1. s.packet.version = "v9" /\ s.offset + s.found.total_length > Current(s).length
    BY <1>5 DEF StopReading, OutsideSet
  <2>2. ~s.found.variable  BY <1>3, <2>1 DEF Bounded
  <2>3. /\ s.offset = Header + s.index * s.found.total_length
        /\ Header + s.count * s.found.total_length <= Current(s).length
        /\ s.index <= s.count
    BY <1>3, <2>2 DEF Bounded
  <2>4. s.index < s.count  BY <1>1, <1>5, <2>2, <2>3 DEF RecordsDone
  <2>5. s.offset + s.found.total_length <= Current(s).length
    BY <1>1, <2>3, <2>4, OneMoreFits
  <2> QED  BY <1>1, <2>1, <2>5
<1> QED  BY <1>4, <1>5

\* So does a packet with a variable record that is cut or followed by stray bytes.
LEMMA VariableFaulty ==
    ASSUME NEW s, NEW T, ThreadOK(s, T), Behind(s, T), s.pc = "flow", s.found.variable,
           ~read_ipfix_variable_length_field(s) \/ Current(s).padding = "nonzero"
    PROVE  ~CleanSet(s.packet, Current(s), T)
<1> SUFFICES ASSUME CleanSet(s.packet, Current(s), T) PROVE FALSE  OBVIOUS
<1> DEFINE b == Current(s).record_length
           len == Current(s).length
<1>1. /\ Current(s).kind = "data" /\ s.index \in Nat /\ s.offset \in Nat
      /\ len \in Nat /\ b \in Nat \ {0} /\ len >= Header
  BY DataFields, Place DEF InData, Behind, Counted
<1>2. Fits(s.packet, Current(s), s.found)
  BY <1>1, FitsFound DEF ThreadOK, FoundIn, InData
<1>3. s.found.type = "Data"  BY DEF ThreadOK, Bounded, InData
<1>4. Current(s).padding = "none" /\ \E n \in 0 .. len - Header : len - Header = n * b
  BY <1>2, <1>3 DEF Fits
<1>5. PICK n \in 0 .. len - Header : len - Header = n * b  BY <1>4
<1>6. s.offset = Header + s.index * b /\ s.offset < len  BY DEF Behind, InRow, InData
<1>7. b > len - s.offset  BY <1>1, <1>4 DEF read_ipfix_variable_length_field
<1> HIDE DEF b, len
<1>8. n \in Nat /\ Header + n * b <= len
  <2>1. n \in Nat /\ n * b \in Nat  BY <1>1, <1>5 DEF Header
  <2> QED  BY <1>1, <1>5, <2>1 DEF Header
<1>9. s.index < n
  <2> SUFFICES ASSUME n <= s.index PROVE FALSE  BY <1>1, <1>8
  <2>1. PICK d \in Nat : s.index = n + d
    <3>1. s.index - n \in Nat /\ s.index = n + (s.index - n)  BY <1>1, <1>8
    <3> QED  BY <3>1
  <2>2. s.index * b = n * b + d * b /\ d * b \in Nat /\ n * b \in Nat  BY <1>1, <1>8, <2>1
  <2> DEFINE y == n * b
             z == d * b
  <2>3. y \in Nat /\ z \in Nat /\ s.offset = 1 + (y + z) /\ len - 1 = y
    BY <1>5, <1>6, <2>2 DEF Header
  <2> HIDE DEF y, z
  <2> QED  BY <1>1, <1>6, <2>3
<1>10. s.offset + b <= len  BY <1>1, <1>6, <1>8, <1>9, OneMoreFits
<1> QED  BY <1>1, <1>7, <1>10

-----------------------------------------------------------------------------
(* Steps.                                                                  *)

\* What one step of a thread does to it.
Advances(t) ==
    \E r : /\ Goto(t, r)
           /\ taught \subseteq taught'
           /\ Behind(r, taught')
           /\ EndsLearnt(thread[t], r, taught)

\* The loops over the sets of a packet.
LEMMA SetsAdvance ==
    ASSUME IInv, LearntInv, NEW t \in Threads,
           process_netflow_packet_v9(t) \/ process_ipfix_sets(t)
    PROVE  Advances(t)
<1> DEFINE s == thread[t]
<1>1. ThreadOK(s, taught) /\ s.pc = "set" /\ Behind(s, taught) /\ taught' = taught
  BY DEF IInv, ThreadsOK, LearntInv, process_netflow_packet_v9, process_ipfix_sets,
         SharedUnchanged
<1>2. PICK r : /\ Goto(t, r)
               /\ \/ /\ r = Idle
                     /\ \/ s.packet.version = "v9" /\ s.number = s.packet.count
                        \/ s.packet.version = "ipfix" /\ s.number >= SetsMaximum
                        \/ ~Readable(s)
                  \/ /\ Readable(s) /\ Current(s).kind = "reserved"
                     /\ \/ /\ s.packet.version = "v9"
                           /\ r = ReadingSet(s.packet, s.set, s.number + 1)
                        \/ s.packet.version = "ipfix" /\ r = AfterSet(s)
                  \/ Readable(s) /\ Current(s).kind # "reserved" /\ r = Dispatch(s)
  BY DEF process_netflow_packet_v9, process_ipfix_sets
<1>3. Behind(r, taught) /\ EndsLearnt(s, r, taught)
  <2> HIDE DEF s
  <2> QED  BY <1>1, <1>2, StopBehind, ReservedBehind, DispatchBehind
<1> QED  BY <1>1, <1>2, <1>3 DEF Advances

\* Reading a template, and the end of a template set.
LEMMA TemplatesAdvance ==
    ASSUME IInv, LearntInv, NEW t \in Threads, process_template(t) \/ process_template_end(t)
    PROVE  Advances(t)
<1> DEFINE s == thread[t]
<1>1. ThreadOK(s, taught) /\ s.pc = "template" /\ Behind(s, taught)
  BY DEF IInv, ThreadsOK, LearntInv, process_template, process_template_end
<1>2. CASE process_template(t)
  <2> DEFINE r == ReadingTemplates(s, s.index + 1)
  <2>1. /\ Goto(t, r) /\ NextTemplate(s) # NoTemplate
        /\ taught' = taught \cup {<<s.packet.version, s.packet.address, s.packet.source_id,
                                    NextTemplate(s)>>}
    BY <1>2 DEF process_template
  <2>2. Behind(r, taught')
    <3> HIDE DEF s
    <3> QED  BY <1>1, <2>1, TemplateBehind
  <2>3. EndsLearnt(s, r, taught)  BY DEF EndsLearnt, ReadingTemplates
  <2> HIDE DEF r
  <2> QED  BY <2>1, <2>2, <2>3 DEF Advances
<1>3. CASE process_template_end(t)
  <2>1. PICK r : /\ Goto(t, r)
                 /\ \/ AllRead(s) /\ r = IF PaddingAccepted(s) THEN AfterSet(s) ELSE Idle
                    \/ ~AllRead(s) /\ NextTemplate(s) = NoTemplate /\ r = Idle
    BY <1>3 DEF process_template_end
  <2>2. Behind(r, taught) /\ EndsLearnt(s, r, taught)
    <3> HIDE DEF s
    <3> QED  BY <1>1, <2>1, TemplateEndBehind
  <2>3. taught' = taught  BY <1>3 DEF process_template_end, SharedUnchanged
  <2> QED  BY <2>1, <2>2, <2>3 DEF Advances
<1> QED  BY <1>2, <1>3

\* Looking up the template of a NetFlow v9 data set,
LEMMA V9DataAdvances ==
    ASSUME IInv, LearntInv, NEW t \in Threads, process_netflow_v9_data(t)
    PROVE  Advances(t)
<1> DEFINE s == thread[t]
           f == peer_find_template(s.packet, Current(s).template_id)
<1>1. /\ ThreadOK(s, taught) /\ s.pc = "data" /\ Behind(s, taught) /\ taught' = taught
      /\ s.packet.version = "v9"
  BY DEF IInv, ThreadsOK, LearntInv, process_netflow_v9_data, SharedUnchanged
<1>2. PICK r : /\ Goto(t, r)
               /\ \/ r = AfterSet(s)
                  \/ /\ f # NoTemplate /\ r = Idle
                     /\ \/ f.fields = 0 \/ f.total_length = 0
                        \/ Records(s, f) \notin 1 .. FlowsMaximum
                  \/ r = ReadingRecords(s, 0, Records(s, f), Header, f)
  BY DEF process_netflow_v9_data
<1>3. f # NoTemplate =>
         /\ <<s.packet.version, s.packet.address, s.packet.source_id, f>> \in taught
         /\ f.template_id = Current(s).template_id /\ ~f.variable
  <2> HIDE DEF s
  <2> QED  BY <1>1, FindOK
<1> HIDE DEF s, f
<1>4. Current(s).kind = "data"  BY <1>1, DataFields
<1>5. ASSUME f # NoTemplate, CleanSet(s.packet, Current(s), taught)
      PROVE  /\ f.fields # 0 /\ f.total_length # 0
             /\ Records(s, f) \in 1 .. FlowsMaximum
  <2>1. Fits(s.packet, Current(s), f)  BY <1>3, <1>4, <1>5, FitsFound
  <2> QED  BY <1>1, <1>3, <1>5, <2>1 DEF Fits, Records
<1>6. Behind(r, taught) /\ EndsLearnt(s, r, taught)
  BY <1>1, <1>2, <1>5, LeaveData, FirstBehind
<1> QED  BY <1>1, <1>2, <1>6 DEF Advances, s

\* and of an IPFIX one.
LEMMA IpfixDataAdvances ==
    ASSUME IInv, LearntInv, NEW t \in Threads, process_ipfix_data_set(t)
    PROVE  Advances(t)
<1> DEFINE s == thread[t]
           f == peer_find_template(s.packet, Current(s).template_id)
           c == IF f.type = "Data" THEN process_ipfix_regular_data_set(s, f)
                ELSE process_ipfix_options_data_set(s, f)
<1>1. /\ ThreadOK(s, taught) /\ s.pc = "data" /\ Behind(s, taught) /\ taught' = taught
      /\ s.packet.version = "ipfix" /\ TaughtInv
  BY DEF IInv, ThreadsOK, LearntInv, process_ipfix_data_set, SharedUnchanged
<1>2. PICK r : /\ Goto(t, r)
               /\ \/ r = AfterSet(s)
                  \/ f = NoTemplate /\ r = Idle
                  \/ /\ f # NoTemplate /\ r = Idle
                     /\ f.fields = 0 \/ (~(f.type = "Options" /\ f.variable) /\ c = 0)
                  \/ r = ReadingRecords(s, 0, c, Header, f)
  BY DEF process_ipfix_data_set
<1>3. f # NoTemplate =>
         /\ <<s.packet.version, s.packet.address, s.packet.source_id, f>> \in taught
         /\ f.template_id = Current(s).template_id /\ f \in Template
  <2> HIDE DEF s
  <2> QED  BY <1>1, FindOK
<1>4. Current(s).kind = "data" /\ Current(s).length \in Nat /\ Current(s).length >= Header
  <2> HIDE DEF s
  <2> QED  BY <1>1, DataFields, Place
<1>5. CleanSet(s.packet, Current(s), taught) => f # NoTemplate
  <2> HIDE DEF s
  <2> QED  BY <1>1, <1>4, NotFound
<1> HIDE DEF s, f
<1>6. ASSUME f # NoTemplate, CleanSet(s.packet, Current(s), taught)
      PROVE  f.fields # 0 /\ ((f.type = "Options" /\ f.variable) \/ c # 0)
  <2>1. Fits(s.packet, Current(s), f)  BY <1>3, <1>4, <1>6, FitsFound
  <2>2. f.total_length \in Nat /\ f.type \in {"Data", "Options"}  BY <1>3, <1>6 DEF Template
  <2>3. CASE f.type = "Options"
    <3>1. f.variable \/ ~(Header + f.total_length > Current(s).length)
      BY <1>1, <1>4, <2>1, <2>2, <2>3 DEF Fits, Header
    <3> QED  BY <2>1, <2>3, <3>1 DEF Fits, process_ipfix_options_data_set
  <2>4. CASE f.type = "Data" /\ f.variable
    BY <1>4, <2>1, <2>4 DEF Fits, process_ipfix_regular_data_set, Header
  <2>5. CASE f.type = "Data" /\ ~f.variable
    <3>1. f.total_length # 0 /\ Records(s, f) \in 1 .. RecordsMaximum
      BY <1>1, <2>1, <2>5 DEF Fits, Records
    <3>2. ~(Records(s, f) > RecordsMaximum) /\ Records(s, f) # 0
      BY <3>1, NetflowAssumption
    <3> QED  BY <2>1, <2>5, <3>1, <3>2 DEF Fits, process_ipfix_regular_data_set
  <2> QED  BY <2>2, <2>3, <2>4, <2>5
<1> HIDE DEF c
<1>7. Behind(r, taught) /\ EndsLearnt(s, r, taught)
  BY <1>1, <1>2, <1>5, <1>6, LeaveData, FirstBehind
<1> QED  BY <1>1, <1>2, <1>7 DEF Advances, s

\* Reading records.
LEMMA RecordsAdvance ==
    ASSUME IInv, LearntInv, NEW t \in Threads,
           \/ end_of_data_set(t) \/ find_sampling_rate(t)
           \/ netflow9_flowset_to_store(t) \/ ipfix_data_set_to_store(t)
           \/ netflow9_options_flowset_to_store(t) \/ ipfix_options_set_to_store(t)
           \/ store_timeouts(t)
    PROVE  Advances(t)
<1> DEFINE s == thread[t]
           Good(r) == Behind(r, taught) /\ EndsLearnt(s, r, taught)
<1>1. ThreadOK(s, taught) /\ InData(s) /\ taught' = taught /\ Behind(s, taught)
  BY DEF IInv, ThreadsOK, LearntInv, InData, end_of_data_set, find_sampling_rate,
         netflow9_flowset_to_store, ipfix_data_set_to_store,
         netflow9_options_flowset_to_store, ipfix_options_set_to_store, store_timeouts,
         SharedUnchanged
<1>2. \E r : Goto(t, r) /\ Good(r)
  <2>1. CASE end_of_data_set(t)
    <3>1. /\ s.pc = "records" /\ StopReading(s)
          /\ Goto(t, IF RecordsDone(s) /\ ~HalfRecord(s) THEN AfterSet(s) ELSE Idle)
      BY <2>1 DEF end_of_data_set
    <3> HIDE DEF s
    <3>2. Good(IF RecordsDone(s) /\ ~HalfRecord(s) THEN AfterSet(s) ELSE Idle)
      BY <1>1, <3>1, EndOfDataFaulty, LeaveData
    <3> QED  BY <3>1, <3>2
  <2>2. CASE \/ find_sampling_rate(t) \/ netflow9_options_flowset_to_store(t)
             \/ ipfix_options_set_to_store(t)
    <3>1. /\ s.pc = "records" /\ ~StopReading(s)
          /\ \E pc \in {"flow", "timeouts"} : \E x : Goto(t, InsideRecord(s, pc, x))
      BY <2>2 DEF find_sampling_rate, netflow9_options_flowset_to_store,
                  ipfix_options_set_to_store
    <3> HIDE DEF s
    <3>2. \A pc \in {"flow", "timeouts"} : \A x : Good(InsideRecord(s, pc, x))
      BY <1>1, <3>1, InsideBehind DEF StopReading
    <3> QED  BY <3>1, <3>2
  <2>3. CASE netflow9_flowset_to_store(t) \/ store_timeouts(t)
    <3>1. /\ \E n : Goto(t, NextRecord(s, n))
          /\ s.packet.version = "v9" \/ s.pc = "timeouts"
      BY <2>3 DEF netflow9_flowset_to_store, store_timeouts
    <3> HIDE DEF s
    <3>2. ~s.found.variable  BY <1>1, <3>1 DEF ThreadOK, Bounded, Placed
    <3>3. \A n : Good(NextRecord(s, n))  BY <1>1, <3>2, NextBehind
    <3> QED  BY <3>1, <3>3
  <2>4. CASE ipfix_data_set_to_store(t)
    <3>1. /\ s.pc = "flow"
          /\ \/ s.found.variable /\ ~read_ipfix_variable_length_field(s) /\ Goto(t, Idle)
             \/ s.found.variable /\ Goto(t, AfterVariableRecord(s))
             \/ ~s.found.variable /\ Goto(t, NextRecord(s, s.found.total_length))
      BY <2>4 DEF ipfix_data_set_to_store
    <3> HIDE DEF s
    <3>2. s.found.variable /\ ~read_ipfix_variable_length_field(s) => Good(Idle)
      BY <1>1, <3>1, VariableFaulty, LeaveData
    <3>3. s.found.variable => Good(AfterVariableRecord(s))
      <4>1. Good(AfterSet(s))  BY <1>1, <3>1, LeaveData
      <4>2. s.found.variable /\ Current(s).padding = "nonzero" => Good(Idle)
        BY <1>1, <3>1, VariableFaulty, LeaveData
      <4>3. Good(NextRecord(s, Current(s).record_length))  BY <1>1, NextBehind
      <4> HIDE DEF Good
      <4> QED  BY <4>1, <4>2, <4>3 DEF AfterVariableRecord
    <3>4. ~s.found.variable => Good(NextRecord(s, s.found.total_length))
      BY <1>1, NextBehind
    <3> QED  BY <3>1, <3>2, <3>3, <3>4
  <2> QED  BY <2>1, <2>2, <2>3, <2>4
<1> QED  BY <1>1, <1>2 DEF Advances

\* The start of a packet: nothing is behind it.
LEMMA ReceiveAdvances ==
    ASSUME IInv, NEW t \in Threads, NEW packet \in Packets, Receive(t, packet),
           Goto(t, ReadingSet(packet, 1, 0))
    PROVE  Advances(t)
<1> DEFINE r == ReadingSet(packet, 1, 0)
<1>1. r.pc = "set" /\ r.packet = packet /\ r.set = 1 /\ r.number = 0  BY DEF ReadingSet
<1>2. packet.sets \in Seq(SetType)  BY PacketFields
<1> HIDE DEF r
<1>3. \A i \in DOMAIN packet.sets : ~(i < 1)  BY <1>2
<1>4. BehindSets(r, taught') /\ Counted(r)  BY <1>1, <1>3 DEF BehindSets, Counted
<1>5. Behind(r, taught')  BY <1>1, <1>4 DEF Behind, BehindTemplates, InRow, InData
<1>6. EndsLearnt(thread[t], r, taught) /\ taught' = taught
  BY <1>1 DEF EndsLearnt, Receive
<1> QED  BY <1>5, <1>6 DEF Advances, r

\* Every step of the system leaves the threads alone or advances one of them.
LEMMA NextAdvances ==
    ASSUME IInv, LearntInv, [Next]_vars
    PROVE  UNCHANGED <<thread, taught>> \/ \E t \in Threads : Advances(t)
<1>1. CASE UNCHANGED vars  BY <1>1 DEF vars
<1>2. CASE Next
  <2>1. PICK t \in Threads : \/ \E packet \in Packets : Receive(t, packet)
                             \/ Timeout(t)
                             \/ Step(t)
    BY <1>2 DEF Next
  <2>2. CASE \E packet \in Packets : Receive(t, packet)
    <3>1. PICK packet \in Packets : Receive(t, packet)  BY <2>2
    <3>2. CASE UNCHANGED thread  BY <3>1, <3>2 DEF Receive
    <3>3. CASE Goto(t, ReadingSet(packet, 1, 0))  BY <3>1, <3>3, ReceiveAdvances
    <3> QED  BY <3>1, <3>2, <3>3 DEF Receive
  <2>3. CASE Timeout(t)  BY <2>3 DEF Timeout, vars
  <2>4. CASE Step(t)
    BY <2>4, SetsAdvance, TemplatesAdvance, V9DataAdvances, IpfixDataAdvances,
       RecordsAdvance DEF Step
  <2> QED  BY <2>1, <2>2, <2>3, <2>4
<1> QED  BY <1>1, <1>2

\* The table forgets no template: only storing one changes it.
LEMMA TaughtKept ==
    ASSUME IInv, TaughtInv, [Next]_vars
    PROVE  TaughtInv'
<1>1. CASE \E t \in Threads : process_template(t)
  <2>1. PICK t \in Threads : process_template(t)  BY <1>1
  <2> DEFINE s == thread[t]
             tmpl == NextTemplate(s)
             v == s.packet.version
             k == Key(s.packet)
             new == <<s.packet.version, s.packet.address, s.packet.source_id, tmpl>>
  <2>2. ThreadOK(s, taught) /\ s.pc = "template" /\ tmpl # NoTemplate
    BY <2>1 DEF IInv, ThreadsOK, process_template
  <2>3. /\ templates' = [templates EXCEPT ![v][k][tmpl.template_id] = tmpl]
        /\ taught' = taught \cup {new}
    BY <2>1 DEF process_template, add_update_peer_template
  <2>4. tmpl \in Template
    <3> HIDE DEF s
    <3> QED  BY <2>2, NextTemplateOK
  <2>5. v \in Versions /\ s.packet.address \in Addresses /\ s.packet.source_id \in SourceIds
    <3> HIDE DEF s
    <3> QED  BY <2>2, TemplateFields, PacketFields
  <2>6. k \in Addresses \X SourceIds /\ tmpl.template_id \in TemplateIds
    BY <2>4, <2>5 DEF Key, Template
  <2>7. new[1] = v /\ <<new[2], new[3]>> = k /\ new[4] = tmpl
        /\ new[2] = s.packet.address /\ new[3] = s.packet.source_id
    BY DEF Key
  <2>8. templates \in [Versions -> [Addresses \X SourceIds ->
                         [TemplateIds -> Template \cup {NoTemplate}]]]
    BY DEF IInv, TablesOK
  <2> HIDE DEF s, tmpl, v, k, new
  <2>9. ASSUME NEW w \in Versions, NEW l \in Addresses \X SourceIds, NEW id \in TemplateIds
        PROVE  /\ w = v /\ l = k /\ id = tmpl.template_id => templates'[w][l][id] = tmpl
               /\ ~(w = v /\ l = k /\ id = tmpl.template_id) =>
                     templates'[w][l][id] = templates[w][l][id]
    BY <2>3, <2>5, <2>6, <2>8
  <2>10. ASSUME NEW x \in taught'
         PROVE  /\ x[1] \in Versions /\ x[2] \in Addresses /\ x[3] \in SourceIds
                /\ x[4] \in Template
                /\ templates'[x[1]][<<x[2], x[3]>>][x[4].template_id] # NoTemplate
    <3>1. CASE x = new
      BY <2>2, <2>4, <2>5, <2>6, <2>7, <2>9, <3>1 DEF v
    <3>2. CASE x \in taught
      <4>1. /\ x[1] \in Versions /\ x[2] \in Addresses /\ x[3] \in SourceIds
            /\ x[4] \in Template
            /\ templates[x[1]][<<x[2], x[3]>>][x[4].template_id] # NoTemplate
        BY <3>2 DEF TaughtInv
      <4>2. <<x[2], x[3]>> \in Addresses \X SourceIds /\ x[4].template_id \in TemplateIds
        BY <4>1 DEF Template
      <4> QED  BY <2>2, <2>9, <4>1, <4>2
    <3> QED  BY <2>3, <3>1, <3>2
  <2> QED  BY <2>10 DEF TaughtInv
<1>2. CASE UNCHANGED <<templates, taught>>  BY <1>2 DEF TaughtInv
<1>3. CASE Next /\ ~(\E t \in Threads : process_template(t))
  <2>1. UNCHANGED <<templates, taught>>
    BY <1>3 DEF Next, Receive, Timeout, vars, Step, process_netflow_packet_v9,
         process_ipfix_sets, process_template_end, process_netflow_v9_data,
         process_ipfix_data_set, end_of_data_set, find_sampling_rate,
         netflow9_flowset_to_store, ipfix_data_set_to_store,
         netflow9_options_flowset_to_store, ipfix_options_set_to_store, store_timeouts,
         SharedUnchanged
  <2> QED  BY <1>2, <2>1
<1> QED  BY <1>1, <1>2, <1>3 DEF vars

\* When a packet ends, every template before the first thing that is wrong with
\* it is learnt, those behind data sets included: decoded ones, and NetFlow v9
\* data of an unknown template (the return of true in process_netflow_v9_data);
\* whatever the other threads learn meanwhile.
THEOREM TemplatesAreLearnt == Spec => CleanPacketsLearnt
<1>1. Init => LearntInv  BY DEF Init, LearntInv, TaughtInv, Behind, Idle
<1>2. IInv /\ LearntInv /\ [Next]_vars => LearntInv'
  <2> SUFFICES ASSUME IInv, LearntInv, [Next]_vars PROVE LearntInv'  OBVIOUS
  <2>0. TaughtInv'  BY TaughtKept DEF LearntInv
  <2>1. CASE UNCHANGED <<thread, taught>>  BY <2>0, <2>1 DEF LearntInv
  <2>2. ASSUME NEW t \in Threads, Advances(t) PROVE LearntInv'
    <3>1. PICK r : Goto(t, r) /\ taught \subseteq taught' /\ Behind(r, taught')
      BY <2>2 DEF Advances
    <3>2. ASSUME NEW u \in Threads PROVE Behind(thread'[u], taught')
      <4>1. CASE u = t  BY <3>1, <4>1 DEF Goto, IInv, ThreadsOK
      <4>2. CASE u # t
        <5>1. thread'[u] = thread[u]  BY <3>1, <4>2 DEF Goto, IInv, ThreadsOK
        <5> QED  BY <3>1, <5>1, BehindLater DEF LearntInv
      <4> QED  BY <4>1, <4>2
    <3> QED  BY <2>0, <3>2 DEF LearntInv
  <2> QED  BY <2>1, <2>2, NextAdvances
<1> DEFINE Ended == \A t \in Threads : LET s == thread[t] IN
               s.pc # "idle" /\ thread'[t].pc = "idle" =>
                  \A n \in DOMAIN s.packet.sets :
                      CleanUpTo(s.packet, n, taught) =>
                          SetLearnt(s.packet, s.packet.sets[n], taught')
<1>3. IInv /\ LearntInv /\ [Next]_vars => [Ended]_vars
  <2> SUFFICES ASSUME IInv, LearntInv, [Next]_vars,
                      NEW u \in Threads, thread[u].pc # "idle", thread'[u].pc = "idle",
                      NEW n \in DOMAIN thread[u].packet.sets,
                      CleanUpTo(thread[u].packet, n, taught)
               PROVE  SetLearnt(thread[u].packet, thread[u].packet.sets[n], taught')
    OBVIOUS
  <2>1. thread'[u] # thread[u]  OBVIOUS
  <2>2. PICK t \in Threads : Advances(t)  BY <2>1, NextAdvances
  <2>3. PICK r : /\ Goto(t, r) /\ taught \subseteq taught'
                 /\ EndsLearnt(thread[t], r, taught)
    BY <2>2 DEF Advances
  <2>4. u = t  BY <2>1, <2>3 DEF Goto, IInv, ThreadsOK
  <2>5. thread'[u] = r  BY <2>3, <2>4 DEF Goto, IInv, ThreadsOK
  <2>6. SetLearnt(thread[u].packet, thread[u].packet.sets[n], taught)
    BY <2>3, <2>4, <2>5 DEF EndsLearnt
  <2> QED  BY <2>3, <2>6 DEF SetLearnt, Learnt
<1> HIDE DEF Ended
<1>4. Spec => [][Ended]_vars  BY <1>1, <1>2, <1>3, InvariantHolds, PTL DEF Spec
<1> QED  BY <1>4 DEF CleanPacketsLearnt, Ended
=============================================================================
