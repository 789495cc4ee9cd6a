-------------------------- MODULE NetflowCollector --------------------------
(***************************************************************************)
(* The NetFlow v9 and IPFIX collectors.  One thread per UDP port reads     *)
(* packets and shares with the others, for each protocol, the templates    *)
(* an exporter has sent (keyed by its address and source id), the          *)
(* sampling rate and the flow timeouts it has reported (keyed by its       *)
(* address).  Each of the three maps has a mutex of its own, taken for one *)
(* look-up or one update at a time: one step here is one such critical     *)
(* section with what the thread does alone around it.                      *)
(*                                                                         *)
(* A packet is a sequence of sets, laid out as the parser finds them.      *)
(* Lengths are in units of a set header.  A field list is abstracted to    *)
(* its length, its number of fields, and whether it holds a sampling       *)
(* field.  Counters and log messages are left out.                         *)
(***************************************************************************)
EXTENDS Integers, Sequences

CONSTANTS
    Threads,          \* one per entry of netflow_ports
    Addresses,        \* exporters' IP addresses
    SourceIds,        \* source_id of the packet header
    TemplateIds,
    Packets,          \* the packets exporters may send
    Rates,            \* sampling rates devices report
    Timeouts,         \* flow timeouts devices report
    ZeroTimeouts,     \* what device_timeouts_t starts with
    NoTimeouts,       \* no entry for the device
    NoTemplate,
    SetsMaximum,      \* sets_per_packet_maximum_number
    FlowsMaximum,     \* flows_per_packet_maximum_number
    RecordsMaximum,   \* the 0x4000 of process_ipfix_regular_data_set
    ConfiguredRatio,  \* netflow_sampling_ratio
    MaxPackets        \* bound: packets received in a behaviour

Versions == {"v9", "ipfix"}

VariableLength == 65535  \* the length that marks a variable length field

Header == 1

(* One template of a template set or an options template set.  whole: its  *)
(* fields fit in the set, and the checks on its header succeed.            *)
(* head_length: the length of the fields before the first variable one.    *)
Definition == [whole: BOOLEAN, template_id: TemplateIds, scope_length: Nat,
               fields_length: Nat, head_length: Nat, fields: Nat,
               variable: BOOLEAN, sampling: BOOLEAN]

\* What the fields of a data record make of it.
RecordContents == {"flow", "nat", "asa", "lite"}

(* A set.  cut: the packet ends before the set does.  definitions: what a  *)
(* template set holds.  The rest is about data sets: what a record means   *)
(* (content, sampling_rate, timeouts, nested_ratio), and how long it is    *)
(* when the template has variable fields.  "lite": a nested packet with    *)
(* the number of packets it was selected from; one without that number     *)
(* keeps the ratio looked up, and is a "flow" here.  padding: bytes of the *)
(* set after those length counts, fewer than a header.                     *)
SetType == [kind: {"template", "options", "data", "reserved"},
            cut: BOOLEAN, length: Nat, definitions: Seq(Definition),
            template_id: TemplateIds, content: RecordContents,
            sampling_rate: Rates \cup {0}, timeouts: Timeouts \cup {ZeroTimeouts},
            nested_ratio: Nat, record_length: Nat \ {0},
            padding: {"none", "zero", "nonzero"}]

PacketType == [version: Versions, address: Addresses, source_id: SourceIds,
               short: BOOLEAN, count: Nat, sets: Seq(SetType)]

ASSUME NetflowAssumption ==
    /\ Packets \subseteq PacketType
    /\ Rates \subseteq Nat \ {0}
    /\ ZeroTimeouts \notin Timeouts
    /\ NoTimeouts \notin Timeouts \cup {ZeroTimeouts}
    /\ SetsMaximum \in Nat /\ FlowsMaximum \in Nat /\ RecordsMaximum \in Nat
    /\ ConfiguredRatio \in Nat
    /\ MaxPackets \in Nat

(* template_t, without the timestamp that its comparison ignores. *)
Template == [type: {"Data", "Options"}, template_id: TemplateIds, total_length: Nat,
             fields: Nat, variable: BOOLEAN, sampling: BOOLEAN]

ASSUME NoTemplateAssumption == NoTemplate \notin Template

VARIABLES
    templates,  \* global_netflow9_templates, global_ipfix_templates
    rates,      \* netflow9_sampling_rates, ipfix_sampling_rates; 0: no entry
    timeouts,   \* netflow_v9_per_device_flow_timeouts, ipfix_per_device_flow_timeouts
    thread,     \* what a collector thread is doing
    passed,     \* sample_ratio of the flows of the last record each thread passed on
    received,   \* packets received so far
    taught,     \* history: templates accepted from each exporter
    reported    \* history: sampling rates read from each address

vars == <<templates, rates, timeouts, thread, passed, received, taught, reported>>

(***************************************************************************)
(* The shared maps.                                                        *)
(***************************************************************************)
\* Mutant: exporters that share an address share their templates.
KeyOfAddress(packet) == <<packet.address, CHOOSE i \in SourceIds : TRUE>>

Key(packet) == <<packet.address, packet.source_id>>

peer_find_template(packet, id) == templates[packet.version][Key(packet)][id]

add_update_peer_template(packet, tmpl) ==
    templates' = [templates EXCEPT ![packet.version][Key(packet)][tmpl.template_id] = tmpl]

update_netflow_v9_sampling_rate(address, rate) ==
    IF rate = 0 THEN UNCHANGED rates
    ELSE rates' = [rates EXCEPT !["v9"][address] = rate]

\* Mutant: an options record without a sampling field clears the rate.
update_ipfix_sampling_rate_always(address, rate) ==
    rates' = [rates EXCEPT !["ipfix"][address] = rate]

update_ipfix_sampling_rate(address, rate) ==
    IF rate = 0 THEN UNCHANGED rates
    ELSE rates' = [rates EXCEPT !["ipfix"][address] = rate]

\* The two optional timeouts of device_timeouts_t are initialised with 0 and so
\* always have a value: the return for a record without timeouts is never taken.
update_device_flow_timeouts(packet, t) ==
    timeouts' = [timeouts EXCEPT ![packet.version][packet.address] = t]

(***************************************************************************)
(* The four readers of a template: what they store, or NoTemplate when     *)
(* they give up.                                                           *)
(***************************************************************************)
TemplateOf(type, d, length, variable) ==
    [type |-> type, template_id |-> d.template_id, total_length |-> length,
     fields |-> d.fields, variable |-> variable, sampling |-> d.sampling]

process_netflow_v9_template(d) ==
    IF d.whole /\ d.fields_length # 0
    THEN TemplateOf("Data", d, d.fields_length, FALSE) ELSE NoTemplate

process_netflow_v9_options_template(d) ==
    IF d.whole /\ d.fields_length + d.scope_length # 0
    THEN TemplateOf("Options", d, d.fields_length + d.scope_length, FALSE)
    ELSE NoTemplate

read_ipfix_data_template(d) ==
    IF d.whole
    THEN TemplateOf("Data", d, IF d.variable THEN d.head_length ELSE d.fields_length,
                    d.variable)
    ELSE NoTemplate

read_ipfix_options_template(d) ==
    IF d.whole
    THEN TemplateOf("Options", d, d.fields_length + d.scope_length
                                    + (IF d.variable THEN VariableLength ELSE 0),
                    d.variable)
    ELSE NoTemplate

ReadTemplate(version, kind, d) ==
    CASE version = "v9" /\ kind = "template"    -> process_netflow_v9_template(d)
      [] version = "v9" /\ kind = "options"     -> process_netflow_v9_options_template(d)
      [] version = "ipfix" /\ kind = "template" -> read_ipfix_data_template(d)
      [] version = "ipfix" /\ kind = "options"  -> read_ipfix_options_template(d)

(***************************************************************************)
(* A thread.  set, number: the set being read and how many were read       *)
(* before it; index: templates or records of it done; offset: where the    *)
(* next record starts; found: the caller's copy of the template; ratio:    *)
(* sample_ratio of the flow being read.                                    *)
(***************************************************************************)
Idle == [pc |-> "idle"]

ReadingSet(packet, set, number) ==
    [pc |-> "set", packet |-> packet, set |-> set, number |-> number]

ReadingTemplates(s, index) ==
    [pc |-> "template", packet |-> s.packet, set |-> s.set, number |-> s.number,
     index |-> index]

FindingTemplate(s) ==
    [pc |-> "data", packet |-> s.packet, set |-> s.set, number |-> s.number]

ReadingRecords(s, index, count, offset, found) ==
    [pc |-> "records", packet |-> s.packet, set |-> s.set, number |-> s.number,
     index |-> index, count |-> count, offset |-> offset, found |-> found]

\* Between the two critical sections of one record: the sampling rate is known,
\* or the timeouts are still to be stored.
InsideRecord(s, pc, ratio) ==
    [pc |-> pc, packet |-> s.packet, set |-> s.set, number |-> s.number,
     index |-> s.index, count |-> s.count, offset |-> s.offset, found |-> s.found,
     ratio |-> ratio]

Current(s) == s.packet.sets[s.set]

Goto(t, s) == thread' = [thread EXCEPT ![t] = s]

\* offset += set_length, and the loop ends when the packet does.
AfterSet(s) ==
    LET next == IF Current(s).length = 0 THEN s.set ELSE s.set + 1
    IN  IF next > Len(s.packet.sets) THEN Idle
        ELSE ReadingSet(s.packet, next, s.number + 1)

SharedUnchanged == UNCHANGED <<templates, rates, timeouts, passed, received, taught, reported>>

(***************************************************************************)
(* recvfrom and process_netflow_packet, with the checks of the packet's    *)
(* header.                                                                 *)
(***************************************************************************)
HeaderRefused(packet) ==
    packet.short \/ (packet.version = "v9" /\ packet.count > SetsMaximum)

Receive(t, packet) ==
    /\ thread[t].pc = "idle"
    /\ received < MaxPackets
    /\ received' = received + 1
    /\ IF HeaderRefused(packet) THEN UNCHANGED thread
       ELSE Goto(t, ReadingSet(packet, 1, 0))
    /\ UNCHANGED <<templates, rates, timeouts, passed, taught, reported>>

\* A set that can be read: there is one, the packet holds it, and it has a header.
Readable(s) ==
    /\ s.set <= Len(s.packet.sets)
    /\ ~Current(s).cut
    /\ Current(s).kind # "reserved" => Current(s).length >= Header

\* Which reader a set goes to.
Dispatch(s) == IF Current(s).kind = "data" THEN FindingTemplate(s) ELSE ReadingTemplates(s, 0)

process_netflow_packet_v9(t) ==
    LET s == thread[t] IN
    /\ s.pc = "set"
    /\ s.packet.version = "v9"
    /\ Goto(t, IF s.number = s.packet.count \/ ~Readable(s) THEN Idle
               ELSE IF Current(s).kind = "reserved"
                    THEN ReadingSet(s.packet, s.set, s.number + 1)
               ELSE Dispatch(s))
    /\ SharedUnchanged

\* Mutant: the number of sets is not limited.
process_ipfix_sets_unlimited(t) ==
    LET s == thread[t] IN
    /\ s.pc = "set"
    /\ s.packet.version = "ipfix"
    /\ Goto(t, IF ~Readable(s) THEN Idle
               ELSE IF Current(s).kind = "reserved"
                    THEN AfterSet([s EXCEPT !.number = 0])
               ELSE Dispatch(s))
    /\ SharedUnchanged

process_ipfix_sets(t) ==
    LET s == thread[t] IN
    /\ s.pc = "set"
    /\ s.packet.version = "ipfix"
    /\ Goto(t, IF s.number >= SetsMaximum \/ ~Readable(s) THEN Idle
               ELSE IF Current(s).kind = "reserved" THEN AfterSet(s)
               ELSE Dispatch(s))
    /\ SharedUnchanged

(***************************************************************************)
(* Template sets.  A v9 options template set holds one template, the       *)
(* others as many as there are.  A template that is given up ends the      *)
(* packet; the ones stored before it stay.                                 *)
(***************************************************************************)
AllRead(s) ==
    LET n == Len(Current(s).definitions)
    IN  IF s.packet.version = "v9" /\ Current(s).kind = "options"
        THEN s.index = 1 ELSE s.index = n

\* What happens to bytes after the last template: a v9 options template set is
\* not read further, an IPFIX one may be padded with zeros, and the other loops
\* take the bytes for a template and give it up.
PaddingAccepted(s) ==
    \/ Current(s).padding = "none"
    \/ Current(s).kind = "options" /\ s.packet.version = "v9"
    \/ Current(s).kind = "options" /\ Current(s).padding = "zero" /\ s.index > 0

NextTemplate(s) ==
    IF s.index < Len(Current(s).definitions)
    THEN ReadTemplate(s.packet.version, Current(s).kind, Current(s).definitions[s.index + 1])
    ELSE NoTemplate

process_template(t) ==
    LET s == thread[t]
        tmpl == NextTemplate(s)
    IN
    /\ s.pc = "template"
    /\ ~AllRead(s)
    /\ tmpl # NoTemplate
    /\ add_update_peer_template(s.packet, tmpl)
    /\ taught' = taught \cup {<<s.packet.version, s.packet.address, s.packet.source_id, tmpl>>}
    /\ Goto(t, ReadingTemplates(s, s.index + 1))
    /\ UNCHANGED <<rates, timeouts, passed, received, reported>>

process_template_end(t) ==
    LET s == thread[t] IN
    /\ s.pc = "template"
    /\ \/ AllRead(s) /\ Goto(t, IF PaddingAccepted(s) THEN AfterSet(s) ELSE Idle)
       \/ ~AllRead(s) /\ NextTemplate(s) = NoTemplate /\ Goto(t, Idle)
    /\ SharedUnchanged

(***************************************************************************)
(* Data sets: find the template, then read the records with the copy.      *)
(***************************************************************************)
Records(s, found) == (Current(s).length - Header) \div found.total_length

\* Mutant: data of an unknown template ends the packet.
process_netflow_v9_data_strict(t) ==
    LET s     == thread[t]
        found == peer_find_template(s.packet, Current(s).template_id)
    IN
    /\ s.pc = "data"
    /\ s.packet.version = "v9"
    /\ Goto(t, IF found = NoTemplate THEN Idle
               ELSE IF \/ found.fields = 0 \/ found.total_length = 0
                       \/ Records(s, found) \notin 1 .. FlowsMaximum
                    THEN Idle
               ELSE ReadingRecords(s, 0, Records(s, found), Header, found))
    /\ SharedUnchanged

process_netflow_v9_data(t) ==
    LET s     == thread[t]
        found == peer_find_template(s.packet, Current(s).template_id)
    IN
    /\ s.pc = "data"
    /\ s.packet.version = "v9"
    /\ Goto(t, IF found = NoTemplate THEN AfterSet(s)
               ELSE IF \/ found.fields = 0 \/ found.total_length = 0
                       \/ Records(s, found) \notin 1 .. FlowsMaximum
                    THEN Idle
               ELSE ReadingRecords(s, 0, Records(s, found), Header, found))
    /\ SharedUnchanged

\* How many records an IPFIX data set is read for; 0 when it is given up.  With
\* variable fields the loop goes by length: the count is a bound on it.
process_ipfix_regular_data_set(s, found) ==
    IF found.variable THEN Current(s).length
    ELSE IF found.total_length = 0 \/ Records(s, found) > RecordsMaximum THEN 0
    ELSE Records(s, found)

process_ipfix_options_data_set(s, found) ==
    IF Header + found.total_length > Current(s).length THEN 0 ELSE 1

process_ipfix_data_set(t) ==
    LET s     == thread[t]
        found == peer_find_template(s.packet, Current(s).template_id)
        count == IF found.type = "Data" THEN process_ipfix_regular_data_set(s, found)
                 ELSE process_ipfix_options_data_set(s, found)
    IN
    /\ s.pc = "data"
    /\ s.packet.version = "ipfix"
    /\ Goto(t, IF found = NoTemplate THEN Idle
               ELSE IF found.fields = 0 THEN Idle
               ELSE IF found.type = "Options" /\ found.variable THEN AfterSet(s)
               ELSE IF count = 0 THEN Idle
               ELSE ReadingRecords(s, 0, count, Header, found))
    /\ SharedUnchanged

(***************************************************************************)
(* Records.                                                                *)
(***************************************************************************)
RecordsDone(s) ==
    IF s.found.variable THEN s.offset >= Current(s).length ELSE s.index = s.count

\* The check NetFlow v9 repeats before each record.
OutsideSet(s) ==
    s.packet.version = "v9" /\ s.offset + s.found.total_length > Current(s).length

StopReading(s) == RecordsDone(s) \/ OutsideSet(s)

NextRecord(s, length) ==
    ReadingRecords(s, s.index + 1, s.count, s.offset + length, s.found)

\* The rate the record's sampling field carries, if the template has one.
SamplingRate(s) == IF s.found.sampling THEN Current(s).sampling_rate ELSE 0

Report(s, rate) ==
    reported' = IF rate = 0 THEN reported
                ELSE reported \cup {<<s.packet.version, s.packet.address, rate>>}

\* Bytes too few for a record, which the loop over variable records tries to read.
HalfRecord(s) == s.found.variable /\ Current(s).padding # "none"

end_of_data_set(t) ==
    LET s == thread[t] IN
    /\ s.pc = "records"
    /\ StopReading(s)
    /\ Goto(t, IF RecordsDone(s) /\ ~HalfRecord(s) THEN AfterSet(s) ELSE Idle)
    /\ SharedUnchanged

\* Mutant: the caller holds a reference into the table instead of a copy.
find_sampling_rate_by_reference(t) ==
    LET s    == thread[t]
        rate == rates[s.packet.version][s.packet.address]
    IN
    /\ s.pc = "records"
    /\ ~StopReading(s)
    /\ s.found.type = "Data"
    /\ Goto(t, [InsideRecord(s, "flow", IF rate = 0 THEN ConfiguredRatio ELSE rate)
                  EXCEPT !.found = peer_find_template(s.packet, Current(s).template_id)])
    /\ SharedUnchanged

\* Both readers of a data record first look the sampling rate up.
find_sampling_rate(t) ==
    LET s    == thread[t]
        rate == rates[s.packet.version][s.packet.address]
    IN
    /\ s.pc = "records"
    /\ ~StopReading(s)
    /\ s.found.type = "Data"
    /\ Goto(t, InsideRecord(s, "flow", IF rate = 0 THEN ConfiguredRatio ELSE rate))
    /\ SharedUnchanged

\* netflow_process_func_ptr: the flows of one record go to the traffic core.
PassOn(t, s, ratios, nested) ==
    passed' = [passed EXCEPT ![t] = [version |-> s.packet.version, address |-> s.packet.address,
                                     ratios |-> ratios, nested |-> nested]]

netflow9_flowset_to_store(t) ==
    LET s   == thread[t]
        set == Current(s)
    IN
    /\ s.pc = "flow"
    /\ s.packet.version = "v9"
    /\ update_netflow_v9_sampling_rate(s.packet.address, SamplingRate(s))
    /\ Report(s, SamplingRate(s))
    /\ CASE set.content = "nat"  -> UNCHANGED passed
         [] set.content = "asa"  -> PassOn(t, s, <<s.ratio, s.ratio>>, FALSE)
         [] set.content = "lite" -> PassOn(t, s, <<set.nested_ratio>>, TRUE)
         [] set.content = "flow" -> PassOn(t, s, <<s.ratio>>, FALSE)
    /\ Goto(t, NextRecord(s, s.found.total_length))
    /\ UNCHANGED <<templates, timeouts, received, taught>>

\* The length of a record read with variable fields, and whether it fits.
read_ipfix_variable_length_field(s) ==
    Current(s).record_length <= Current(s).length - s.offset

\* After a record with variable fields: what is shorter than the fixed fields
\* must be padding.
AfterVariableRecord(s) ==
    LET next == NextRecord(s, Current(s).record_length)
    IN  IF Current(s).length - next.offset >= s.found.total_length THEN next
        ELSE IF Current(s).padding = "nonzero" THEN Idle
        ELSE AfterSet(s)

ipfix_data_set_to_store(t) ==
    LET s == thread[t] IN
    /\ s.pc = "flow"
    /\ s.packet.version = "ipfix"
    /\ \/ /\ s.found.variable
          /\ ~read_ipfix_variable_length_field(s)
          /\ Goto(t, Idle)
          /\ UNCHANGED passed
       \/ /\ s.found.variable
          /\ read_ipfix_variable_length_field(s)
          /\ PassOn(t, s, <<s.ratio>>, FALSE)
          /\ Goto(t, AfterVariableRecord(s))
       \/ /\ ~s.found.variable
          /\ PassOn(t, s, <<s.ratio>>, FALSE)
          /\ Goto(t, NextRecord(s, s.found.total_length))
    /\ UNCHANGED <<templates, rates, timeouts, received, taught, reported>>

netflow9_options_flowset_to_store(t) ==
    LET s == thread[t] IN
    /\ s.pc = "records"
    /\ s.packet.version = "v9"
    /\ ~StopReading(s)
    /\ s.found.type = "Options"
    /\ update_netflow_v9_sampling_rate(s.packet.address, SamplingRate(s))
    /\ Report(s, SamplingRate(s))
    /\ Goto(t, InsideRecord(s, "timeouts", 0))
    /\ UNCHANGED <<templates, timeouts, passed, received, taught>>

ipfix_options_set_to_store(t) ==
    LET s == thread[t] IN
    /\ s.pc = "records"
    /\ s.packet.version = "ipfix"
    /\ ~StopReading(s)
    /\ s.found.type = "Options"
    /\ update_ipfix_sampling_rate(s.packet.address, SamplingRate(s))
    /\ Report(s, SamplingRate(s))
    /\ Goto(t, InsideRecord(s, "timeouts", 0))
    /\ UNCHANGED <<templates, timeouts, passed, received, taught>>

store_timeouts(t) ==
    LET s == thread[t] IN
    /\ s.pc = "timeouts"
    /\ update_device_flow_timeouts(s.packet, Current(s).timeouts)
    /\ Goto(t, NextRecord(s, s.found.total_length))
    /\ UNCHANGED <<templates, rates, passed, received, taught, reported>>

(***************************************************************************)
(* The specification.                                                      *)
(***************************************************************************)
Init ==
    /\ templates = [v \in Versions |-> [k \in Addresses \X SourceIds |->
                        [id \in TemplateIds |-> NoTemplate]]]
    /\ rates = [v \in Versions |-> [a \in Addresses |-> 0]]
    /\ timeouts = [v \in Versions |-> [a \in Addresses |-> NoTimeouts]]
    /\ thread = [t \in Threads |-> Idle]
    /\ passed = [t \in Threads |-> [ratios |-> <<>>]]
    /\ received = 0
    /\ taught = {}
    /\ reported = {}

\* recvfrom times out after a second.
Timeout(t) == thread[t].pc = "idle" /\ UNCHANGED vars

\* The steps of the thread that has a packet.
Step(t) ==
    \/ process_netflow_packet_v9(t)
    \/ process_ipfix_sets(t)
    \/ process_template(t)
    \/ process_template_end(t)
    \/ process_netflow_v9_data(t)
    \/ process_ipfix_data_set(t)
    \/ end_of_data_set(t)
    \/ find_sampling_rate(t)
    \/ netflow9_flowset_to_store(t)
    \/ ipfix_data_set_to_store(t)
    \/ netflow9_options_flowset_to_store(t)
    \/ ipfix_options_set_to_store(t)
    \/ store_timeouts(t)

Next ==
    \E t \in Threads :
        \/ \E packet \in Packets : Receive(t, packet)
        \/ Timeout(t)
        \/ Step(t)

Spec == Init /\ [][Next]_vars

FairSpec == Spec /\ \A t \in Threads : WF_vars(Step(t))

(***************************************************************************)
(* Properties.                                                             *)
(***************************************************************************)
\* The states of a thread, by what it is doing.
SetState == [pc: {"set", "data"}, packet: Packets, set: Nat \ {0}, number: Nat]

TemplateState == [pc: {"template"}, packet: Packets, set: Nat \ {0}, number: Nat, index: Nat]

RecordsState == [pc: {"records"}, packet: Packets, set: Nat \ {0}, number: Nat, index: Nat,
                 count: Nat, offset: Nat, found: Template]

InsideState == [pc: {"flow", "timeouts"}, packet: Packets, set: Nat \ {0}, number: Nat,
                index: Nat, count: Nat, offset: Nat, found: Template, ratio: Nat]

ThreadState == {Idle} \cup SetState \cup TemplateState \cup RecordsState \cup InsideState

\* Types, and: a thread inside a set is inside the packet, with the reader the
\* kind of the set and the type of its template call for.
TypeOK ==
    /\ templates \in [Versions -> [Addresses \X SourceIds ->
                         [TemplateIds -> Template \cup {NoTemplate}]]]
    /\ rates \in [Versions -> [Addresses -> Rates \cup {0}]]
    /\ timeouts \in [Versions -> [Addresses -> Timeouts \cup {ZeroTimeouts, NoTimeouts}]]
    /\ thread \in [Threads -> ThreadState]
    /\ DOMAIN passed = Threads
    /\ received \in 0 .. MaxPackets
    /\ \A t \in Threads : LET s == thread[t] IN
          /\ s.pc \notin {"idle", "set"} => s.set <= Len(s.packet.sets)
          /\ s.pc \in {"data", "records", "flow", "timeouts"} => Current(s).kind = "data"
          /\ s.pc = "template" => Current(s).kind \in {"template", "options"}
          /\ s.pc = "flow" => s.found.type = "Data"
          /\ s.pc = "timeouts" => s.found.type = "Options"

\* Records are read inside their set, although other threads replace the
\* template meanwhile: the number of records was computed with the same copy of
\* the template that gives their length, and IPFIX relies on that alone.
ReadsStayInSet ==
    \A t \in Threads : LET s == thread[t] IN
        s.pc \in {"records", "flow", "timeouts"} =>
            /\ s.offset <= Current(s).length
            /\ ~s.found.variable /\ (s.pc = "records" => ~RecordsDone(s)) =>
                   s.offset + s.found.total_length <= Current(s).length

\* An exporter's data is read only with templates it has sent itself: exporters
\* that share an address are told apart by their source id, protocols have
\* tables of their own, and a template answers to its own id only.
ExportersKeptApart ==
    /\ \A v \in Versions, a \in Addresses, i \in SourceIds, id \in TemplateIds :
          LET tmpl == templates[v][<<a, i>>][id] IN
          tmpl # NoTemplate => <<v, a, i, tmpl>> \in taught /\ tmpl.template_id = id
    /\ \A t \in Threads : LET s == thread[t] IN
          s.pc \in {"records", "flow", "timeouts"} =>
              /\ <<s.packet.version, s.packet.address, s.packet.source_id, s.found>> \in taught
              /\ s.found.template_id = Current(s).template_id

\* The sampling rate kept for an address is one it has reported, and is kept
\* once there is one; flows are scaled by such a rate or by the configured one.
\* Options records without a rate (0) must not disturb it.
RatesAreReported ==
    /\ \A v \in Versions, a \in Addresses :
          IF rates[v][a] = 0 THEN \A r \in Rates : <<v, a, r>> \notin reported
          ELSE <<v, a, rates[v][a]>> \in reported
    /\ \A t \in Threads :
          passed[t].ratios # <<>> /\ ~passed[t].nested =>
              \A i \in DOMAIN passed[t].ratios :
                  \/ passed[t].ratios[i] = ConfiguredRatio
                  \/ <<passed[t].version, passed[t].address, passed[t].ratios[i]>> \in reported

\* A data set holds whole records of a template, not too many of them.
Fits(packet, set, tmpl) ==
    LET body == set.length - Header IN
    /\ tmpl.fields # 0
    /\ IF packet.version = "ipfix" /\ tmpl.type = "Options"
       THEN tmpl.variable \/ tmpl.total_length <= body
       ELSE IF tmpl.variable
       THEN set.padding = "none" /\ \E n \in 0 .. body : body = n * set.record_length
       ELSE /\ tmpl.total_length # 0
            /\ body \div tmpl.total_length \in
                 1 .. (IF packet.version = "v9" THEN FlowsMaximum ELSE RecordsMaximum)

\* The templates for a set's records among the known ones.
Sent(packet, set, known) ==
    {x \in known : /\ x[1] = packet.version /\ x[2] = packet.address
                   /\ x[3] = packet.source_id /\ x[4].template_id = set.template_id}

\* A data set that can be read with each template its exporter has sent for it.
\* A template not learnt yet is "not an error" in both protocols ("We need some
\* time to learn"), but only NetFlow v9 goes on behind the set: IPFIX gives the
\* rest of the packet up, so there the template must be known.
CleanData(packet, set, known) ==
    /\ \A x \in Sent(packet, set, known) : Fits(packet, set, x[4])
    /\ packet.version = "ipfix" => Sent(packet, set, known) # {}

\* A template set of whole templates and no stray bytes; NetFlow v9 reads one
\* template of an options template set.
CleanTemplates(packet, set) ==
    /\ \A j \in DOMAIN set.definitions :
          ReadTemplate(packet.version, set.kind, set.definitions[j]) # NoTemplate
    /\ \/ set.padding = "none"
       \/ /\ set.kind = "options"
          /\ packet.version = "v9" \/ (set.padding = "zero" /\ set.definitions # <<>>)
    /\ packet.version = "v9" /\ set.kind = "options" => Len(set.definitions) = 1

\* A set nothing is wrong with, when the templates in known have been sent.  A
\* reserved set is passed over by IPFIX; NetFlow v9 stays at it.
CleanSet(packet, set, known) ==
    /\ ~set.cut /\ set.length >= Header
    /\ CASE set.kind = "data"     -> CleanData(packet, set, known)
         [] set.kind = "reserved" -> packet.version = "ipfix"
         [] OTHER                 -> CleanTemplates(packet, set)

\* Nothing is wrong with a packet up to and including its set n.
CleanUpTo(packet, n, known) ==
    /\ n <= (IF packet.version = "v9" THEN packet.count ELSE SetsMaximum)
    /\ \A i \in 1 .. n : CleanSet(packet, packet.sets[i], known)

\* The template that definition j of a set stands for is among the known ones.
Learnt(packet, set, j, known) ==
    <<packet.version, packet.address, packet.source_id,
      ReadTemplate(packet.version, set.kind, set.definitions[j])>> \in known

SetLearnt(packet, set, known) ==
    set.kind \in {"template", "options"} =>
        \A j \in DOMAIN set.definitions : Learnt(packet, set, j, known)

\* When a packet ends, all the templates it carries before the first thing that
\* is wrong with it are learnt: also those behind data, decoded or (NetFlow v9)
\* of a template not known yet, and whatever other threads learn meanwhile.
CleanPacketsLearnt ==
    [][\A t \in Threads : LET s == thread[t] IN
         s.pc # "idle" /\ thread'[t].pc = "idle" =>
            \A n \in DOMAIN s.packet.sets :
                CleanUpTo(s.packet, n, taught) =>
                    SetLearnt(s.packet, s.packet.sets[n], taught')]_vars

\* A thread comes to the end of every packet, whatever its lengths say: the
\* loops over sets, templates and records all end ("infinite loop prevention").
PacketsEnd == \A t \in Threads : []<>(thread[t].pc = "idle")
=============================================================================
