# FNM-flowspec: TLA+ models, checks and proofs

FNM-flowspec is a fork of FastNetMon Community that mitigates DDoS attacks with
IPv4 FlowSpec rules announced through GoBGP. This directory holds TLA+ modules
of the way traffic takes through it: from the sFlow, NetFlow v9 and IPFIX
collectors over the whitelist, the prefix lookup, the traffic counters and the
detector to the rules that are classified, encoded, announced and withdrawn.
Beside them are the TLC configurations that check the modules on small
instances, and TLAPS proofs of the results that hold for instances of every
size.

## The system

| Part | State | Operations |
| --- | --- | --- |
| Lifecycle table (`actions/gobgp_flowspec_lifecycle.cpp`) | one entry per rule (announcing, installed, withdraw_requested, withdrawing; UUID), the victims with an UNBAN under way (the *fence*), the victims with a refresh reserved; one mutex | begin / fail / complete an announcement, begin / complete a withdrawal, plan a refresh, escalate, reserve / finish a capture |
| GoBGP threads (`actions/gobgp_action.cpp`) | detached threads, each with one order: BAN of a rule, UNBAN of a victim, a refresh | call the table, call GoBGP, report the answer to the table |
| GoBGP client (`gobgp_client/`) | none; five second deadline per call | AddPath (answers a UUID), DeletePath (by UUID) |
| Detector (`fastnetmon_logic.cpp`, speed recalculation) | thresholds, speeds | opens a packet bucket for a victim over its threshold |
| Packet buckets (`packet_bucket.hpp`) | one bucket per victim, for a new attack (ONCE) or for a refresh | enable capture, store packets until full |
| Bucket thread (`check_traffic_buckets`) | copies of the ban list and of buckets | drop orphans, ban on filled buckets, start refreshes, schedule captures |
| Ban list (`ban_list.hpp`) | banned addresses with who banned them | add, remove, copy; one mutex |
| Cleanup thread (`cleanup_ban_list`) | a copy of the ban list | order UNBANs, erase entries |
| gRPC API (`api.cpp`) | none | ExecuteBan, ExecuteUnBan |
| Port classifier (`actions/gobgp_flowspec_port_classifier.cpp`) | none | one dominant port for a BAN, significant ports for a refresh |
| NetFlow v9 and IPFIX collectors (`netflow_plugin/`) | per protocol: templates by exporter address and source id, sampling rate and flow timeouts by address; a mutex per map | receive a packet, learn templates, decode data with them, learn rates and timeouts from options records, pass flows on |
| sFlow collector and packet parser (`sflow_plugin/`, `libsflow/`, `simple_packet_parser_ng.cpp`) | statistics counters; the packet being filled while the records of a sample are read | receive a datagram, split it into samples and records, parse sampled headers, hand packets on |
| Whitelist (`filter.cpp`, `load_whitelist_rules`) | the rules read from a file | read, print and match a FlowSpec rule |
| Prefix lookup (`libpatricia/`, `ip_lookup_tree*.hpp`) | a Patricia tree with glue nodes, a counter of its nodes | insert a network, exact and longest-match search, walk, destroy |
| Traffic counters (`process_packet`, `recalculate_speed`, `abstract_subnet_counters.hpp`) | packets per host and network of both families, each map under a mutex; the flow table; totals without a mutex; averages | count a packet, turn counters into averaged speeds every second, compare with thresholds |
| Rule builder and codec (`gobgp_flowspec_rule_builder.cpp`, `bgp_protocol_flow_spec.cpp`) | none | build the rule of an attack and its key, encode an NLRI and its communities, decode them |

They interact by calls and by the three shared, separately locked tables
(lifecycle, buckets, ban list). A caller that needs two of them locks them one
after the other, and each BAN, UNBAN and refresh runs in a detached thread, so
steps of different actors fall between almost any two lines. That is where the
difficulty is: UNBAN while AddPath runs, a refresh overtaken by an UNBAN, two
withdrawals of one rule, an escalation whose cleanup meets an UNBAN, answers of
GoBGP that are lost or late, and decisions taken on copies that are stale when
they are used. The collectors run one thread per UDP port; the threads share
the maps, so a template, rate or timeout may change between any two records of
a set, and the packets themselves are long, cut, or out of order.
`PROJECT.json` lists these hazards with their lines.

A collector and the recalculation thread meet in the counters: a packet may be
counted between the reading and the clearing of a map, of the flow table or of
the totals. The tree, the codec, the parsers and the whitelist are sequential;
their difficulty is in the cases (glue nodes, lengths, cut buffers, fragments,
records that fail after others have been read).

NetFlow v5, AF_PACKET, XDP, netmap and pcap, the metrics exporters and the
command line clients complete the program; "Not modelled" says why they are left
out.

## Modules

| Module | Models |
| --- | --- |
| `FlowspecLifecycle` | the lifecycle table, one operator per method; `LifecycleSpec` is the table under every sequence of calls |
| `GobgpAction` | the threads and GoBGP, for any detector; extends `FlowspecLifecycle` |
| `Mitigation` | detector, buckets, bucket thread, ban list, cleanup thread and API, composed with `GobgpAction` |
| `Dominance` | saturating weights and the comparison of shares |
| `PortClassifier` | a bucket filling with packets and the two classifiers; extends `Dominance` |
| `NetflowCollector` | the NetFlow v9 and IPFIX collector threads and the maps they share |
| `PacketParser` | the parsers of sampled Ethernet frames and IPv4 packets |
| `SflowCollector` | one sFlow thread; extends `PacketParser` |
| `IpPrefix` | addresses as bits, networks, coverage |
| `PrefixSet` | what a prefix lookup promises: a table of networks with longest match (abstract) |
| `PrefixTree` | the Patricia tree, shown to implement `PrefixSet` |
| `TrafficCounters` | collector threads counting packets, the recalculation thread |
| `FlowSpecRule` | the rule structure that the next two share |
| `FlowSpecCodec` | rule builder, rule key, encoder and decoder of NLRIs and communities |
| `Whitelist` | the whitelist file, its rules in the log, the packet filter |
| `FlowSpecRules` | composes `PortClassifier`, `FlowSpecCodec` and `Whitelist`: from a captured packet to what a BGP peer decodes |
| `MC...` | instances for TLC |
| `FlowspecLifecycleProofs`, `GobgpActionProofs`, `MitigationProofs` | theorems about the table, about the threads and GoBGP's paths, and about the composition; each uses those before it |
| `NetflowCollectorProofs`, `SflowCollectorProofs`, `TrafficCountersProofs` | theorems about the module of that name |
| `FlowSpecRulesProofs`, `FlowSpecCodecProofs` | theorems about `FlowSpecRules`: classifiers and whitelist, then paths, encoder and decoder |

### FlowspecLifecycle

`rules` is two functions on the set of all keys, `rule_state` (with `"absent"`)
and `add_path_uuid`. Methods keep their names. A method that answers with a
list of rules to announce is an operator with that set as its value, and
`Emplace` enters it; both happen in one critical section of the code and in one
step here. The message-only parts of the answers (deferred and in-progress
rules) are left out: the callers only log them.

### GobgpAction

A thread is a slot in `Workers` with its order, what it must announce (`adds`)
and delete (`dels`), GoBGP's unreported answer (`reply`) and a pending
escalation (`escalate`). Its steps are those between which it holds no lock:
start (one method call), one call to GoBGP, one report. GoBGP is external and
pessimistic: a call may succeed, fail without effect, fail although it was
executed (a lost answer), or be executed after the caller gave up (`late`).
GoBGP hands out UUIDs that are not in use and keeps one path per NLRI: an AddPath
of a rule it already has replaces the path and its UUID (`WithPath`). `lost` (the
UUIDs in GoBGP that no caller was told) and `overtaken` are history variables.
`LifecycleNext` has every method the daemon calls; `complete_refresh_capture`,
which only the tests call, is not among them.

Replacement has a consequence that `InstalledInRib` states and does not hide: an
AddPath that was reported as failed, and is executed after the rule was announced
again, leaves the installed rule under a UUID the table does not hold. The rule
keeps filtering, but the DeletePath of its UNBAN names a UUID GoBGP no longer has.

The refresh thread returns early when the configured action or redirect target
is invalid. `gobgp_action_init` ends the process for those, so the threads here
do not meet them.

### Mitigation

Time is abstracted: wherever the code compares a clock (ban time, refresh
interval, bucket age) or a speed with a limit, both outcomes are possible. The
bucket mutex is held over several steps by the bucket thread
(`BucketsUnlocked`). What a bucket holds is its pattern and whether it is full.
A spawn waits for a free slot of `Workers`; the code never waits, it starts one
more thread. The bound only removes behaviours, and the passing properties were
chosen so that two slots already produce the races.

### PortClassifier and FlowSpecRules

`MaxWeight` stands for 2^64 - 1 and is small in the run, so that saturation
happens. The reference works on sums without a width. The refresh is the one that
runs, `classify_gobgp_flowspec_refresh_protocols` with its own configured minimum
share; `build_gobgp_flowspec_refresh_candidates` is called by tests only and is not
modelled. With a minimum share above the BAN's dominance threshold a refresh may
find nothing where the BAN selected a port, which `BanAndRefreshAgree` allows.

`FlowSpecRules` carries the full bucket on: `ClassifyCapture` applies both
classifiers, `AnnounceCapture` builds the rules with a configured action and
encodes them as `AnnounceFlowSpecIPv4` does, `Deliver` hands an announced path to
a peer that decodes it. The same decoder is run on rules the attack path never
builds and on octets of other BGP speakers, cut at every length. The whitelist is
loaded and asked in behaviours of its own, since it shares no state with the
capture; it shares the rule structure.

### FlowSpecCodec

A buffer is a sequence of octets and the encoder keeps the code's order, operator
bytes and masks. The decoder takes one step per component and per value, as the
two nested loops do, and keeps their exits: unknown type, cut value, cut prefix,
too many values, an operator it does not support. Path attributes other than the
NLRI are records.

### Whitelist

`whitelist_rules_json` is the file, `lines_read` how far it has been read. A JSON
line is a function from its keys to values, with `Malformed` for a value of the
wrong type, because the reader's errors are type errors. Numbers are whole and fit
32 bits; what the JSON library makes of a fraction, a boolean or a larger number is
not modelled. Values are truncated where the code stores them in narrower integers.

`FilterMatchesReference` compares the filter with the lines of the file, read with
the values written in them and not with the rules they were turned into. One half:
a packet that meets every condition of a line is matched, if the filter can decide
the line (not with three of the fragment types, nor with an IPv6 network that is
not a host). The other half: a packet is matched only if it meets every condition
*that the filter compares* of some line. `Compared` names the exceptions: TTLs, AS
numbers, interfaces, agent addresses, and VLANs that do not fit 16 bits. A line
with one of them matches more packets than it describes; for lines without them
the property is exact.

### PrefixTree

A node is a record with `bit`, `prefix`, `l`, `r`, `parent` and `data`, named by
the order of its allocation. Addresses are sequences of `MaxBits` bits, so a byte
test and a mask become bit comparisons. `patricia_lookup` is one action per way
it links a node (first node, existing network, glue node that gets a prefix, new
child, new parent, new glue node); the searches and the walk keep their stacks,
whose fixed size `TreeSound` speaks about. A line that is no address makes
`ascii2prefix` return NULL. IPv4 networks are validated first, IPv6 networks are
not ("TODO: add IPv6 subnet format validation", `fastnetmon.cpp:1489`), so that
`assert(prefix)` or, without asserts, the null pointer ends the process:
`NullPrefixAborts`. `TreeSound` speaks about the asserts on the tree itself, not
about that one. An insertion with a null payload overwrites the payload the node
had. `ImplementsPrefixSet` maps the nodes
with a prefix to the table of `PrefixSet` and the last result to its answer.

### TrafficCounters

A packet accepted by `Receive` has its steps left to do (total, network, host,
flow; in the order of the code for its family), each its own critical section.
The recalculation thread takes the maps in order, holds a map's mutex over all
its keys, and works on a key in two steps (build the speed, clear the counter).
Totals have no mutex and are read and cleared in two steps. The exponential
factor is a fraction and the result is truncated, as the code does; the arithmetic
before the truncation is exact, where the code rounds to doubles, so a result that
lies within a rounding error of an integer may differ by one from the program's.
`owed` and `instant` are history variables.

### SflowCollector and PacketParser

A datagram is its header, its samples and the number of octets received; each
length check of the code is a comparison here. A step is a datagram, a sample
header or a record, because a record may end its sample after earlier ones have
filled the packet and moved counters. A frame is what its octets mean, and the
parsers' checks against the captured length are kept; `transport` of a later
fragment is payload that would read as ports.

### NetflowCollector

A packet is the sequence of its sets as the parser finds them, with lengths in
units of a set header, so that every comparison of an offset with a length in
the code is a comparison here. A field list is reduced to its length, its number
of fields, the length before its first variable field and whether it brings a
sampling rate; a record to what it means for sampling and timeouts.

`thread[t]` says where the thread is in its packet. `Receive` takes a packet
from the socket and checks its header. `process_netflow_packet_v9` and
`process_ipfix_sets` are one turn of the loop over sets; `process_template` reads
and stores one template; `process_netflow_v9_data`, `process_ipfix_data_set` and
the two IPFIX set readers find the template and start on the records;
`find_sampling_rate` begins a record and `netflow9_flowset_to_store`,
`ipfix_data_set_to_store` or an options reader ends it. A step is one critical
section of one mutex with what the thread does alone around it, so another
thread may replace the template, the rate or the timeouts between any two.
`templates`, `rates` and `timeouts` hold both protocols' maps. `taught` and
`reported` are history variables.

Two things differ between the protocols and are kept: data of an unknown
template ends an IPFIX packet and only its own set in NetFlow v9, and bytes left
over after the last template or record are padding under different conditions
(`PaddingAccepted`, `HalfRecord`).

## Runs

| Run | Asks | Bounds | Result |
| --- | --- | --- | --- |
| `GobgpThreads` | does each unfinished call have one owner, is every answer applied, does UNBAN beat a reserved refresh, is the fence neither left behind nor ineffective, does an escalation withdraw only what it covers, is the port limit kept, do the threads implement `LifecycleSpec`? | 3 threads, 1 victim, 2 ports, limit 1, 2 UUIDs | holds, 308 thousand states |
| `GobgpRib` | does the table agree with GoBGP's paths when answers are lost or late? | 2 threads, 1 late call | holds, 153 thousand states |
| `GobgpLiveness` | do threads end and fences fall? | 2 threads, 2 UUIDs, refresh of two protocols with an escalation | holds, 248 thousand states |
| `MitigationThreads` | do reservations leak, can an attack be banned twice? | 2 threads, 1 API call at a time | holds, 933 thousand states |
| `MitigationLiveness` | do buckets and captures end? | 1 thread, no API | holds |
| `NetflowThreads` | are records read inside their sets, with the exporter's own templates and reported rates; is every template in front of the first fault of a packet learnt; does every packet end? | 2 threads, up to 3 packets of a catalogue of 27 | holds, 389 thousand states |
| `SflowDatagrams` | is every flow sample handed on or counted under one error; does a packet say what its own sample said? | 2 datagrams of a catalogue, 2 samples of up to 4 records | holds, 69 thousand states |
| `PrefixTree` | does the tree stay well linked within its stacks, and does it implement `PrefixSet`? | 3-bit addresses, 6 lines and an unreadable one, at most 4 networks at once | holds, 159 thousand states |
| `TrafficCounters` | is every packet counted once, do parts stay within totals, which flows may be lost, do averages settle? | 1 collector, 4 mixes of packets (one gives a host two protocols), 1 packet per period, periods of 1 and 2 seconds | holds, 204 thousand states |
| `FlowSpecRules` | do the classifiers compute what they should, and agree; does an announced rule read back; do keys tell paths apart; does the filter, and the log, say what the whitelist line says? | 12 packets, up to 4 samples, 3 attacks, 5 configured actions, 2 whitelist lines of 10 | holds, 137 thousand states |
| `UnbanOvertakesBan`, `ManualBanErased` | do two statements of the documentation and comments hold? | as above | violated, see below |

One victim is enough: every key of every map is an address, and no code path
relates two victims. Two ports with a limit of one make both the escalation and
the limit happen. Three threads cover BAN, UNBAN and refresh at once. Two UUIDs
let a late or lost path meet a new one.

For the collectors three packets are the least in which a thread reads data with
a template learnt from an earlier packet while the other thread replaces it. The
catalogue (`MCNetflowCollector`) holds, for both protocols, templates that change
their length, a template set broken in its middle, data in front of and without
its template, two agents behind one address, options records with and without a
rate, reserved sets and sets of length zero, and for each protocol what only it
has. `SetsMaximum` (4), `FlowsMaximum` and `RecordsMaximum` (3) stand for the
limits of 256, 256 and 0x4000 in the code and are small enough to be reached.

The sFlow catalogue (`MCSflowCollector`) crosses every kind of frame with
captured lengths on both sides of each header, and puts failing records before
and after good ones; the second datagram shows that nothing survives from the
first. `PortBase` (8) stands for 2^30, `MaxSamples` (2) and `MaxRecords` (4) for
the limits of the code. Three bits already give every way of linking a node, glue
below a parent, a walk three deep, a default route, host bits and a prefix that is
too long. One packet per period and
two periods put a packet between any two steps of a recalculation. `MaxValues`
(3) and `BufferSize` (64) stand for 100 values and 2048 octets and are reached;
`MaxWeight` is 30.

**Fairness.** `GobgpLiveness` assumes that a thread that can step steps: the
mutex is held for bounded work and each call to GoBGP ends at its deadline. It
also assumes that a reserved capture ends, which `MitigationLiveness` checks
(`CapturesEnd`). There, every thread of the process is weakly fair, and a bucket
that stays is either filled or old enough to be dropped; this is strong
fairness, because the bucket thread visits the orphan phase again and again and
the bucket's age only grows.

In `NetflowThreads` a thread that has a packet goes on with it: it waits only for
mutexes held for one look-up or update. Receiving is not fair, as exporters owe
nobody a packet. In `TrafficCounters` the recalculation thread is weakly fair: it
is woken every second and waits for no one but for mutexes held for one packet.

Deadlock is checked in every run except `FlowSpecRules`, `PrefixTree` and
`SflowDatagrams`, whose behaviours end when their input or a bound is used up.

### What the runs found

* `UnbanOvertakesBan`: BAN and UNBAN of a victim run in separate detached
  threads. If the UNBAN's runs first it finds nothing, drops its fence and ends;
  the BAN's then installs a rule for a victim that is not banned any more. The
  README of the program says UNBAN withdraws all paths.
* `ManualBanErased`: the cleanup thread decides on a copy and erases by address,
  so it can erase a manual ban made in between.

Met while modelling, and kept in the models without a run of their own:

* The refresh scheduler works on a copy of the ban list. A victim that is
  unbanned, and whose UNBAN thread ends, before the scheduler reserves the
  capture gets a refresh, and its rules stay
  (`gobgp_flowspec_lifecycle.cpp:142`).
* A BAN that meets an UNBAN's fence is dropped with the message that an identical
  rule is active, when none need be (`gobgp_action.cpp:265`).
* Both optional members of `device_timeouts_t` start as 0, not empty, so the
  return for "We did not receive any information about timeouts"
  (`netflow_collector.cpp:248`) is dead and an options record without timeouts
  overwrites the reported ones with zeros.
* After a reserved NetFlow v9 flowset `continue` reads the same header again
  until the count of flowsets is used up, where the comment says it skips the
  flowset. Templates are kept by address and source id, sampling rates by address
  only. The ratio of a Netflow Lite record may round to 0; the model always takes
  that ratio, where the code keeps the looked-up one if no packet was selected, and
  `RatesAreReported` exempts these records.
* IPFIX data of a template that is not known yet ends the whole packet, and the
  templates behind it are lost until the exporter sends them again, although
  `ipfix_collector.cpp:2081` calls it "not an error". NetFlow v9 goes on, but reads
  only the first template of an options template set. `CleanPacketsLearnt` claims
  the templates in front of such a place and no more.
* An automatic ban overwrites an entry the API made while its bucket filled
  (`fastnetmon_logic.cpp:2767`).
* The totals are read and later set to zero, so packets counted in between are in
  no speed; the counters of the sum of both families are added to nowhere
  (`fastnetmon_logic.cpp:2028`). They feed the display only.
* A connection recorded while a recalculation runs, after its host's turn, is
  cleared uncounted; `FlowLossConfined` bounds the loss to those.
* The filter ignores TTLs, AS numbers, interfaces and agent addresses of a
  whitelist rule, which the reader accepts and the log prints, and a VLAN of 65536
  or more is compared modulo 65536. Such a rule keeps traffic out of the counters
  that it does not describe; `filter.cpp:20` says the filter "Returns true when
  packet matches specific rule".
* An IPv6 network of the configuration that cannot be read ends the process at
  start-up (`fastnetmon.cpp:1490`).
* The length of an NLRI is stored in an octet before it is compared with 240
  (`bgp_protocol_flow_spec.cpp:637`); the rules of the attack path are far
  shorter.
* In sFlow samples the source AS number is the router's and the destination AS
  number the source's (`sflow_collector.cpp:534`); a gateway record that is too
  short loses its sample without a counter (`uncounted`); the parser of bare IPv4
  packets, unlike that of Ethernet frames, reads ports in later fragments.

## Proofs

Everything below holds for every value of the constants that satisfies the
assumptions named in the modules: any number of threads, victims, ports, UUIDs,
late calls, collectors, packets and limits. The argument is the same each time:
an inductive invariant that implies the property, shown for the initial state
and for one action after the other.

| Theorem | States |
| --- | --- |
| `FenceJustified`, `FencedRulesLeave`, `WithdrawalsCovered` | `FenceHasReason`, `FenceExcludesLive`, `EscalationCovered` of `LifecycleSpec` |
| `TypeCorrect`, `AnnouncerIsUnique`, `DeleterIsUnique`, `RefreshIsUnique`, `CompletionsApply`, `UnbanBeatsRefresh` | `TypeOK`, `OneAnnouncer`, `OneDeleter`, `OneRefresh`, `NoIgnoredCompletion`, `NoPathAfterUnban` of the threads |
| `MethodsOnly` | the threads implement `LifecycleSpec` |
| `LimitRespected` | the action property `RefreshRespectsLimit` |
| `PathsStayTracked`, `InstalledAreInRib`, `CoverageIsKept` | `PathsTracked`, `InstalledInRib` and the action property `CoverageKept` |
| `CapturesAreAccounted`, `BannedOnce` | `CapturesAccounted`, `AutomaticBanOnce` of `Mitigation` |
| `MitigationImplementsThreads` | `MitigationSpec => Spec`: the composition implements `GobgpAction` |
| `ComposedUnbanBeatsRefresh`, `ComposedPathsAgree` | `NoPathAfterUnban`, and `PathsTracked`, `InstalledInRib` and `CoverageKept`, of the composition |
| `NetflowTypeCorrect`, `ReadsInSet`, `ExportersApart`, `RatesReported` | `TypeOK`, `ReadsStayInSet`, `ExportersKeptApart`, `RatesAreReported` |
| `TemplatesAreLearnt` | the action property `CleanPacketsLearnt` |
| `PacketsAreConserved`, `SpeedsAreParts`, `WaitingFlowsAreCounted` | `CountersConserved`, `PartsWithinTotal`, `FlowLossConfined` |
| `SamplesAreAccounted`, `PacketsSaySamples` | `SamplesAccounted`, `PacketsAreWhatWasSampled` |
| `DominanceExact`, `ThresholdFits`, `PercentIsFloor` | the comparison of shares is exact and stays within the counter's width; the reported percentage is the share rounded down |
| `BanSelectsTheReference`, `RefreshIsFair`, `RefreshKeepsTheBansPort` | `ClassifierMatchesReference`, `RefreshPortsCarryTheirShare`, `BanAndRefreshAgree` |
| `WhitelistPrintsWhatItUses`, `FilterIsExact` | `PrintedRuleReadsBack`, `FilterMatchesReference` |
| `PathsHaveKeys`, `PeerReadsTheRule` | `KeysIdentifyPaths`, `AnnouncedRuleReadsBack` |

**The table.** `TableInv` adds to the three properties the types and `UuidShape`
(which states come with a UUID). `LifecycleAssumption` asks that the special
values differ from the others and that there are finitely many ports.

**The threads.** `ThreadInv` is the types, the table's invariant, `ThreadShape`
(where a thread can be), the three ownership invariants and `OvertakenFenced`.
Ownership is needed because a completion changes the table only in the states
that ownership guarantees; `ThreadShape` because a thread reports only calls it
made. `MethodsOnly` shows that each step of a thread is one step of
`LifecycleSpec` or leaves the table unchanged; the argument the cleanup needs,
that its key is protocol-only, comes from `ThreadShape`. `LimitRespected` counts:
what a refresh enters is either nothing, one port where fewer than the limit have
an entry, or the protocol-only rule, so the cardinality of the ports with an
entry stays within the limit or does not grow.

**GoBGP's paths.** `RibInv` adds to `ThreadInv` that UUIDs are unique among
paths, late calls and table (`UuidsUnique`), that the rule of an unreported success
is in GoBGP, under its own UUID or a lost one (`ReplyInRib`), and that a late
DeletePath is of a rule already on its way out, a late AddPath of a UUID nobody was
told (`LateShape`). Without the
uniqueness a late DeletePath could take an installed rule's path with it. An
escalation is covered because the cleanup runs only after the answer to the
protocol-only AddPath was reported, and that path is in GoBGP by
`InstalledAreInRib`.

**The composition.** `MitigationInv` adds `LoopShape` (what the bucket thread
holds in each of its phases) and `DetectorShape` (what the detector has already
seen). `BannedOnce` rests on the order of the two checks: the detector alone makes
buckets for new attacks, and a victim is banned automatically through such a
bucket only, so what it has checked still holds when it acts on it. The
refinement is by identity on `GobgpAction`'s variables: detector, loop, cleaner
and API leave them alone or take a step `GobgpAction`'s environment may take.

**NetFlow and IPFIX.** `IInv`: the maps hold templates the exporter has sent
(`TablesOK`), the other variables have their types (`OthersOK`), and each
thread's place in its packet is consistent (`ThreadsOK`): the set it reads exists,
its template was taught by the same exporter, and, in `Bounded`, the records it
still has to read fit between its offset and the end of the set. `Bounded` is
what makes `ReadsInSet` inductive: the fixed-length loop of IPFIX has no check of
its own, and rests on the division made before the first record with the template
it copied then. `RatesReported` adds `RatesInv`, which ties the stored rates and a
thread's current ratio to `reported`. `TemplatesAreLearnt` adds `LearntInv`: as long as
nothing was wrong with the sets behind it, a thread has read one set after the
other and their templates are taught; data sets are decoded or, in NetFlow v9, of
an unknown template. A data set is clean with respect to the templates taught so
far: each of them fits it, which another thread can only take away, or for IPFIX
there is one, which nobody takes away, as `taught` only grows.

**Traffic counters.** `ThreadsInv` says which steps a collector has left
(`TaskShape`) and what the recalculation has copied (`RecalcShape`).
`PacketsAreConserved` counts the packets in hand as the cardinality of a union of
disjoint sets, one per collector, so that it holds for any number of them: a step
of one collector moves its share to the counter. `SpeedsAreParts` needs
`CountersWithin`, the same relation for counters and for what is being averaged,
and that truncated division keeps parts within a whole. `WeightAssumption` says
that the weight of the old average is at most 1, as `exp(-x)` is (the prover
knows nothing of powers); `PacketAssumption` that a packet stands for a natural
number of packets; `CollectorAssumption` that there are finitely many collectors.

**sFlow.** `AccountInv` is `SamplesAccounted` with the types of the counters it
compares; each action either counts none of them, or ends one sample in one way.
`PacketsSaySamples` needs `SampledInv`, about the packet that is being filled:
after k records it says what the raw header among them says, has the AS numbers
of the last gateway record among them, and is otherwise as the sample header left
it; what ends a sample hands over exactly that packet or none. `FlowSampleWritten`
assumes what an agent writes: ports in the encoding of the sample's header, and
no fragment offset in an IPv6 packet without a fragment header.

**The port classifiers.** `CaptureInv` is small (the samples are a sequence of
the packets); the work is in what the two classifiers compute. Saturating addition is associative on capped sums, so the
total of any port is the true sum capped once, in whatever order the samples come
(`Totals` as the last of a sequence of partial totals). The loop over the ports
keeps a leader and a tie flag; after any set of ports the leader outweighs them
unless it is tied, which with `DominanceExact` is the reference.
`RefreshIsFair` adds the shares of disjoint sets of samples, so that there is
room for at most 100 \div min_share_percent of them. `RefreshKeepsTheBansPort`
compares the two classifiers on one capture, each with its own configured share. `PortClassifierAssumption` asks
for at least one sample, percentages from 1 to 100 and a buffer with room for a
packet; the largest weight is any natural number.

**The whitelist.** `WhitelistInv`: every loaded rule is the rule of a line that
could be read, every such line read so far has its rule in use, and the log holds
the JSON of each, in order. That a printed rule
reads back is then a fact about one rule, field by field; the octets of an
address and the bits of a prefix are split with the powers of two from 1 to 256
(`Powers`), over which masking an octet is exact. `FilterIsExact` goes from the
line to its rule (a stored value says of a packet what the written one says, except
for the lists `Compared` leaves out) and from the rule to the filter, condition by
condition. The assumptions say that the values
of a line are lists of elements of their field or prefixes, that `Malformed` is
neither, that addresses are octets, lengths are numbers and a packet's VLAN has 16
bits.

**The codec.** `PathsInv`: what was classified are known protocols and port
numbers, and each path was built for one of them with a configured action. For
`PathsHaveKeys` the NLRI of such a rule is laid out octet by octet: its length
tells whether there is a protocol and a port, and the octets at fixed places are
their values, so the NLRI determines the key; the key determines the lists, and so
the NLRI.

`PeerReadsTheRule` uses `CodecInv`. For any rule, `Layout` gives the place and the
length of each of the eight components in the NLRI, the octets of a prefix, and
the operator octet and the octets of each value; it is derived from the
concatenations of the encoder (`LayoutExists`). `Reads` says where the decoder can be
in such an NLRI: between two components, with every field whose component lies
before the cursor equal to what was announced and every other one empty; within a
list, with as many items as values were passed; refused, but then the length was
cut; or done. Every step of the decoder leads from one such place to another: an
operator octet of the encoder has the width and the end bit that were meant
(`OperatorOctet`), a prefix masked twice is masked once (`MaskedAgain`), the flags
and fragment types come back from their octet. `Shape` holds for octets of any
speaker as well, and keeps the decoder within the length it was given. The
restriction to lists of at most `MaxValues` values is the code's own limit.
`CodecAssumption` says that rules have the types of `flow_spec_rule_t`, that
somebody else's NLRI is a string of octets with a length octet, and that the
buffer has room for a prefix, a protocol and a port; `NoResultAssumption` that
the value for a failed call is no result.

**Induction over data.** Sums over samples, concatenations and loops over ports
are reasoned about without an induction rule: a non-empty set of numbers has
a least one, so that a family of sets that grows by elements has every subset of
a finite set, or a smallest one that it lacks (`SubsetInduction`), and the folds of the library are unfolded into the sequence of
their partial results.

Only model-checked, and why:

* liveness (`ThreadsFinish`, `FenceReleased`, `CapturesEnd`, `BucketsEnd`,
  `PacketsEnd`, `AverageSettles`): the prover has no fairness;
* `PrefixTree` (`TreeSound` and the refinement of `PrefixSet`): the descent, the
  climb and the walk are recursive functions whose recursion ends because the
  tree is well linked, so that even their existence is part of the invariant, and
  the walk visits nodes in an order that has to be followed through every
  relinking.

## Not modelled

* IPv6 mitigation: it has no FlowSpec, and its ban path repeats the IPv4 one.
  Unicast announcements and the rest of the BGP messages keep no state.
* Scripts, e-mail, Redis and MongoDB, notification and log formatting, the ExaBGP
  pipe, metrics exporters, command line clients: output only.
* Protocol admission: three comparisons, whose outcome the models take as any set
  of protocols.
* NetFlow v5: every packet is decoded by itself with a configured ratio. The
  capture plugins (AF_PACKET, XDP, netmap, pcap) are loops around kernel
  interfaces.
* Of NetFlow v9 and IPFIX: the decoding of single fields and the statistics. Of
  sFlow: the values of interface counters, which the code drops, and the data race
  of several ports' threads on the plain statistics counters.
* Option parsing and the start-up sequence, except the whitelist file and the
  networks that enter the trees.
* Vendored code (`nlohmann/json.hpp`, `fmt`), which is nearly half of all lines,
  and the generated tables of names.

A restart loses the lifecycle table; the installation guide asks for a restart of
`gobgpd` with it.

## Possible extensions

1. `PrefixTree`: an inductive invariant on the links alone (parents, increasing
   bits, sides), from which the searches could be proved without the walk.
2. `LockOrder`: the mutexes held together, for deadlock.
3. Protocol admission, composed with the averages of `TrafficCounters`.
