------------------------ MODULE MCNetflowCollector ------------------------
(* Packets for the NetFlow and IPFIX collectors.                            *)
EXTENDS NetflowCollector

Def(id, length) ==
    [whole |-> TRUE, template_id |-> id, scope_length |-> 0, fields_length |-> length,
     head_length |-> 0, fields |-> 1, variable |-> FALSE, sampling |-> FALSE]

Broken(id)       == [Def(id, 1) EXCEPT !.whole = FALSE]
Sampled(id)      == [Def(id, 1) EXCEPT !.sampling = TRUE]
Scoped(id)       == [Def(id, 1) EXCEPT !.sampling = TRUE, !.scope_length = 1]
Varying(id)      == [Def(id, 2) EXCEPT !.variable = TRUE, !.head_length = 1]
Withdrawn(id)    == [Def(id, 0) EXCEPT !.fields = 0]

Set(kind, length) ==
    [kind |-> kind, cut |-> FALSE, length |-> length, definitions |-> <<>>,
     template_id |-> 1, content |-> "flow", sampling_rate |-> 0, timeouts |-> ZeroTimeouts,
     nested_ratio |-> 0, record_length |-> 2, padding |-> "none"]

Templates(kind, ds) == [Set(kind, 2) EXCEPT !.definitions = ds]
Data(id, length)    == [Set("data", length) EXCEPT !.template_id = id]
Rated(id, length, r) == [Data(id, length) EXCEPT !.sampling_rate = r]

Packet(v, i, sets) ==
    [version |-> v, address |-> "a", source_id |-> i, short |-> FALSE,
     count |-> Len(sets), sets |-> sets]

\* Both protocols: templates that change their length, a template set broken
\* in the middle, data before its template.
Common(v) ==
    {Packet(v, 1, <<Templates("template", <<Def(1, 1)>>)>>),
     Packet(v, 1, <<Data(2, 3), Templates("template", <<Def(1, 2)>>)>>),
     Packet(v, 1, <<Templates("template", <<Def(1, 1), Broken(1)>>), Data(1, 2)>>),
     Packet(v, 1, <<Data(1, 3)>>),
     Packet(v, 2, <<Templates("template", <<Def(1, 3)>>), Data(1, 4)>>),
     Packet(v, 1, <<Templates("options", <<Scoped(2)>>),
                    [Rated(2, 3, 5) EXCEPT !.timeouts = "t"]>>),
     Packet(v, 1, <<Rated(2, 4, 0), Data(1, 3)>>),
     Packet(v, 1, <<Set("reserved", 0), Templates("template", <<Def(2, 1)>>)>>)}

V9Only ==
    {Packet("v9", 1, <<Templates("template", <<Sampled(1)>>),
                       [Rated(1, 3, 7) EXCEPT !.content = "asa"]>>),
     Packet("v9", 1, <<Templates("template", <<Withdrawn(1)>>)>>),
     Packet("v9", 1, <<[Templates("template", <<Def(1, 2)>>) EXCEPT !.padding = "zero"],
                       Data(1, 3)>>),
     Packet("v9", 1, <<[Data(1, 2) EXCEPT !.content = "nat"],
                       [Data(1, 2) EXCEPT !.content = "lite"]>>),
     [Packet("v9", 1, <<Data(1, 2)>>) EXCEPT !.count = 9],
     [Packet("v9", 1, <<Data(1, 2)>>) EXCEPT !.short = TRUE]}

IpfixOnly ==
    {Packet("ipfix", 1, <<Templates("template", <<Varying(1)>>),
                          [Data(1, 5) EXCEPT !.padding = "nonzero"]>>),
     Packet("ipfix", 1, <<[Data(1, 4) EXCEPT !.padding = "nonzero"], Data(1, 2)>>),
     Packet("ipfix", 1, <<Data(1, 3), Templates("template", <<Def(2, 1)>>)>>),
     Packet("ipfix", 1, <<[Templates("options", <<Def(1, 1)>>) EXCEPT !.padding = "zero"],
                          [Templates("options", <<Varying(2)>>) EXCEPT !.padding = "nonzero"]>>),
     Packet("ipfix", 1, <<Templates("template", <<Withdrawn(1)>>), Set("reserved", 1),
                          [Data(1, 2) EXCEPT !.cut = TRUE]>>)}

MCPackets == Common("v9") \cup Common("ipfix") \cup V9Only \cup IpfixOnly
=============================================================================
