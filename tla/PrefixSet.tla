----------------------------- MODULE PrefixSet -----------------------------
(***************************************************************************)
(* What the prefix lookup of src/src/libpatricia promises its callers: a   *)
(* table of networks, each with the payload it was last given, that        *)
(* answers exact and longest-match queries and visits every network once.  *)
(* PrefixTree is shown to implement it.                                    *)
(***************************************************************************)
EXTENDS IpPrefix

CONSTANTS Payloads,     \* what a caller may store with a network
          NoData        \* the null payload, also of a network stored without one

VARIABLES table,    \* the networks stored, each with its payload
          asked,    \* the last operation and its arguments
          answer    \* the networks the last operation returned

tableVars == <<table, asked, answer>>

Stored == DOMAIN table

Store(p, d) == table' = [n \in Stored \cup {Network(p)} |->
                            IF n = Network(p) THEN d ELSE table[n]]

\* The longest network that covers p: a set of at most one network.
LongestMatch(p, inclusive) ==
    LET covering == {n \in Stored : Covers(n, p) /\ (inclusive \/ n.bitlen < p.bitlen)}
    IN  {n \in covering : \A m \in covering : m.bitlen <= n.bitlen}

Init == table = << >> /\ asked = <<"new">> /\ answer = {}

\* A network that is already there keeps its payload when none is given.
Add(p) ==
    /\ asked' = <<"add", p, << >>>>
    /\ IF Network(p) \in Stored THEN UNCHANGED table ELSE Store(p, NoData)
    /\ answer' = {Network(p)}

AddWithData(p, d) ==
    /\ asked' = <<"add", p, <<d>>>>
    /\ Store(p, d)
    /\ answer' = {Network(p)}

Best(p, inclusive) ==
    /\ asked' = <<"best", p, inclusive>>
    /\ answer' = LongestMatch(p, inclusive)
    /\ UNCHANGED table

Exact(p) ==
    /\ asked' = <<"exact", p>>
    /\ answer' = {Network(p)} \cap Stored
    /\ UNCHANGED table

Visit ==
    /\ asked' = <<"process">>
    /\ answer' = Stored
    /\ UNCHANGED table

Destroy ==
    /\ asked' = <<"destroy">>
    /\ table' = << >>
    /\ answer' = Stored

Next ==
    \/ \E p \in Prefix : \/ Add(p)
                         \/ \E d \in Payloads \cup {NoData} : AddWithData(p, d)
                         \/ \E inclusive \in BOOLEAN : Best(p, inclusive)
                         \/ Exact(p)
    \/ Visit
    \/ Destroy

Spec == Init /\ [][Next]_tableVars
=============================================================================
