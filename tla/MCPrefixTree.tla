---------------------------- MODULE MCPrefixTree ----------------------------
EXTENDS PrefixTree

\* A prefix from its bits and its length.
P(b0, b1, b2, len) == [addr |-> [i \in 0 .. 2 |-> <<b0, b1, b2>>[i + 1]], bitlen |-> len]

\* Nested and disjoint networks that branch at every bit, so that glue hangs below a
\* parent and the walk goes three deep; one with host bits, which a query does not
\* share; a line whose length is past the width; one that is no address at all.
MCLines == {P(0,1,0,0), P(0,0,0,3), P(0,0,1,3), P(0,1,0,3), P(0,1,1,2), P(1,0,1,4),
            Unreadable}

MCQueries == {P(0,1,0,3), P(0,0,1,3), P(0,1,0,2)}
=============================================================================
