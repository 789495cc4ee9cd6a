----------------------------- MODULE PrefixTree -----------------------------
(***************************************************************************)
(* The Patricia tree of src/src/libpatricia/patricia.cpp with the wrappers *)
(* of src/src/ip_lookup_tree.hpp and ip_lookup_tree_with_payload.hpp: the  *)
(* nodes linked by l, r and parent, those that carry a prefix and the glue *)
(* nodes that only branch, and the fixed-size stacks of the traversal and  *)
(* of the best-match search.                                               *)
(*                                                                         *)
(* A node is named by the order of its allocation; Null is 0.  Bytes are   *)
(* abstracted to bits: BIT_TEST(addr[b >> 3], 0x80 >> (b & 7)) is addr[b]. *)
(***************************************************************************)
EXTENDS IpPrefix, FiniteSets, Sequences

CONSTANTS Lines,         \* prefixes in the configuration: their length may exceed MaxBits
          Unreadable,    \* a line of the configuration that is not an address
          Queries,       \* prefixes that are looked up
          Payloads, NoData,
          NoPrefix,      \* the null prefix pointer: of a glue node, of an unreadable line
          MaxNetworks    \* bound: networks in the tree at once

ASSUME LinesAssumption   == Lines \subseteq [addr : Address, bitlen : Nat] \cup {Unreadable}
ASSUME UnreadableAssumption == Unreadable \notin [addr : Address, bitlen : Nat]
ASSUME QueriesAssumption == Queries \subseteq Prefix
ASSUME NoDataAssumption  == NoData \notin Payloads
ASSUME NoPrefixAssumption == NoPrefix \notin Prefix

Null == 0

VARIABLES node,              \* the allocated nodes, in the order of allocation
          head,              \* patricia->head
          num_active_node,   \* patricia->num_active_node
          live_prefixes,     \* prefix_t objects allocated and not yet freed
          asked,             \* the last operation and its arguments
          found,             \* the networks the last operation returned
          running            \* FALSE once an assert of patricia_lookup ended the process

treeVars == <<node, head, num_active_node, live_prefixes, asked, found, running>>

Nodes   == DOMAIN node
Carries(n) == node[n].prefix # NoPrefix

-----------------------------------------------------------------------------
(* Searching *)

\* The child on the side of addr's next bit; a node at maxbits has no next bit.
Child(n, addr) == IF node[n].bit < MaxBits /\ addr[node[n].bit] = 1
                  THEN node[n].r ELSE node[n].l

\* The nodes from n towards p that lie above p.bitlen, and the first one that does not.
Path(p) ==
    LET path[n \in {Null} \cup Nodes] ==
          IF n = Null THEN << >>
          ELSE IF node[n].bit < p.bitlen THEN <<n>> \o path[Child(n, p.addr)]
          ELSE <<n>>
    IN  path[head]

\* The stack of patricia_search_best2 when its descent ends.
SearchStack(p, inclusive) ==
    LET Pushed(n) == Carries(n) /\ (inclusive \/ node[n].bit < p.bitlen)
    IN  SelectSeq(Path(p), Pushed)

\* Mutant: the deepest node on the stack is taken without comparing its bits.
DeepestOnStack(p, inclusive) ==
    LET stack == SearchStack(p, inclusive)
    IN  IF stack = << >> THEN Null ELSE stack[Len(stack)]

patricia_search_best2(p, inclusive) ==
    LET stack == SearchStack(p, inclusive)
        Fits(i) == Covers(node[stack[i]].prefix, p)
        fitting == {i \in DOMAIN stack : Fits(i)}
    IN  IF fitting = {} THEN Null
        ELSE stack[CHOOSE i \in fitting : \A j \in fitting : j <= i]

patricia_search_exact(p) ==
    LET path == Path(p)
        last == path[Len(path)]
    IN  IF /\ path # << >>
           /\ node[last].bit = p.bitlen
           /\ Carries(last)
           /\ comp_with_mask(node[last].prefix.addr, p.addr, p.bitlen)
        THEN last ELSE Null

\* patricia_process and Clear_Patricia: the nodes in the order of the walk.
\* The first element of the argument is Xrn, the rest is Xstack.
Walk ==
    LET walk[s \in Seq(Nodes)] ==
          IF s = << >> THEN << >>
          ELSE LET n == Head(s)
                   Some(m) == IF m = Null THEN << >> ELSE <<m>>
               IN  <<s>> \o walk[Some(node[n].l) \o Some(node[n].r) \o Tail(s)]
    IN  walk[IF head = Null THEN << >> ELSE <<head>>]

Visited == LET walk == Walk IN [i \in DOMAIN walk |-> Head(walk[i])]

-----------------------------------------------------------------------------
(* Inserting: patricia_lookup *)

\* ascii2prefix caps the length at the width of the address, and returns NULL for what
\* inet_pton does not accept.
ascii2prefix(line) ==
    IF line = Unreadable THEN NoPrefix
    ELSE [line EXCEPT !.bitlen = IF @ > MaxBits THEN MaxBits ELSE @]

\* Where the descent of patricia_lookup stops: past p.bitlen it goes on through glue.
StopAt(p) ==
    LET stop[n \in Nodes] ==
          IF /\ node[n].bit < p.bitlen \/ ~Carries(n)
             /\ Child(n, p.addr) # Null
          THEN stop[Child(n, p.addr)] ELSE n
    IN  stop[head]

DifferBit(p) ==
    LET test  == node[StopAt(p)]
        check == IF test.bit < p.bitlen THEN test.bit ELSE p.bitlen
    IN  CHOOSE i \in 0 .. check :
          /\ comp_with_mask(p.addr, test.prefix.addr, i)
          /\ i = check \/ p.addr[i] # test.prefix.addr[i]

\* Mutant: the climb is left out, so the new node is linked below its place.
InsertWithoutClimb(p) == StopAt(p)

\* The topmost node at or below differ_bit on the way back up.
InsertAt(p) ==
    LET differ_bit == DifferBit(p)
        climb[n \in Nodes] ==
          LET parent == node[n].parent
          IN  IF parent # Null /\ node[parent].bit >= differ_bit
              THEN climb[parent] ELSE n
    IN  climb[StopAt(p)]

NewNode(bit, prefix, l, r, parent) ==
    [bit |-> bit, prefix |-> prefix, l |-> l, r |-> r, parent |-> parent, data |-> NoData]

\* make_and_lookup (d is empty) leaves data alone, make_and_lookup_with_data (d holds the
\* pointer, which may be null) assigns it.
WithData(nodes, at, d) == [nodes EXCEPT ![at].data = IF d = << >> THEN @ ELSE d[1]]

Returns(n) == found' = {Network(node'[n].prefix)}

\* nodes replaces the old ones; the last of them is the node that holds p.
Grow(nodes, p, d) ==
    /\ node' = WithData(nodes, Len(node) + 1, d)
    /\ num_active_node' = num_active_node + (Len(nodes) - Len(node))
    /\ live_prefixes' = live_prefixes + 1
    /\ Returns(Len(node) + 1)

InsertHead(p, d) ==
    /\ head = Null
    /\ head' = 1
    /\ Grow(<<NewNode(p.bitlen, p, Null, Null, Null)>>, p, d)

\* The network is there, or its place is held by a glue node.
InsertFound(p, d) ==
    LET at == InsertAt(p)
    IN  /\ head # Null
        /\ DifferBit(p) = p.bitlen
        /\ node[at].bit = p.bitlen
        /\ node' = WithData(IF Carries(at) THEN node
                            ELSE [node EXCEPT ![at].prefix = p], at, d)
        /\ live_prefixes' = live_prefixes + (IF Carries(at) THEN 0 ELSE 1)
        /\ Returns(at)
        /\ UNCHANGED <<head, num_active_node>>

InsertChild(p, d) ==
    LET at == InsertAt(p)
        new == Len(node) + 1
    IN  /\ head # Null
        /\ DifferBit(p) < p.bitlen
        /\ node[at].bit = DifferBit(p)
        /\ Grow(Append(IF node[at].bit < MaxBits /\ p.addr[node[at].bit] = 1
                       THEN [node EXCEPT ![at].r = new]
                       ELSE [node EXCEPT ![at].l = new],
                       NewNode(p.bitlen, p, Null, Null, at)), p, d)
        /\ UNCHANGED head

\* Link top in the place of at, under at's old parent.
Replace(nodes, at, top) ==
    [n \in Nodes |->
        IF n = at THEN [nodes[n] EXCEPT !.parent = top]
        ELSE IF n # nodes[at].parent THEN nodes[n]
        ELSE IF nodes[n].r = at THEN [nodes[n] EXCEPT !.r = top]
        ELSE [nodes[n] EXCEPT !.l = top]]

InsertParent(p, d) ==
    LET at    == InsertAt(p)
        new   == Len(node) + 1
        right == p.bitlen < MaxBits /\ node[StopAt(p)].prefix.addr[p.bitlen] = 1
    IN  /\ head # Null
        /\ DifferBit(p) = p.bitlen
        /\ node[at].bit # p.bitlen
        /\ Grow(Append(Replace(node, at, new),
                       NewNode(p.bitlen, p, IF right THEN Null ELSE at,
                                            IF right THEN at ELSE Null, node[at].parent)), p, d)
        /\ head' = IF node[at].parent = Null THEN new ELSE head

InsertGlue(p, d) ==
    LET at    == InsertAt(p)
        new   == Len(node) + 1
        glue  == Len(node) + 2
        bit   == DifferBit(p)
        right == bit < MaxBits /\ p.addr[bit] = 1
    IN  /\ head # Null
        /\ bit < p.bitlen
        /\ node[at].bit # bit
        /\ Grow(Replace(node, at, glue)
                  \o <<NewNode(p.bitlen, p, Null, Null, glue),
                       NewNode(bit, NoPrefix, IF right THEN at ELSE new,
                                              IF right THEN new ELSE at, node[at].parent)>>, p, d)
        /\ head' = IF node[at].parent = Null THEN glue ELSE head

-----------------------------------------------------------------------------
(* The operations *)

Carrying == {n \in Nodes : Carries(n)}

\* No caller looks at the prefix: assert(prefix) of patricia_lookup, or the first use of
\* the null pointer where asserts are compiled out, ends the process.
NullPrefixAborts(line) ==
    /\ running
    /\ ascii2prefix(line) = NoPrefix
    /\ running' = FALSE
    /\ UNCHANGED <<node, head, num_active_node, live_prefixes, asked, found>>

\* make_and_lookup and make_and_lookup_with_data, IPv4 and IPv6 alike.
make_and_lookup(line, d) ==
    LET p == ascii2prefix(line)
    IN  /\ running
        /\ p # NoPrefix
        /\ Cardinality(Carrying) < MaxNetworks
        /\ asked' = <<"add", p, d>>
        /\ UNCHANGED running
        /\ \/ InsertHead(p, d)
           \/ InsertFound(p, d)
           \/ InsertChild(p, d)
           \/ InsertParent(p, d)
           \/ InsertGlue(p, d)

\* What a caller of a search learns: the network of the node, if there is one.
Answer(n) == found' = IF n = Null THEN {} ELSE {Network(node[n].prefix)}

lookup_network(p, inclusive) ==
    /\ running
    /\ asked' = <<"best", p, inclusive>>
    /\ Answer(patricia_search_best2(p, inclusive))
    /\ UNCHANGED <<node, head, num_active_node, live_prefixes, running>>

lookup_exact(p) ==
    /\ running
    /\ asked' = <<"exact", p>>
    /\ Answer(patricia_search_exact(p))
    /\ UNCHANGED <<node, head, num_active_node, live_prefixes, running>>

NetworksOn(seq) == {Network(node[seq[i]].prefix) : i \in {j \in DOMAIN seq : Carries(seq[j])}}

patricia_process ==
    /\ running
    /\ asked' = <<"process">>
    /\ found' = NetworksOn(Visited)
    /\ UNCHANGED <<node, head, num_active_node, live_prefixes, running>>

\* Every visited node is freed and its prefix dereferenced; the callers
\* drop the pointer to the tree, and the next tree starts empty.
Destroy_Patricia ==
    LET visited == Visited
    IN  /\ running
        /\ head # Null
        /\ asked' = <<"destroy">>
        /\ found' = NetworksOn(visited)
        /\ num_active_node' = num_active_node - Len(visited)
        /\ live_prefixes' = live_prefixes - Len(SelectSeq(visited, Carries))
        /\ node' = << >>
        /\ head' = Null
        /\ UNCHANGED running

TreeInit ==
    /\ node = << >>
    /\ head = Null
    /\ num_active_node = 0
    /\ live_prefixes = 0
    /\ asked = <<"new">>
    /\ found = {}
    /\ running = TRUE

TreeNext ==
    \/ \E line \in Lines :
         \/ \E d \in {<< >>} \cup {<<data>> : data \in Payloads \cup {NoData}} :
              make_and_lookup(line, d)
         \/ NullPrefixAborts(line)
    \/ \E p \in Queries : \/ \E inclusive \in BOOLEAN : lookup_network(p, inclusive)
                          \/ lookup_exact(p)
    \/ patricia_process
    \/ Destroy_Patricia

TreeSpec == TreeInit /\ [][TreeNext]_treeVars

-----------------------------------------------------------------------------
(* Properties *)

Below(n) ==
    LET below[m \in {Null} \cup Nodes] ==
          IF m = Null THEN {} ELSE {m} \cup below[node[m].l] \cup below[node[m].r]
    IN  below[n]

\* A child points back at its parent, branches later, and everything below
\* it takes the side of the parent's bit that the link stands for.
LinkedOn(n, child, side) ==
    child # Null =>
        /\ node[child].parent = n
        /\ node[child].bit > node[n].bit
        /\ \A m \in Below(child) : Carries(m) => node[m].prefix.addr[node[n].bit] = side

\* What the asserts of patricia_lookup and the code after them rely on when
\* the prefix p is inserted: the descent ends at a prefix, a new child takes an empty
\* slot, and a node that gets a new parent hangs where the code looks for it.
InsertSafe(p) ==
    LET at == InsertAt(p)
        up == node[at].parent
    IN  /\ Carries(StopAt(p))
        /\ node[at].bit = DifferBit(p) /\ DifferBit(p) < p.bitlen => Child(at, p.addr) = Null
        /\ IF up = Null THEN head = at ELSE at \in {node[up].l, node[up].r}

\* The tree stays well linked whatever is inserted in whatever order: every
\* node is reached by the walk exactly once, glue nodes branch, no assert of
\* patricia_lookup about the tree can fail when a line that can be read is
\* inserted (assert(prefix) fails for one that cannot), and neither the stack
\* of the walk nor that of the search outgrows its PATRICIA_MAXBITS + 1 slots.
TreeSound ==
    /\ num_active_node = Len(node)
    /\ live_prefixes = Cardinality(Carrying)
    /\ LET walk == Walk
       IN  /\ Len(walk) = Len(node)
           /\ {Head(walk[i]) : i \in DOMAIN walk} = Nodes
           /\ \A i \in DOMAIN walk : Len(walk[i]) - 1 <= MaxBits + 1
    /\ \A n \in Nodes :
          /\ LinkedOn(n, node[n].l, 0)
          /\ LinkedOn(n, node[n].r, 1)
          /\ Carries(n) => node[n].prefix.bitlen = node[n].bit
          /\ ~Carries(n) => Null \notin {node[n].l, node[n].r} /\ node[n].data = NoData
    /\ head # Null => \A line \in Lines \ {Unreadable} : InsertSafe(ascii2prefix(line))
    /\ \A p \in Queries : Len(SearchStack(p, TRUE)) <= MaxBits + 1

\* The tree seen as a table: the networks of the nodes that carry a prefix.
Table ==
    [n \in {Network(node[c].prefix) : c \in Carrying} |->
        node[CHOOSE c \in Carrying : Network(node[c].prefix) = n].data]

Abstract == INSTANCE PrefixSet WITH table <- Table, answer <- found

\* Every insertion, search, walk and destruction of the tree is the operation
\* of the table of networks it stands for: searches return the longest match
\* whatever glue and host bits the tree holds, payloads stay with their
\* network, and the walk visits every network.
ImplementsPrefixSet == Abstract!Spec
=============================================================================
