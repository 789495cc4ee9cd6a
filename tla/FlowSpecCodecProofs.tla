------------------------ MODULE FlowSpecCodecProofs ------------------------
(***************************************************************************)
(* Theorems about the codec within FlowSpecRules: the paths of a capture,  *)
(* and what the decoder reads of an NLRI, for every rule.                  *)
(***************************************************************************)
EXTENDS FlowSpecRulesProofs

-----------------------------------------------------------------------------
(* Sequences of octets.                                                    *)

\* Where the elements of a concatenation are.
LEMMA JoinOne ==
    ASSUME NEW S, NEW p \in Seq(S), NEW c \in Seq(S)
    PROVE  /\ p \o c \in Seq(S) /\ Len(p \o c) = Len(p) + Len(c)
           /\ \A i \in 1 .. Len(p) : (p \o c)[i] = p[i]
           /\ \A x \in 1 .. Len(c) : (p \o c)[Len(p) + x] = c[x]
  OBVIOUS

\* Two sequences of one length with the same elements.
LEMMA SameSequence ==
    ASSUME NEW S, NEW s \in Seq(S), NEW t \in Seq(S), Len(s) = Len(t),
           \A i \in 1 .. Len(s) : s[i] = t[i]
    PROVE  s = t
  OBVIOUS

\* A sequence of at most one element that is not empty.
LEMMA SingleElement ==
    ASSUME NEW S, NEW s \in Seq(S), s # << >>, Len(s) <= 1
    PROVE  Len(s) = 1 /\ s[1] \in S /\ s = <<s[1]>>
  <1>1. Len(s) = 1 /\ s[1] \in S
    OBVIOUS
  <1> DEFINE t == <<s[1]>>
  <1>2. t \in Seq(S) /\ Len(t) = 1 /\ t[1] = s[1]
    BY <1>1
  <1> HIDE DEF t
  <1>3. \A i \in 1 .. Len(s) : i = 1
    BY <1>1
  <1>4. Len(s) = Len(t) /\ \A i \in 1 .. Len(s) : s[i] = t[i]
    BY <1>1, <1>2, <1>3
  <1>5. s = t
    BY <1>2, <1>4, SameSequence
  <1> QED BY <1>1, <1>5 DEF t

\* A function on 1 .. n is a sequence of that length.
LEMMA FunctionIsSequence ==
    ASSUME NEW S, NEW n \in Nat, NEW a \in [1 .. n -> S]
    PROVE  a \in Seq(S) /\ Len(a) = n /\ DOMAIN a = 1 .. n
  OBVIOUS

\* The first elements of a sequence.
LEMMA FirstElements ==
    ASSUME NEW S, NEW m \in Seq(S), NEW b \in 0 .. Len(m)
    PROVE  /\ SubSeq(m, 1, b) \in Seq(S) /\ Len(SubSeq(m, 1, b)) = b
           /\ \A i \in 1 .. b : SubSeq(m, 1, b)[i] = m[i]
  OBVIOUS

\* FlattenSeq puts the elements one behind the other.
LEMMA FlattenSteps ==
    ASSUME NEW S, NEW s \in Seq(Seq(S)), s # << >>
    PROVE  \E f \in [1 .. Len(s) -> Seq(S)] :
               /\ f[1] = s[1]
               /\ \A i \in 2 .. Len(s) : f[i] = f[i - 1] \o s[i]
               /\ FlattenSeq(s) = f[Len(s)]
  <1> DEFINE n == Len(s)
             Good(f, m) == /\ f \in [1 .. m -> Seq(S)] /\ f[1] = s[1]
                           /\ \A i \in 2 .. m : f[i] = f[i - 1] \o s[i]
             T == {m \in Nat : m + 1 <= n => \E f : Good(f, m + 1)}
  <1>1. n \in Nat /\ 1 <= n /\ \A i \in 1 .. n : s[i] \in Seq(S)
    OBVIOUS
  <1> HIDE DEF n, Good
  <1>2. 0 \in T
    <2> DEFINE f == [i \in 1 .. 1 |-> s[1]]
    <2>1. f \in [1 .. 1 -> Seq(S)] /\ f[1] = s[1]
      BY <1>1
    <2>2. \A i \in 2 .. 1 : FALSE
      OBVIOUS
    <2> HIDE DEF f
    <2>3. Good(f, 1)
      BY <2>1, <2>2 DEF Good
    <2> QED BY <2>3
  <1>3. ASSUME NEW m \in Nat, m \in T PROVE m + 1 \in T
    <2> SUFFICES ASSUME m + 2 <= n PROVE \E f : Good(f, m + 2)
      <3>1. (m + 1) + 1 = m + 2
        OBVIOUS
      <3> QED BY <3>1
    <2>1. PICK f : Good(f, m + 1)
      BY <1>1, <1>3
    <2>0. /\ f \in [1 .. m + 1 -> Seq(S)] /\ f[1] = s[1]
          /\ \A i \in 2 .. m + 1 : f[i] = f[i - 1] \o s[i]
      BY <2>1 DEF Good
    <2> DEFINE j == f[m + 1] \o s[m + 2]
               h == [i \in 1 .. m + 2 |-> IF i = m + 2 THEN j ELSE f[i]]
    <2>2. f[m + 1] \in Seq(S) /\ s[m + 2] \in Seq(S)
      BY <1>1, <2>0
    <2>3. j \in Seq(S)
      BY <2>2, JoinOne
    <2> HIDE DEF j
    <2>4. \A i \in 1 .. m + 1 : h[i] = f[i] /\ f[i] \in Seq(S)
      BY <2>0
    <2>5. h[m + 2] = j
      OBVIOUS
    <2>6. h \in [1 .. m + 2 -> Seq(S)]
      <3>1. ASSUME NEW i \in 1 .. m + 2 PROVE (IF i = m + 2 THEN j ELSE f[i]) \in Seq(S)
        <4>1. i # m + 2 => i \in 1 .. m + 1
          OBVIOUS
        <4> QED BY <2>3, <2>4, <4>1
      <3> QED BY <3>1
    <2> HIDE DEF h
    <2>7. ASSUME NEW i \in 2 .. m + 2 PROVE h[i] = h[i - 1] \o s[i]
      <3>1. CASE i = m + 2
        <4>1. i - 1 = m + 1 /\ m + 1 \in 1 .. m + 1
          BY <3>1
        <4> QED BY <2>4, <2>5, <3>1, <4>1 DEF j
      <3>2. CASE i # m + 2
        <4>1. i \in 2 .. m + 1 /\ i \in 1 .. m + 1 /\ i - 1 \in 1 .. m + 1
          BY <3>2
        <4> QED BY <2>0, <2>4, <4>1
      <3> QED BY <3>1, <3>2
    <2>8. h[1] = s[1]
      BY <2>0, <2>4
    <2>9. Good(h, m + 2)
      BY <2>6, <2>7, <2>8 DEF Good
    <2> QED BY <2>9
  <1> HIDE DEF T
  <1>4. n - 1 \in T
    <2>1. Nat \subseteq T
      BY <1>2, <1>3, NumberInduction
    <2> QED BY <1>1, <2>1
  <1>50. PICK f : Good(f, n)
    <2>1. (n - 1) + 1 = n
      BY <1>1
    <2> QED BY <1>1, <1>4, <2>1 DEF T
  <1>5. /\ f \in [1 .. n -> Seq(S)] /\ f[1] = s[1]
        /\ \A i \in 2 .. n : f[i] = f[i - 1] \o s[i]
    BY <1>50 DEF Good
  <1> DEFINE body(g) == [i \in 1 .. n |-> IF i = 1 THEN s[i] ELSE g[i - 1] \o s[i]]
             it == CHOOSE g : g = body(g)
  <1>6. FlattenSeq(s) = it[n]
    BY <1>1 DEF FlattenSeq, n
  <1>7. f = body(f)
    <2>1. ASSUME NEW i \in 1 .. n PROVE f[i] = IF i = 1 THEN s[i] ELSE f[i - 1] \o s[i]
      <3>1. CASE i = 1
        BY <1>5, <3>1
      <3>2. CASE i # 1
        <4>1. i \in 2 .. n
          BY <3>2
        <4> QED BY <1>5, <3>2, <4>1
      <3> QED BY <3>1, <3>2
    <2>2. f \in [1 .. n -> Seq(S)]
      BY <1>5
    <2> QED BY <2>1, <2>2
  <1>8. it = body(it)
    <2> HIDE DEF body
    <2> QED BY <1>7
  <1> HIDE DEF it
  <1>9. /\ it[1] = s[1] /\ \A i \in 2 .. n : it[i] = it[i - 1] \o s[i]
        /\ DOMAIN it = 1 .. n /\ it = [i \in 1 .. n |-> it[i]]
    <2>1. it[1] = s[1]
      BY <1>1, <1>8
    <2>2. ASSUME NEW i \in 2 .. n PROVE it[i] = it[i - 1] \o s[i]
      <3>1. i \in 1 .. n /\ i # 1
        BY <1>1
      <3> QED BY <1>8, <3>1
    <2>3. DOMAIN it = 1 .. n /\ it = [i \in 1 .. n |-> it[i]]
      BY <1>8
    <2> QED BY <2>1, <2>2, <2>3
  <1> DEFINE V == {m \in Nat : m + 1 <= n => it[m + 1] \in Seq(S)}
  <1>10. 0 \in V
    BY <1>1, <1>9
  <1>11. ASSUME NEW m \in Nat, m \in V PROVE m + 1 \in V
    <2> SUFFICES ASSUME m + 2 <= n PROVE it[m + 2] \in Seq(S)
      <3>1. (m + 1) + 1 = m + 2
        OBVIOUS
      <3> QED BY <3>1
    <2>1. m + 2 \in 2 .. n /\ (m + 2) - 1 = m + 1 /\ m + 2 \in 1 .. n /\ m + 1 <= n
      BY <1>1
    <2>2. it[m + 2] = it[m + 1] \o s[m + 2]
      BY <1>9, <2>1
    <2>3. it[m + 1] \in Seq(S) /\ s[m + 2] \in Seq(S)
      BY <1>1, <1>11, <2>1
    <2> QED BY <2>2, <2>3, JoinOne
  <1> HIDE DEF V
  <1>12. Nat \subseteq V
    BY <1>10, <1>11, NumberInduction
  <1>13. \A i \in 1 .. n : it[i] \in Seq(S)
    <2> SUFFICES ASSUME NEW i \in 1 .. n PROVE it[i] \in Seq(S)
      OBVIOUS
    <2>1. i - 1 \in V /\ i - 1 \in Nat /\ (i - 1) + 1 = i /\ i <= n
      BY <1>1, <1>12
    <2> QED BY <2>1 DEF V
  <1>14. it \in [1 .. n -> Seq(S)]
    BY <1>9, <1>13
  <1> QED BY <1>6, <1>9, <1>14 DEF n

\* With elements of one length, each has its place.
OfLength(s, v) == \A i \in 1 .. Len(s) : Len(s[i]) = v

InPlaces(q, s, v) ==
    /\ Len(q) = Len(s) * v
    /\ \A i \in 1 .. Len(s) : \A x \in 1 .. v : q[(i - 1) * v + x] = s[i][x]

(***************************************************************************)
(* FlattenSeq of sequences of one length puts element y of the i-th one at *)
(* (i - 1) * w + y.                                                        *)
(***************************************************************************)
LEMMA FlattenPlaces ==
    ASSUME NEW S, NEW v \in Nat, NEW s \in Seq(Seq(S)), s # << >>, OfLength(s, v)
    PROVE  FlattenSeq(s) \in Seq(S) /\ InPlaces(FlattenSeq(s), s, v)
  <1>1. PICK f \in [1 .. Len(s) -> Seq(S)] :
               /\ f[1] = s[1]
               /\ \A i \in 2 .. Len(s) : f[i] = f[i - 1] \o s[i]
               /\ FlattenSeq(s) = f[Len(s)]
    BY FlattenSteps
  <1> DEFINE n == Len(s)
  <1>2. n \in Nat /\ 1 <= n /\ \A i \in 1 .. n : s[i] \in Seq(S) /\ Len(s[i]) = v
    BY DEF OfLength
  <1> HIDE DEF n
  <1> DEFINE Lain(q, m) == /\ Len(q) = m * v
                             /\ \A i \in 1 .. m : \A x \in 1 .. v : q[(i - 1) * v + x] = s[i][x]
             T == {m \in Nat : m + 1 <= n => Lain(f[m + 1], m + 1)}
  <1> HIDE DEF Lain
  <1>3. 0 \in T
    <2>1. f[1] = s[1] /\ Len(s[1]) = v
      BY <1>1, <1>2
    <2>2. 1 * v = v /\ (1 - 1) * v = 0
      OBVIOUS
    <2>3. \A x \in 1 .. v : (1 - 1) * v + x = x
      BY <2>2
    <2>4. \A i \in 1 .. 1 : i = 1
      OBVIOUS
    <2>5. Lain(f[1], 1)
      BY <2>1, <2>2, <2>3, <2>4 DEF Lain
    <2> QED BY <2>5
  <1>4. ASSUME NEW m \in Nat, m \in T PROVE m + 1 \in T
    <2> SUFFICES ASSUME m + 2 <= n PROVE Lain(f[m + 2], m + 2)
      <3>1. (m + 1) + 1 = m + 2
        OBVIOUS
      <3> QED BY <3>1
    <2>1. Lain(f[m + 1], m + 1)
      BY <1>2, <1>4
    <2> DEFINE p == f[m + 1]
               c == s[m + 2]
               o == (m + 1) * v
    <2>2. f[m + 2] = p \o c /\ p \in Seq(S) /\ c \in Seq(S) /\ Len(c) = v
      <3>1. m + 2 \in 2 .. Len(s) /\ m + 1 \in 1 .. Len(s) /\ (m + 2) - 1 = m + 1 /\ m + 2 \in 1 .. n
        BY <1>2 DEF n
      <3> QED BY <1>1, <1>2, <3>1
    <2>3. (m + 2) * v = o + v /\ o \in Nat /\ ((m + 2) - 1) * v = o
      BY SMT
    <2>40. Len(p) = o
      BY <2>1 DEF Lain
    <2>4. Len(p) = o /\ Len(p \o c) = o + v
      <3> HIDE DEF p, c, o
      <3> QED BY <2>2, <2>40, JoinOne
    <2>5. ASSUME NEW i \in 1 .. m + 2, NEW x \in 1 .. v
          PROVE  (p \o c)[(i - 1) * v + x] = s[i][x]
      <3>1. CASE i = m + 2
        <4>1. (i - 1) * v + x = Len(p) + x
          <5>1. (i - 1) * v = o
            BY <2>3, <3>1
          <5> QED BY <2>4, <5>1
        <4>2. (p \o c)[Len(p) + x] = c[x]
          <5> HIDE DEF p, c
          <5> QED BY <2>2, JoinOne
        <4> QED BY <3>1, <4>1, <4>2
      <3>2. CASE i # m + 2
        <4>1. i \in 1 .. m + 1
          BY <3>2
        <4>2. p[(i - 1) * v + x] = s[i][x]
          BY <2>1, <4>1 DEF Lain
        <4>3. (i - 1) * v + x \in 1 .. Len(p)
          <5> DEFINE a == (i - 1) * v
          <5>1. PICK d \in Nat : m + 1 = (i - 1) + 1 + d
            <6>1. m + 1 - i \in Nat /\ m + 1 = (i - 1) + 1 + (m + 1 - i)
              BY <4>1
            <6> QED BY <6>1
          <5>2. o = a + v + d * v /\ a \in Nat /\ d * v \in Nat
            BY <4>1, <5>1, SMT
          <5> DEFINE z == d * v
          <5>3. o = a + v + z /\ a \in Nat /\ z \in Nat /\ o \in Nat
            BY <2>3, <5>2
          <5> HIDE DEF a, o, z
          <5>4. a + x \in 1 .. o
            BY <5>3
          <5> QED BY <2>4, <5>4 DEF a
        <4>4. (p \o c)[(i - 1) * v + x] = p[(i - 1) * v + x]
          <5> HIDE DEF p, c
          <5> QED BY <2>2, <4>3, JoinOne
        <4> QED BY <4>2, <4>4
      <3> QED BY <3>1, <3>2
    <2> HIDE DEF p, c, o
    <2>6. Lain(p \o c, m + 2)
      BY <2>3, <2>4, <2>5 DEF Lain
    <2> QED BY <2>2, <2>6
  <1>5. n - 1 \in T /\ n - 1 \in Nat /\ (n - 1) + 1 = n
    <2> HIDE DEF T
    <2>1. Nat \subseteq T
      BY <1>3, <1>4, NumberInduction
    <2> QED BY <1>2, <2>1
  <1>6. Lain(f[n], n)
    BY <1>2, <1>5
  <1>7. FlattenSeq(s) = f[n] /\ f[n] \in Seq(S)
    BY <1>1, <1>2 DEF n
  <1> QED BY <1>6, <1>7 DEF n, Lain, InPlaces

\* A list of lists of one element.
LEMMA FlattenOnes ==
    ASSUME NEW S, NEW q \in Seq(S), q # << >>, NEW s \in Seq(Seq(S)), Len(s) = Len(q),
           \A i \in 1 .. Len(q) : s[i] = <<q[i]>>
    PROVE  FlattenSeq(s) = q
  <1>1. Len(q) \in Nat /\ 1 <= Len(q) /\ s # << >> /\ \A i \in 1 .. Len(s) : Len(s[i]) = 1
    <2>1. Len(q) \in Nat /\ 1 <= Len(q)
      OBVIOUS
    <2>2. s # << >>
      BY <2>1
    <2>3. \A i \in 1 .. Len(q) : q[i] \in S /\ Len(<<q[i]>>) = 1
      OBVIOUS
    <2> QED BY <2>1, <2>2, <2>3
  <1> DEFINE r == FlattenSeq(s)
             v == 1
  <1>0. v \in Nat /\ OfLength(s, v)
    BY <1>1 DEF OfLength
  <1> HIDE DEF v
  <1>6. /\ r \in Seq(S) /\ Len(r) = Len(s) * v
        /\ \A i \in 1 .. Len(s) : \A x \in 1 .. v : r[(i - 1) * v + x] = s[i][x]
    <2>1. s # << >> /\ v \in Nat /\ OfLength(s, v)
      BY <1>0, <1>1
    <2>2. r \in Seq(S) /\ InPlaces(r, s, v)
      BY <2>1, FlattenPlaces
    <2> QED BY <2>2 DEF InPlaces
  <1>2. /\ r \in Seq(S) /\ Len(r) = Len(s) * 1
        /\ \A i \in 1 .. Len(s) : \A x \in 1 .. 1 : r[(i - 1) * 1 + x] = s[i][x]
    BY <1>6 DEF v
  <1> HIDE DEF r
  <1>3. Len(r) = Len(q)
    BY <1>1, <1>2
  <1>4. ASSUME NEW i \in 1 .. Len(q) PROVE r[i] = q[i]
    <2>1. r[(i - 1) * 1 + 1] = s[i][1]
      BY <1>2
    <2>2. (i - 1) * 1 + 1 = i /\ s[i] = <<q[i]>> /\ <<q[i]>>[1] = q[i]
      OBVIOUS
    <2> QED BY <2>1, <2>2
  <1>5. r = q
    BY <1>2, <1>3, <1>4
  <1> QED BY <1>5 DEF r

\* An octet or two for each value, each behind an operator octet.
Placed(c, type, operator, w, octets) ==
    LET n == Len(octets)
    IN  /\ Len(c) = 1 + n * (1 + w) /\ c[1] = type
        /\ \A i \in 1 .. n :
               /\ c[2 + (i - 1) * (1 + w)] = operator + (IF i = n THEN 128 ELSE 0)
               /\ \A x \in 1 .. w : c[2 + (i - 1) * (1 + w) + x] = octets[i][x]

(***************************************************************************)
(* What Component writes: the type, and for each value an operator octet,  *)
(* with the end-of-list bit on the last, and its octets.                   *)
(***************************************************************************)
LEMMA ComponentPlaces ==
    ASSUME NEW type \in Uint8, NEW operator \in 0 .. 127, NEW w \in {1, 2},
           NEW octets \in Seq([1 .. w -> Uint8]), octets # << >>
    PROVE  /\ Component(type, operator, octets) \in Seq(Uint8)
           /\ Placed(Component(type, operator, octets), type, operator, w, octets)
  <1> DEFINE B == Uint8
             n == Len(octets)
             v == 1 + w
             first(i) == operator + (IF i = n THEN EndOfList ELSE 0)
             s == [i \in DOMAIN octets |-> <<first(i)>> \o octets[i]]
             c == Component(type, operator, octets)
             f == FlattenSeq(s)
  <1>1. n \in Nat /\ 1 <= n /\ DOMAIN octets = 1 .. n /\ w \in Nat /\ v \in Nat
    OBVIOUS
  <1>2. EndOfList = 128
    BY DEF EndOfList
  <1>3. \A i \in 1 .. n : first(i) \in B /\ first(i) = operator + (IF i = n THEN 128 ELSE 0)
    <2> SUFFICES ASSUME NEW i \in 1 .. n
                 PROVE  first(i) \in B /\ first(i) = operator + (IF i = n THEN 128 ELSE 0)
      OBVIOUS
    <2>1. first(i) = operator + (IF i = n THEN 128 ELSE 0)
      BY <1>2
    <2>2. operator + 128 \in B /\ operator + 0 \in B
      BY DEF Uint8
    <2> HIDE DEF B, first
    <2> QED BY <2>1, <2>2
  <1>4. \A i \in 1 .. n : octets[i] \in Seq(B) /\ Len(octets[i]) = w
    <2> SUFFICES ASSUME NEW i \in 1 .. n PROVE octets[i] \in Seq(B) /\ Len(octets[i]) = w
      OBVIOUS
    <2>1. octets[i] \in [1 .. w -> B]
      BY <1>1
    <2> HIDE DEF B
    <2> QED BY <1>1, <2>1
  <1> HIDE DEF first, B, n, v
  <1>5. \A i \in 1 .. n :
            /\ s[i] \in Seq(B) /\ Len(s[i]) = v /\ s[i][1] = first(i)
            /\ \A x \in 1 .. w : s[i][1 + x] = octets[i][x]
    <2> SUFFICES ASSUME NEW i \in 1 .. n
                 PROVE  /\ s[i] \in Seq(B) /\ Len(s[i]) = v /\ s[i][1] = first(i)
                        /\ \A x \in 1 .. w : s[i][1 + x] = octets[i][x]
      OBVIOUS
    <2> DEFINE one == <<first(i)>>
    <2>1. one \in Seq(B) /\ Len(one) = 1 /\ one[1] = first(i)
      BY <1>3
    <2>2. s[i] = one \o octets[i]
      BY <1>1
    <2> HIDE DEF one, s
    <2>3. /\ one \o octets[i] \in Seq(B) /\ Len(one \o octets[i]) = 1 + w
          /\ (one \o octets[i])[1] = one[1]
          /\ \A x \in 1 .. w : (one \o octets[i])[1 + x] = octets[i][x]
      <3>1. /\ one \o octets[i] \in Seq(B) /\ Len(one \o octets[i]) = Len(one) + Len(octets[i])
            /\ \A y \in 1 .. Len(one) : (one \o octets[i])[y] = one[y]
            /\ \A x \in 1 .. Len(octets[i]) : (one \o octets[i])[Len(one) + x] = octets[i][x]
        <4>1. octets[i] \in Seq(B) /\ one \in Seq(B)
          BY <1>4, <2>1
        <4> QED BY <4>1, JoinOne
      <3> QED BY <1>4, <2>1, <3>1
    <2> QED BY <2>1, <2>2, <2>3 DEF v
  <1>6. s \in Seq(Seq(B)) /\ Len(s) = n /\ s # << >>
    <2>1. DOMAIN s = 1 .. n /\ s = [i \in 1 .. n |-> s[i]]
      BY <1>1
    <2> HIDE DEF s
    <2>2. s \in [1 .. n -> Seq(B)]
      BY <1>5, <2>1
    <2> QED BY <1>1, <2>2
  <1>7. /\ f \in Seq(B) /\ Len(f) = n * v
        /\ \A i \in 1 .. n : \A x \in 1 .. v : f[(i - 1) * v + x] = s[i][x]
    <2>1. OfLength(s, v)
      BY <1>5, <1>6 DEF OfLength
    <2> HIDE DEF s
    <2>2. /\ f \in Seq(B) /\ Len(f) = Len(s) * v
          /\ \A i \in 1 .. Len(s) : \A x \in 1 .. v : f[(i - 1) * v + x] = s[i][x]
      <3>1. s \in Seq(Seq(B)) /\ s # << >> /\ v \in Nat
        BY <1>1, <1>6
      <3>2. f \in Seq(B) /\ InPlaces(f, s, v)
        BY <2>1, <3>1, FlattenPlaces
      <3> QED BY <3>2 DEF InPlaces
    <2> QED BY <1>6, <2>2
  <1>8. c = <<type>> \o f
    BY DEF Component, n, first
  <1> HIDE DEF f, s, c
  <1>9. <<type>> \in Seq(B) /\ Len(<<type>>) = 1 /\ <<type>>[1] = type
    BY DEF B
  <1>10. n * v \in Nat
    BY <1>1, ProductOrder
  <1>11. /\ c \in Seq(B) /\ Len(c) = 1 + n * v /\ c[1] = type
         /\ \A y \in 1 .. n * v : c[1 + y] = f[y]
    <2> DEFINE one == <<type>>
               l == n * v
    <2> HIDE DEF one
    <2>1. /\ one \o f \in Seq(B) /\ Len(one \o f) = Len(one) + Len(f)
          /\ \A y \in 1 .. Len(one) : (one \o f)[y] = one[y]
          /\ \A x \in 1 .. Len(f) : (one \o f)[Len(one) + x] = f[x]
      BY <1>7, <1>9, JoinOne DEF one
    <2>2. Len(one) = 1 /\ one[1] = type /\ c = one \o f /\ Len(f) = l
      BY <1>7, <1>8, <1>9 DEF one
    <2> HIDE DEF l
    <2>3. c \in Seq(B) /\ Len(c) = 1 + l /\ c[1] = type /\ \A y \in 1 .. l : c[1 + y] = f[y]
      BY <2>1, <2>2
    <2> QED BY <2>3 DEF l
  <1>12. ASSUME NEW i \in 1 .. n, NEW x \in 1 .. v
         PROVE  c[1 + ((i - 1) * v + x)] = s[i][x]
    <2> DEFINE a == (i - 1) * v
               l == n * v
    <2>1. a + x \in 1 .. l
      <3>1. PICK d \in Nat : n = (i - 1) + 1 + d
        <4>1. n - i \in Nat /\ n = (i - 1) + 1 + (n - i)
          BY <1>1
        <4> QED BY <4>1
      <3>2. l = a + v + d * v /\ a \in Nat /\ d * v \in Nat
        BY <1>1, <3>1, SMT
      <3> DEFINE z == d * v
      <3>3. l = a + v + z /\ a \in Nat /\ z \in Nat /\ l \in Nat
        BY <1>10, <3>2
      <3> HIDE DEF a, l, z
      <3> QED BY <1>1, <3>3
    <2>2. f[a + x] = s[i][x]
      BY <1>7
    <2> HIDE DEF a, l
    <2>3. c[1 + (a + x)] = s[i][x]
      BY <1>11, <2>1, <2>2 DEF l
    <2> QED BY <2>3 DEF a
  <1>13. ASSUME NEW i \in 1 .. n
         PROVE  /\ c[2 + (i - 1) * v] = first(i)
                /\ \A x \in 1 .. w : c[2 + (i - 1) * v + x] = octets[i][x]
    <2> DEFINE a == (i - 1) * v
    <2>1. a \in Nat
      BY <1>1, ProductOrder
    <2>2. \A x \in 1 .. v : c[1 + (a + x)] = s[i][x]
      BY <1>12
    <2> HIDE DEF a
    <2>3. 1 \in 1 .. v /\ 1 + (a + 1) = 2 + a
      BY <1>1, <2>1 DEF v
    <2>4. \A x \in 1 .. w : 1 + x \in 1 .. v /\ 1 + (a + (1 + x)) = 2 + a + x
      BY <1>1, <2>1 DEF v
    <2>5. c[2 + a] = first(i)
      BY <1>5, <2>2, <2>3
    <2>6. \A x \in 1 .. w : c[2 + a + x] = octets[i][x]
      BY <1>5, <2>2, <2>4
    <2> QED BY <2>5, <2>6 DEF a
  <1> QED BY <1>3, <1>11, <1>13 DEF c, n, v, B, Placed

-----------------------------------------------------------------------------
(* What an octet says.                                                     *)

\* The sum of some numbers, as MapThenSumSet takes it: one element after the other.
SumOver(w, I) ==
    LET Some(s) == CHOOSE x \in s : TRUE
        iter == CHOOSE h : h = [s \in SUBSET I |-> IF s = {} THEN 0 ELSE w[Some(s)] + h[s \ {Some(s)}]]
    IN  iter[I]

\* MapThenSumSet adds up one summand per element.
LEMMA SumSetIsSum ==
    ASSUME NEW D, IsFiniteSet(D), NEW w \in [D -> Nat], NEW g, IsSum(g, D, w), NEW I \in SUBSET D
    PROVE  SumOver(w, I) = g[I]
  <1> DEFINE Some(s) == CHOOSE x \in s : TRUE
             body(h) == [s \in SUBSET I |-> IF s = {} THEN 0 ELSE w[Some(s)] + h[s \ {Some(s)}]]
             iter == CHOOSE h : h = body(h)
             k == [s \in SUBSET I |-> g[s]]
  <1>1. SumOver(w, I) = iter[I]
    BY DEF SumOver
  <1>2. \A s \in SUBSET I : s # {} => Some(s) \in s
    OBVIOUS
  <1> HIDE DEF Some
  <1>3. \A s \in SUBSET I : s # {} => g[s] = w[Some(s)] + g[s \ {Some(s)}]
    BY <1>2 DEF IsSum
  <1>4. k = body(k)
    <2>1. ASSUME NEW s \in SUBSET I
          PROVE  g[s] = IF s = {} THEN 0 ELSE w[Some(s)] + k[s \ {Some(s)}]
      <3>1. CASE s = {}
        BY <3>1 DEF IsSum
      <3>2. CASE s # {}
        <4>1. k[s \ {Some(s)}] = g[s \ {Some(s)}]
          OBVIOUS
        <4> HIDE DEF k
        <4> QED BY <1>2, <1>3, <3>2, <4>1
      <3> QED BY <3>1, <3>2
    <2> QED BY <2>1
  <1>5. iter = body(iter)
    <2>1. \E h : h = body(h)
      BY <1>4
    <2> QED BY <2>1
  <1> HIDE DEF iter, k
  <1>6. \A s \in SUBSET I : iter[s] = IF s = {} THEN 0 ELSE w[Some(s)] + iter[s \ {Some(s)}]
    BY <1>5
  <1> DEFINE T == {s \in SUBSET I : iter[s] = g[s]}
  <1>7. ASSUME NEW s \in SUBSET I, \A x \in s : s \ {x} \in T
        PROVE  iter[s] = g[s]
    <2>1. CASE s = {}
      BY <1>6, <2>1 DEF IsSum
    <2>2. CASE s # {}
      <3>1. Some(s) \in s /\ iter[s] = w[Some(s)] + iter[s \ {Some(s)}]
        BY <1>2, <1>6, <2>2
      <3>2. iter[s \ {Some(s)}] = g[s \ {Some(s)}]
        BY <1>7, <3>1
      <3> QED BY <1>3, <2>2, <3>1, <3>2
    <2> QED BY <2>1, <2>2
  <1>8. IsFiniteSet(I)
    BY FS_Subset
  <1>9. ClosedUnder(I, T)
    BY <1>7 DEF ClosedUnder
  <1> HIDE DEF T
  <1>10. SUBSET I \subseteq T
    BY <1>8, <1>9, SubsetInduction
  <1>11. iter[I] = g[I]
    BY <1>10 DEF T
  <1> QED BY <1>1, <1>11

-----------------------------------------------------------------------------
(* The rules of a capture.                                                 *)

Match(m) == m[1] \in DOMAIN ProtocolNumber /\ m[2] \in Uint16

MatchPath(p) ==
    \E m : \E action \in ConfiguredActions :
        Match(m) /\ p = AnnounceFlowSpecIPv4(RuleFor(m[1], m[2], action))

\* A protocol the builder knows, if any, and a port only behind one.
MatchLists(p, d) ==
    /\ p \in Seq(Uint8) /\ d \in Seq(Uint16)
    /\ \/ p = << >> /\ d = << >>
       \/ \E x \in Uint8 : p = <<x>> /\ (d = << >> \/ \E y \in Uint16 : d = <<y>>)

\* What the builder fills of a rule.
LEMMA RuleOfMatch ==
    ASSUME NEW m, Match(m), NEW action \in ConfiguredActions
    PROVE  LET rule == RuleFor(m[1], m[2], action)
           IN  /\ rule.destination_subnet_ipv4 = <<[subnet_address |-> client_ip, cidr_prefix_length |-> 32]>>
               /\ \A f \in {"source_subnet_ipv4", "source_ports", "tcp_flags", "packet_lengths",
                            "fragmentation_flags"} : rule[f] = << >>
               /\ MatchLists(rule.protocols, rule.destination_ports)
               /\ rule.action = [Accept EXCEPT !.type = action.type, !.redirect_rt_as = action.redirect_rt_as,
                                               !.redirect_rt_value = action.redirect_rt_value]
               /\ rule.ipv4_nexthops = IF action.type = "FLOW_SPEC_ACTION_REDIRECT"
                                       THEN <<action.redirect_ipv4>> ELSE << >>
               /\ DOMAIN rule = DOMAIN EmptyRule
  <1> DEFINE rule == RuleFor(m[1], m[2], action)
             number == ProtocolNumber[m[1]]
             port == IF m[2] = 0 THEN << >> ELSE <<m[2]>>
             subnets == <<[subnet_address |-> client_ip, cidr_prefix_length |-> 32]>>
             what == [Accept EXCEPT !.type = action.type, !.redirect_rt_as = action.redirect_rt_as,
                                    !.redirect_rt_value = action.redirect_rt_value]
             nexthops == IF action.type = "FLOW_SPEC_ACTION_REDIRECT" THEN <<action.redirect_ipv4>> ELSE << >>
             protocols == IF number \in {ICMP, TCPProtocol, UDP} THEN <<number>> ELSE << >>
             ports == IF number \in {TCPProtocol, UDP} THEN port ELSE << >>
  <1>1. rule = [EmptyRule EXCEPT !.destination_subnet_ipv4 = subnets, !.action = what,
                    !.ipv4_nexthops = nexthops, !.protocols = protocols, !.destination_ports = ports]
    BY DEF RuleFor, build_gobgp_flowspec_ipv4_rule
  <1>2. \A f \in DOMAIN EmptyRule : f # "action" => EmptyRule[f] = << >>
    BY DEF EmptyRule
  <1>3. {"destination_subnet_ipv4", "source_subnet_ipv4", "source_ports", "tcp_flags", "packet_lengths",
         "fragmentation_flags", "action", "ipv4_nexthops", "protocols", "destination_ports"}
        \subseteq DOMAIN EmptyRule
    BY RuleDomain DEF SubnetFields, VectorFields
  <1>4. number \in {1, 6, 17, 47}
    <2>1. m[1] \in {"ICMP", "TCP", "UDP", "GRE"}
      BY DEF Match, ProtocolNumber
    <2> QED BY <2>1 DEF ProtocolNumber, ICMP, TCPProtocol, UDP
  <1>5. MatchLists(protocols, ports)
    <2>1. m[2] \in Uint16
      BY DEF Match
    <2>2. port = << >> \/ port = <<m[2]>>
      OBVIOUS
    <2> HIDE DEF port, number
    <2>3. protocols = << >> => ports = << >>
      OBVIOUS
    <2>4. number \in Uint8
      BY <1>4 DEF Uint8
    <2>5. \/ protocols = << >> /\ ports = << >>
          \/ protocols = <<number>> /\ (ports = << >> \/ ports = <<m[2]>>)
      BY <2>2, <2>3
    <2> HIDE DEF protocols, ports
    <2>7. \A S : << >> \in Seq(S) /\ \A x \in S : <<x>> \in Seq(S)
      OBVIOUS
    <2>6. protocols \in Seq(Uint8) /\ ports \in Seq(Uint16)
      BY <2>1, <2>4, <2>5, <2>7
    <2> QED BY <2>1, <2>4, <2>5, <2>6 DEF MatchLists
  <1> HIDE DEF rule, subnets, what, nexthops, protocols, ports
  <1>6. /\ rule.destination_subnet_ipv4 = subnets /\ rule.action = what /\ rule.ipv4_nexthops = nexthops
        /\ rule.protocols = protocols /\ rule.destination_ports = ports
    BY <1>1, <1>3
  <1>7. \A f \in {"source_subnet_ipv4", "source_ports", "tcp_flags", "packet_lengths",
                  "fragmentation_flags"} : rule[f] = << >>
    BY <1>1, <1>2, <1>3
  <1>8. DOMAIN rule = DOMAIN EmptyRule
    BY <1>1
  <1> QED BY <1>5, <1>6, <1>7, <1>8 DEF rule, subnets, what, nexthops

-----------------------------------------------------------------------------
(* Where the components of an NLRI are.                                    *)

\* Eight parts and their lengths.
Parted(P, S, l) == l \in [1 .. 8 -> Nat] /\ \A k \in 1 .. 8 : P[k] \in Seq(S) /\ Len(P[k]) = l[k]

\* e[k] is where the k-th part ends.
Ends(e, l) == e \in [0 .. 8 -> Nat] /\ e[0] = 0 /\ \A k \in 1 .. 8 : e[k] = e[k - 1] + l[k]

Laid(s, S, e, l, P, n) ==
    /\ s \in Seq(S) /\ Len(s) = e[n]
    /\ \A k \in 1 .. n : \A x \in 1 .. l[k] : s[e[k - 1] + x] = P[k][x]

\* The parts end in their order.
LEMMA EndsOrdered ==
    ASSUME NEW l \in [1 .. 8 -> Nat], NEW e \in [0 .. 8 -> Nat], Ends(e, l)
    PROVE  \A k \in 0 .. 8 : \A j \in 0 .. k : e[j] <= e[k]
  <1>2. \A k \in 1 .. 8 : e[k - 1] <= e[k]
    BY DEF Ends
  <1> DEFINE T == {k \in Nat : k <= 8 => \A j \in 0 .. k : e[j] <= e[k]}
  <1>3. 0 \in T
    OBVIOUS
  <1>4. ASSUME NEW k \in Nat, k \in T PROVE k + 1 \in T
    <2> SUFFICES ASSUME k + 1 <= 8, NEW j \in 0 .. k + 1 PROVE e[j] <= e[k + 1]
      OBVIOUS
    <2>1. CASE j = k + 1
      BY <2>1
    <2>2. CASE j # k + 1
      <3>1. j \in 0 .. k /\ k \in 0 .. 8 /\ k + 1 \in 1 .. 8 /\ (k + 1) - 1 = k
        BY <2>2
      <3>2. e[j] <= e[k] /\ e[k] <= e[k + 1]
        BY <1>2, <1>4, <3>1
      <3> QED BY <3>1, <3>2
    <2> QED BY <2>1, <2>2
  <1> HIDE DEF T
  <1>5. Nat \subseteq T
    BY <1>3, <1>4, NumberInduction
  <1>6. \A k \in 0 .. 8 : k \in T
    BY <1>5
  <1> QED BY <1>6 DEF T

\* One part more.
LEMMA LaidOneMore ==
    ASSUME NEW S, NEW P, NEW l \in [1 .. 8 -> Nat], Parted(P, S, l), NEW e \in [0 .. 8 -> Nat], Ends(e, l),
           NEW n \in 1 .. 7, NEW s, Laid(s, S, e, l, P, n)
    PROVE  Laid(s \o P[n + 1], S, e, l, P, n + 1)
  <1> DEFINE p == P[n + 1]
  <1>0. n + 1 \in 1 .. 8 /\ (n + 1) - 1 = n /\ n \in 0 .. 8
    OBVIOUS
  <1>1. p \in Seq(S) /\ s \in Seq(S) /\ Len(s) = e[n] /\ Len(p) = l[n + 1]
    BY <1>0 DEF Laid, Parted
  <1> HIDE DEF p
  <1>2. /\ s \o p \in Seq(S) /\ Len(s \o p) = Len(s) + Len(p)
        /\ \A i \in 1 .. Len(s) : (s \o p)[i] = s[i]
        /\ \A x \in 1 .. Len(p) : (s \o p)[Len(s) + x] = p[x]
    <2>1. p \in Seq(S) /\ s \in Seq(S)
      BY <1>1
    <2> QED BY <2>1, JoinOne
  <1>20. /\ s \o p \in Seq(S) /\ Len(s \o p) = e[n] + l[n + 1]
         /\ \A i \in 1 .. e[n] : (s \o p)[i] = s[i]
         /\ \A x \in 1 .. l[n + 1] : (s \o p)[e[n] + x] = p[x]
    BY <1>1, <1>2
  <1>3. e[n + 1] = e[n] + l[n + 1]
    BY <1>0 DEF Ends
  <1>4. ASSUME NEW k \in 1 .. n + 1, NEW x \in 1 .. l[k]
        PROVE  (s \o p)[e[k - 1] + x] = P[k][x]
    <2>1. CASE k = n + 1
      <3>1. k - 1 = n
        BY <2>1
      <3> QED BY <1>20, <2>1, <3>1 DEF p
    <2>2. CASE k # n + 1
      <3>1. k \in 1 .. n /\ k \in 1 .. 8 /\ k \in 0 .. 8 /\ n \in 0 .. 8 /\ k \in 0 .. n /\ k - 1 \in 0 .. 8
        BY <2>2
      <3>2. e[k] <= e[n]
        BY <3>1, EndsOrdered
      <3>3. e[k] = e[k - 1] + l[k]
        BY <3>1 DEF Ends
      <3>4. e[k - 1] + x \in 1 .. e[n]
        BY <3>1, <3>2, <3>3
      <3>5. s[e[k - 1] + x] = P[k][x]
        BY <3>1 DEF Laid
      <3> QED BY <1>20, <3>4, <3>5
    <2> QED BY <2>1, <2>2
  <1> QED BY <1>20, <1>3, <1>4 DEF Laid, p

\* Eight parts behind one another.
LEMMA LaidOut ==
    ASSUME NEW S, NEW P, NEW l \in [1 .. 8 -> Nat], Parted(P, S, l)
    PROVE  \E e \in [0 .. 8 -> Nat] :
               /\ Ends(e, l)
               /\ Laid(P[1] \o P[2] \o P[3] \o P[4] \o P[5] \o P[6] \o P[7] \o P[8], S, e, l, P, 8)
  <1> DEFINE e == [k \in 0 .. 8 |-> (IF k >= 1 THEN l[1] ELSE 0) + (IF k >= 2 THEN l[2] ELSE 0)
                                    + (IF k >= 3 THEN l[3] ELSE 0) + (IF k >= 4 THEN l[4] ELSE 0)
                                    + (IF k >= 5 THEN l[5] ELSE 0) + (IF k >= 6 THEN l[6] ELSE 0)
                                    + (IF k >= 7 THEN l[7] ELSE 0) + (IF k >= 8 THEN l[8] ELSE 0)]
  <1>1. e \in [0 .. 8 -> Nat]
    OBVIOUS
  <1>2. /\ e[0] = 0 /\ e[1] = l[1] /\ e[2] = e[1] + l[2] /\ e[3] = e[2] + l[3] /\ e[4] = e[3] + l[4]
        /\ e[5] = e[4] + l[5] /\ e[6] = e[5] + l[6] /\ e[7] = e[6] + l[7] /\ e[8] = e[7] + l[8]
    OBVIOUS
  <1> HIDE DEF e
  <1>4. \A k \in 1 .. 8 : k = 1 \/ k = 2 \/ k = 3 \/ k = 4 \/ k = 5 \/ k = 6 \/ k = 7 \/ k = 8
    OBVIOUS
  <1>5. \A k \in 1 .. 8 : e[k] = e[k - 1] + l[k]
    <2>1. e[1] = e[0] + l[1]
      BY <1>2
    <2> QED BY <1>2, <1>4, <2>1
  <1>6. Ends(e, l)
    BY <1>1, <1>2, <1>5 DEF Ends
  <1>7. Laid(P[1], S, e, l, P, 1)
    <2>0. 1 \in 1 .. 8
      OBVIOUS
    <2>4. P[1] \in Seq(S) /\ Len(P[1]) = l[1]
      BY <2>0 DEF Parted
    <2>1. P[1] \in Seq(S) /\ Len(P[1]) = e[1]
      BY <1>2, <2>4
    <2>2. \A k \in 1 .. 1 : k = 1 /\ k - 1 = 0
      OBVIOUS
    <2>3. \A x \in 1 .. l[1] : e[0] + x = x
      BY <1>2
    <2> QED BY <2>1, <2>2, <2>3 DEF Laid
  <1> DEFINE s2 == P[1] \o P[2]
             s3 == s2 \o P[3]
             s4 == s3 \o P[4]
             s5 == s4 \o P[5]
             s6 == s5 \o P[6]
             s7 == s6 \o P[7]
             s8 == s7 \o P[8]
  <1>8. ASSUME NEW n \in 1 .. 7, NEW s, Laid(s, S, e, l, P, n) PROVE Laid(s \o P[n + 1], S, e, l, P, n + 1)
    BY <1>1, <1>6, <1>8, LaidOneMore
  <1>9. 1 + 1 = 2 /\ 2 + 1 = 3 /\ 3 + 1 = 4 /\ 4 + 1 = 5 /\ 5 + 1 = 6 /\ 6 + 1 = 7 /\ 7 + 1 = 8
    OBVIOUS
  <1>10. Laid(s2, S, e, l, P, 2)
    BY <1>7, <1>8, <1>9
  <1> HIDE DEF s2
  <1>11. Laid(s3, S, e, l, P, 3)
    BY <1>8, <1>9, <1>10
  <1> HIDE DEF s3
  <1>12. Laid(s4, S, e, l, P, 4)
    BY <1>8, <1>9, <1>11
  <1> HIDE DEF s4
  <1>13. Laid(s5, S, e, l, P, 5)
    BY <1>8, <1>9, <1>12
  <1> HIDE DEF s5
  <1>14. Laid(s6, S, e, l, P, 6)
    BY <1>8, <1>9, <1>13
  <1> HIDE DEF s6
  <1>15. Laid(s7, S, e, l, P, 7)
    BY <1>8, <1>9, <1>14
  <1> HIDE DEF s7
  <1>16. Laid(s8, S, e, l, P, 8)
    BY <1>8, <1>9, <1>15
  <1> QED BY <1>1, <1>6, <1>16 DEF s2, s3, s4, s5, s6, s7, s8

-----------------------------------------------------------------------------
(* Flags, fragments and masks.                                             *)

\* One bit of the octet.
Bit(flags, flag, bit) == IF flag \in flags THEN bit ELSE 0

FlagsOctet(flags) ==
    Bit(flags, "fin", 1) + Bit(flags, "syn", 2) + Bit(flags, "rst", 4)
    + Bit(flags, "psh", 8) + Bit(flags, "ack", 16) + Bit(flags, "urg", 32)

\* The encoded flags are the sum of their bits.
LEMMA FlagsEncoded ==
    ASSUME NEW flags \in SUBSET TcpFlags
    PROVE  return_in_one_byte_encoding(flags) = FlagsOctet(flags)
  <1> DEFINE w == flag_bit
             g == [s \in SUBSET TcpFlags |-> FlagsOctet(s)]
  <1>1. \A flag \in TcpFlags : flag_bit[flag] \in Nat
    BY DEF TcpFlags, flag_bit
  <1>2. w \in [TcpFlags -> Nat]
    BY DEF TcpFlags, flag_bit
  <1>3. IsFiniteSet(TcpFlags)
    <2> USE FS_EmptySet, FS_AddElement
    <2>1. IsFiniteSet({} \cup {"fin"})
      OBVIOUS
    <2>2. IsFiniteSet(({} \cup {"fin"}) \cup {"syn"})
      BY <2>1
    <2>3. IsFiniteSet((({} \cup {"fin"}) \cup {"syn"}) \cup {"rst"})
      BY <2>2
    <2>4. IsFiniteSet(((({} \cup {"fin"}) \cup {"syn"}) \cup {"rst"}) \cup {"psh"})
      BY <2>3
    <2>5. IsFiniteSet((((({} \cup {"fin"}) \cup {"syn"}) \cup {"rst"}) \cup {"psh"}) \cup {"ack"})
      BY <2>4
    <2>6. IsFiniteSet(((((({} \cup {"fin"}) \cup {"syn"}) \cup {"rst"}) \cup {"psh"}) \cup {"ack"}) \cup {"urg"})
      BY <2>5
    <2>7. TcpFlags = (((((({} \cup {"fin"}) \cup {"syn"}) \cup {"rst"}) \cup {"psh"}) \cup {"ack"}) \cup {"urg"})
      BY DEF TcpFlags
    <2> QED BY <2>6, <2>7
  <1>4. FlagsOctet({}) = 0
    BY DEF FlagsOctet, Bit
  <1>5. ASSUME NEW s \in SUBSET TcpFlags, NEW flag \in s
        PROVE  FlagsOctet(s) = flag_bit[flag] + FlagsOctet(s \ {flag})
    <2>1. flag \in {"fin", "syn", "rst", "psh", "ack", "urg"}
      BY DEF TcpFlags
    <2>2. \A x : x \in s \ {flag} <=> x \in s /\ x # flag
      OBVIOUS
    <2> QED BY <2>1, <2>2 DEF FlagsOctet, Bit, flag_bit
  <1>6. ASSUME NEW s \in SUBSET TcpFlags PROVE FlagsOctet(s) \in Nat
    BY DEF FlagsOctet, Bit
  <1>7. IsSum(g, TcpFlags, w)
    BY <1>1, <1>4, <1>5, <1>6 DEF IsSum
  <1>9. return_in_one_byte_encoding(flags) = SumOver(w, flags)
    BY DEF return_in_one_byte_encoding, MapThenSumSet, MapThenFoldSet, SumOver
  <1> HIDE DEF w, g
  <1>8. SumOver(w, flags) = g[flags]
    BY <1>2, <1>3, <1>7, SumSetIsSum
  <1> QED BY <1>8, <1>9 DEF g

\* The flags that are read from the octet are the flags it was made of.
LEMMA FlagsDecoded ==
    ASSUME NEW flags \in SUBSET TcpFlags
    PROVE  /\ FlagsOctet(flags) \in 0 .. 63
           /\ convert_one_byte_encoding_to_flowset(FlagsOctet(flags)) = flags
  <1> DEFINE a == IF "fin" \in flags THEN 1 ELSE 0
             b == IF "syn" \in flags THEN 1 ELSE 0
             c == IF "rst" \in flags THEN 1 ELSE 0
             d == IF "psh" \in flags THEN 1 ELSE 0
             e == IF "ack" \in flags THEN 1 ELSE 0
             f == IF "urg" \in flags THEN 1 ELSE 0
             v == FlagsOctet(flags)
  <1>1. a \in {0, 1} /\ b \in {0, 1} /\ c \in {0, 1} /\ d \in {0, 1} /\ e \in {0, 1} /\ f \in {0, 1}
    OBVIOUS
  <1>2. v = a + 2 * b + 4 * c + 8 * d + 16 * e + 32 * f
    BY DEF FlagsOctet, Bit
  <1>3. /\ "fin" \in flags <=> a = 1
        /\ "syn" \in flags <=> b = 1
        /\ "rst" \in flags <=> c = 1
        /\ "psh" \in flags <=> d = 1
        /\ "ack" \in flags <=> e = 1
        /\ "urg" \in flags <=> f = 1
    OBVIOUS
  <1> HIDE DEF a, b, c, d, e, f, v
  <1>4. v \in 0 .. 63
    BY <1>1, <1>2
  <1>5. /\ v \div 1 = a + 2 * (b + 2 * c + 4 * d + 8 * e + 16 * f)
        /\ v \div 2 = b + 2 * (c + 2 * d + 4 * e + 8 * f)
        /\ v \div 4 = c + 2 * (d + 2 * e + 4 * f)
        /\ v \div 8 = d + 2 * (e + 2 * f)
        /\ v \div 16 = e + 2 * f
        /\ v \div 32 = f + 2 * 0
    BY <1>1, <1>2
  <1>6. \A x \in {0, 1} : \A y \in Nat : (x + 2 * y) % 2 = x
    OBVIOUS
  <1>7. /\ Has(v, 1) <=> a = 1
        /\ Has(v, 2) <=> b = 1
        /\ Has(v, 4) <=> c = 1
        /\ Has(v, 8) <=> d = 1
        /\ Has(v, 16) <=> e = 1
        /\ Has(v, 32) <=> f = 1
    BY <1>1, <1>5, <1>6 DEF Has
  <1>8. \A flag \in TcpFlags : Has(v, flag_bit[flag]) <=> flag \in flags
    BY <1>3, <1>7 DEF TcpFlags, flag_bit
  <1>9. convert_one_byte_encoding_to_flowset(v) = flags
    BY <1>8 DEF convert_one_byte_encoding_to_flowset
  <1> QED BY <1>4, <1>9 DEF v

\* The one fragment type that was encoded is the one that is read.
LEMMA FragmentDecoded ==
    ASSUME NEW type \in FragmentTypes
    PROVE  fragment_bit[type] \in 0 .. 8 /\ FragmentsOf(fragment_bit[type]) = <<type>>
  <1> DEFINE bit == fragment_bit[type]
             If(o, t) == IF Has(o, fragment_bit[t]) THEN <<t>> ELSE << >>
             L(o) == If(o, "FLOW_SPEC_LAST_FRAGMENT")
             F(o) == If(o, "FLOW_SPEC_FIRST_FRAGMENT")
             I(o) == If(o, "FLOW_SPEC_IS_A_FRAGMENT")
             D(o) == If(o, "FLOW_SPEC_DONT_FRAGMENT")
  <1>1. /\ fragment_bit["FLOW_SPEC_LAST_FRAGMENT"] = 8 /\ fragment_bit["FLOW_SPEC_FIRST_FRAGMENT"] = 4
        /\ fragment_bit["FLOW_SPEC_IS_A_FRAGMENT"] = 2 /\ fragment_bit["FLOW_SPEC_DONT_FRAGMENT"] = 1
        /\ fragment_bit["FLOW_SPEC_NOT_A_FRAGMENT"] = 0
    BY DEF fragment_bit
  <1>2. \A o : L(o) = (IF Has(o, 8) THEN <<"FLOW_SPEC_LAST_FRAGMENT">> ELSE << >>)
    BY <1>1
  <1>3. \A o : F(o) = (IF Has(o, 4) THEN <<"FLOW_SPEC_FIRST_FRAGMENT">> ELSE << >>)
    BY <1>1
  <1>4. \A o : I(o) = (IF Has(o, 2) THEN <<"FLOW_SPEC_IS_A_FRAGMENT">> ELSE << >>)
    BY <1>1
  <1>5. \A o : D(o) = (IF Has(o, 1) THEN <<"FLOW_SPEC_DONT_FRAGMENT">> ELSE << >>)
    BY <1>1
  <1>6. \A o : FragmentsOf(o) = IF L(o) \o F(o) \o I(o) \o D(o) = << >> THEN <<"FLOW_SPEC_NOT_A_FRAGMENT">>
                                ELSE L(o) \o F(o) \o I(o) \o D(o)
    BY DEF FragmentsOf
  <1>7. /\ ~Has(0, 8) /\ ~Has(0, 4) /\ ~Has(0, 2) /\ ~Has(0, 1)
        /\ ~Has(1, 8) /\ ~Has(1, 4) /\ ~Has(1, 2) /\ Has(1, 1)
        /\ ~Has(2, 8) /\ ~Has(2, 4) /\ Has(2, 2) /\ ~Has(2, 1)
        /\ ~Has(4, 8) /\ Has(4, 4) /\ ~Has(4, 2) /\ ~Has(4, 1)
        /\ Has(8, 8) /\ ~Has(8, 4) /\ ~Has(8, 2) /\ ~Has(8, 1)
    BY DEF Has
  <1>8. \A x : /\ << >> \o << >> = << >> /\ << >> \o <<x>> = <<x>> /\ <<x>> \o << >> = <<x>> /\ <<x>> # << >>
    OBVIOUS
  <1> HIDE DEF L, F, I, D, If
  <1>9. \/ type = "FLOW_SPEC_LAST_FRAGMENT" \/ type = "FLOW_SPEC_FIRST_FRAGMENT"
        \/ type = "FLOW_SPEC_IS_A_FRAGMENT" \/ type = "FLOW_SPEC_DONT_FRAGMENT"
        \/ type = "FLOW_SPEC_NOT_A_FRAGMENT"
    BY DEF FragmentTypes
  <1>10. CASE type = "FLOW_SPEC_LAST_FRAGMENT"
    <2>1. L(8) = <<type>> /\ F(8) = << >> /\ I(8) = << >> /\ D(8) = << >>
      BY <1>2, <1>3, <1>4, <1>5, <1>7, <1>10
    <2> QED BY <1>1, <1>6, <1>8, <1>10, <2>1
  <1>11. CASE type = "FLOW_SPEC_FIRST_FRAGMENT"
    <2>1. F(4) = <<type>> /\ L(4) = << >> /\ I(4) = << >> /\ D(4) = << >>
      BY <1>2, <1>3, <1>4, <1>5, <1>7, <1>11
    <2> QED BY <1>1, <1>6, <1>8, <1>11, <2>1
  <1>12. CASE type = "FLOW_SPEC_IS_A_FRAGMENT"
    <2>1. I(2) = <<type>> /\ L(2) = << >> /\ F(2) = << >> /\ D(2) = << >>
      BY <1>2, <1>3, <1>4, <1>5, <1>7, <1>12
    <2> QED BY <1>1, <1>6, <1>8, <1>12, <2>1
  <1>13. CASE type = "FLOW_SPEC_DONT_FRAGMENT"
    <2>1. D(1) = <<type>> /\ L(1) = << >> /\ F(1) = << >> /\ I(1) = << >>
      BY <1>2, <1>3, <1>4, <1>5, <1>7, <1>13
    <2> QED BY <1>1, <1>6, <1>8, <1>13, <2>1
  <1>14. CASE type = "FLOW_SPEC_NOT_A_FRAGMENT"
    <2>1. D(0) = << >> /\ L(0) = << >> /\ F(0) = << >> /\ I(0) = << >>
      BY <1>2, <1>3, <1>4, <1>5, <1>7, <1>14
    <2> QED BY <1>1, <1>6, <1>8, <1>14, <2>1
  <1> QED BY <1>9, <1>10, <1>11, <1>12, <1>13, <1>14

\* Masking what was sent of a masked address gives the masked address.
LEMMA PowerOfKept ==
    ASSUME NEW k \in 0 .. 8
    PROVE  /\ 2 ^ (8 - k) \in {1, 2, 4, 8, 16, 32, 64, 128, 256}
           /\ k = 0 => 2 ^ (8 - k) = 256
  <1>1. \/ k = 0 \/ k = 1 \/ k = 2 \/ k = 3 \/ k = 4 \/ k = 5 \/ k = 6 \/ k = 7 \/ k = 8
    OBVIOUS
  <1> DEFINE p == 2 ^ (8 - k)
  <1> HIDE DEF p
  <1>2. /\ k = 0 => p = 2 ^ (8 - 0)
        /\ k = 1 => p = 2 ^ (8 - 1)
        /\ k = 2 => p = 2 ^ (8 - 2)
        /\ k = 3 => p = 2 ^ (8 - 3)
        /\ k = 4 => p = 2 ^ (8 - 4)
        /\ k = 5 => p = 2 ^ (8 - 5)
        /\ k = 6 => p = 2 ^ (8 - 6)
        /\ k = 7 => p = 2 ^ (8 - 7)
        /\ k = 8 => p = 2 ^ (8 - 8)
    BY Zenon DEF p
  <1>3. p \in {1, 2, 4, 8, 16, 32, 64, 128, 256} /\ (k = 0 => p = 256)
    BY <1>1, <1>2, PowersDown
  <1> QED BY <1>3 DEF p

(***************************************************************************)
(* Masking an address twice, or masking what the first octets of it say,   *)
(* is masking it once.                                                     *)
(***************************************************************************)
LEMMA MaskedAgain ==
    ASSUME NEW a \in Octets(4), NEW length \in 0 .. 32
    PROVE  LET m == Masked(a, length)
               bytes == how_much_bytes_we_need(length)
           IN  /\ m \in Octets(4) /\ bytes \in 0 .. 4
               /\ Masked([i \in 1 .. 4 |-> IF i <= bytes THEN m[i] ELSE 0], length) = m
  <1> DEFINE kept(i) == IF length >= 8 * i THEN 8 ELSE IF length <= 8 * (i - 1) THEN 0
                        ELSE length - 8 * (i - 1)
             clear(x, i) == x - (x % 2 ^ (8 - kept(i)))
             m == Masked(a, length)
             bytes == how_much_bytes_we_need(length)
             again == [i \in 1 .. 4 |-> IF i <= bytes THEN m[i] ELSE 0]
  <1>1. DOMAIN a = 1 .. 4 /\ \A i \in 1 .. 4 : a[i] \in 0 .. 255
    BY DEF Octets
  <1>2. \A i \in 1 .. 4 : kept(i) \in 0 .. 8
    OBVIOUS
  <1>3. bytes \in 0 .. 4 /\ \A i \in 1 .. 4 : i > bytes => kept(i) = 0
    BY DEF how_much_bytes_we_need
  <1>4. m = [i \in 1 .. 4 |-> clear(a[i], i)]
    BY <1>1 DEF Masked
  <1>5. Masked(again, length) = [i \in 1 .. 4 |-> clear(again[i], i)]
    BY DEF Masked
  <1> HIDE DEF kept, bytes, m
  <1>6. ASSUME NEW i \in 1 .. 4, NEW x \in 0 .. 255
        PROVE  /\ clear(x, i) \in 0 .. 255 /\ clear(clear(x, i), i) = clear(x, i)
               /\ kept(i) = 0 => clear(x, i) = 0
    <2>2. \A k \in {1, 2, 4, 8, 16, 32, 64, 128, 256} :
              /\ x - (x % k) \in 0 .. 255 /\ (x - (x % k)) - ((x - (x % k)) % k) = x - (x % k)
              /\ k = 256 => x - (x % k) = 0
      OBVIOUS
    <2>3. 2 ^ (8 - kept(i)) \in {1, 2, 4, 8, 16, 32, 64, 128, 256} /\ (kept(i) = 0 => 2 ^ (8 - kept(i)) = 256)
      BY <1>2, PowerOfKept
    <2> DEFINE k == 2 ^ (8 - kept(i))
    <2>5. k \in {1, 2, 4, 8, 16, 32, 64, 128, 256} /\ (kept(i) = 0 => k = 256)
      BY <2>3
    <2> HIDE DEF k
    <2>4. /\ x - (x % k) \in 0 .. 255 /\ (x - (x % k)) - ((x - (x % k)) % k) = x - (x % k)
          /\ kept(i) = 0 => x - (x % k) = 0
      BY <2>2, <2>5
    <2> QED BY <2>4 DEF k
  <1>7. ASSUME NEW i \in 1 .. 4
        PROVE  m[i] \in 0 .. 255 /\ again[i] \in 0 .. 255 /\ clear(again[i], i) = m[i]
    <2>1. m[i] = clear(a[i], i) /\ a[i] \in 0 .. 255
      BY <1>1, <1>4
    <2>2. again[i] = IF i <= bytes THEN m[i] ELSE 0
      OBVIOUS
    <2>3. clear(0, i) = 0
      <3>1. 2 ^ (8 - kept(i)) \in {1, 2, 4, 8, 16, 32, 64, 128, 256}
        BY <1>2, PowerOfKept
      <3> DEFINE k == 2 ^ (8 - kept(i))
      <3>3. k \in {1, 2, 4, 8, 16, 32, 64, 128, 256}
        BY <3>1
      <3> HIDE DEF k
      <3>2. 0 - (0 % k) = 0
        BY <3>3
      <3> QED BY <3>2 DEF k
    <2> HIDE DEF again, clear
    <2>4. CASE i <= bytes
      <3>1. clear(a[i], i) \in 0 .. 255 /\ clear(clear(a[i], i), i) = clear(a[i], i)
        BY <1>6, <2>1
      <3>2. again[i] = m[i]
        BY <2>2, <2>4
      <3> QED BY <2>1, <3>1, <3>2
    <2>5. CASE ~(i <= bytes)
      <3>1. kept(i) = 0
        BY <1>3, <2>5
      <3>2. m[i] = 0
        BY <1>6, <2>1, <3>1
      <3> QED BY <2>2, <2>3, <2>5, <3>2
    <2> QED BY <2>4, <2>5
  <1> HIDE DEF clear
  <1>8. Masked(again, length) = m
    BY <1>4, <1>5, <1>7
  <1>9. m \in Octets(4)
    BY <1>4, <1>7 DEF Octets
  <1> QED BY <1>3, <1>8, <1>9 DEF m, bytes

-----------------------------------------------------------------------------
(* The components of a rule, in the order of the encoder.                  *)

PartField ==
    <<"destination_subnet_ipv4", "source_subnet_ipv4", "protocols", "destination_ports", "source_ports",
      "tcp_flags", "packet_lengths", "fragmentation_flags">>
PartType == <<1, 2, 3, 5, 6, 9, 10, 12>>
PartOperator == <<0, 0, 1, 17, 17, 0, 17, 0>>
PartWidth == <<1, 1, 1, 2, 2, 1, 2, 1>>

\* What is sent for one value of a list.
Sent(k, v) ==
    IF k = 6 THEN return_in_one_byte_encoding(v) ELSE IF k = 8 THEN fragment_bit[v] ELSE v
SentOctets(k, v) == IF PartWidth[k] = 2 THEN <<v \div 256, v % 256>> ELSE <<Sent(k, v)>>
SentList(k, list) == [i \in DOMAIN list |-> SentOctets(k, list[i])]

Part(rule, k) ==
    IF k \in {1, 2} THEN PrefixComponent(PartType[k], rule[PartField[k]])
    ELSE Component(PartType[k], PartOperator[k], SentList(k, rule[PartField[k]]))

Parts(rule) == [k \in 1 .. 8 |-> Part(rule, k)]

\* The lists of a rule.
PartValues(k) ==
    IF k = 3 THEN Uint8
    ELSE IF k = 6 THEN SUBSET TcpFlags
    ELSE IF k = 8 THEN FragmentTypes
    ELSE Uint16

\* The encoder puts the parts behind one another.
LEMMA NlriIsParts ==
    ASSUME NEW rule
    PROVE  LET P == Parts(rule)
               nlri == P[1] \o P[2] \o P[3] \o P[4] \o P[5] \o P[6] \o P[7] \o P[8]
           IN  encode_bgp_flow_spec_elements_as_mp_nlri(rule)
                   = IF {} \in ToSet(rule.tcp_flags) \/ Len(nlri) > BufferSize THEN Refused ELSE nlri
  <1> DEFINE P == Parts(rule)
             p1 == PrefixComponent(DESTINATION_PREFIX, rule.destination_subnet_ipv4)
             p2 == PrefixComponent(SOURCE_PREFIX, rule.source_subnet_ipv4)
             p3 == Component(IP_PROTOCOL, Equal, OneByte(rule.protocols))
             p4 == Component(DESTINATION_PORT, Equal + TwoBytes, NetworkOrder(rule.destination_ports))
             p5 == Component(SOURCE_PORT, Equal + TwoBytes, NetworkOrder(rule.source_ports))
             p6 == Component(TCP_FLAGS, 0, OneByte([i \in DOMAIN rule.tcp_flags |->
                                                   return_in_one_byte_encoding(rule.tcp_flags[i])]))
             p7 == Component(PACKET_LENGTH, Equal + TwoBytes, NetworkOrder(rule.packet_lengths))
             p8 == Component(FRAGMENT, 0, OneByte([i \in DOMAIN rule.fragmentation_flags |->
                                                  fragment_bit[rule.fragmentation_flags[i]]]))
  <1>1. /\ PartField[1] = "destination_subnet_ipv4" /\ PartField[2] = "source_subnet_ipv4"
        /\ PartField[3] = "protocols" /\ PartField[4] = "destination_ports"
        /\ PartField[5] = "source_ports" /\ PartField[6] = "tcp_flags"
        /\ PartField[7] = "packet_lengths" /\ PartField[8] = "fragmentation_flags"
    BY DEF PartField
  <1>2. /\ PartType[1] = DESTINATION_PREFIX /\ PartType[2] = SOURCE_PREFIX /\ PartType[3] = IP_PROTOCOL
        /\ PartType[4] = DESTINATION_PORT /\ PartType[5] = SOURCE_PORT /\ PartType[6] = TCP_FLAGS
        /\ PartType[7] = PACKET_LENGTH /\ PartType[8] = FRAGMENT
    BY DEF PartType, DESTINATION_PREFIX, SOURCE_PREFIX, IP_PROTOCOL, DESTINATION_PORT, SOURCE_PORT,
           TCP_FLAGS, PACKET_LENGTH, FRAGMENT
  <1>3. /\ PartOperator[3] = Equal /\ PartOperator[4] = Equal + TwoBytes /\ PartOperator[5] = Equal + TwoBytes
        /\ PartOperator[6] = 0 /\ PartOperator[7] = Equal + TwoBytes /\ PartOperator[8] = 0
    BY DEF PartOperator, Equal, TwoBytes
  <1>4. /\ PartWidth[3] = 1 /\ PartWidth[4] = 2 /\ PartWidth[5] = 2 /\ PartWidth[6] = 1
        /\ PartWidth[7] = 2 /\ PartWidth[8] = 1
    BY DEF PartWidth
  <1>5. SentList(3, rule.protocols) = OneByte(rule.protocols)
    BY <1>4 DEF SentList, SentOctets, Sent, OneByte
  <1>6. \A list : \A k \in {4, 5, 7} : SentList(k, list) = NetworkOrder(list)
    BY <1>4 DEF SentList, SentOctets, NetworkOrder
  <1>7. SentList(6, rule.tcp_flags) = OneByte([i \in DOMAIN rule.tcp_flags |->
                                                   return_in_one_byte_encoding(rule.tcp_flags[i])])
    BY <1>4 DEF SentList, SentOctets, Sent, OneByte
  <1>8. SentList(8, rule.fragmentation_flags)
            = OneByte([i \in DOMAIN rule.fragmentation_flags |-> fragment_bit[rule.fragmentation_flags[i]]])
    BY <1>4 DEF SentList, SentOctets, Sent, OneByte
  <1>9. \A k \in 1 .. 8 : P[k] = Part(rule, k)
    BY DEF Parts
  <1>10. P[1] = p1 /\ P[2] = p2
    BY <1>1, <1>2, <1>9 DEF Part
  <1>11. P[3] = p3
    BY <1>1, <1>2, <1>3, <1>5, <1>9 DEF Part
  <1>12. P[4] = p4 /\ P[5] = p5 /\ P[7] = p7
    BY <1>1, <1>2, <1>3, <1>6, <1>9 DEF Part
  <1>13. P[6] = p6
    BY <1>1, <1>2, <1>3, <1>7, <1>9 DEF Part
  <1>14. P[8] = p8
    BY <1>1, <1>2, <1>3, <1>8, <1>9 DEF Part
  <1> DEFINE nlri == p1 \o p2 \o p3 \o p4 \o p5 \o p6 \o p7 \o p8
  <1>15. encode_bgp_flow_spec_elements_as_mp_nlri(rule)
             = IF {} \in ToSet(rule.tcp_flags) \/ Len(nlri) > BufferSize THEN Refused ELSE nlri
    BY DEF encode_bgp_flow_spec_elements_as_mp_nlri
  <1> HIDE DEF P, p1, p2, p3, p4, p5, p6, p7, p8
  <1>16. P[1] \o P[2] \o P[3] \o P[4] \o P[5] \o P[6] \o P[7] \o P[8] = nlri
    BY <1>10, <1>11, <1>12, <1>13, <1>14
  <1> QED BY <1>15, <1>16 DEF P

\* A value is sent as octets.
LEMMA SentTypes ==
    ASSUME NEW k \in 3 .. 8, NEW v \in PartValues(k)
    PROVE  /\ PartWidth[k] \in {1, 2} /\ PartType[k] \in Uint8 /\ PartOperator[k] \in 0 .. 127
           /\ SentOctets(k, v) \in [1 .. PartWidth[k] -> Uint8]
  <1>1. k = 3 \/ k = 4 \/ k = 5 \/ k = 6 \/ k = 7 \/ k = 8
    OBVIOUS
  <1>2. /\ PartWidth[3] = 1 /\ PartWidth[4] = 2 /\ PartWidth[5] = 2 /\ PartWidth[6] = 1
        /\ PartWidth[7] = 2 /\ PartWidth[8] = 1
    BY DEF PartWidth
  <1>3. PartType[k] \in Uint8 /\ PartOperator[k] \in 0 .. 127 /\ PartWidth[k] \in {1, 2}
    BY <1>1 DEF PartType, PartOperator, PartWidth, Uint8
  <1>4. ASSUME NEW x \in Uint8 PROVE <<x>> \in [1 .. 1 -> Uint8]
    OBVIOUS
  <1>5. ASSUME NEW x \in Uint8, NEW y \in Uint8 PROVE <<x, y>> \in [1 .. 2 -> Uint8]
    OBVIOUS
  <1>6. CASE k \in {4, 5, 7}
    <2>4. PartValues(k) = Uint16
      <3>1. k # 3 /\ k # 6 /\ k # 8
        BY <1>6
      <3> QED BY <3>1, Zenon DEF PartValues
    <2>1. v \in Uint16
      BY <2>4
    <2>2. v \div 256 \in Uint8 /\ v % 256 \in Uint8
      <3>1. v \in Int /\ 0 <= v /\ v <= 65535
        BY <2>1 DEF Uint16
      <3>2. v \div 256 \in Int /\ 0 <= v \div 256 /\ v \div 256 <= 255 /\ v % 256 \in 0 .. 255
        BY <3>1
      <3> QED BY <3>2 DEF Uint8
    <2>3. PartWidth[k] = 2 /\ SentOctets(k, v) = <<v \div 256, v % 256>>
      BY <1>2, <1>6 DEF SentOctets
    <2> QED BY <1>3, <1>5, <2>2, <2>3
  <1>7. CASE k \in {3, 6, 8}
    <2>1. PartWidth[k] = 1 /\ SentOctets(k, v) = <<Sent(k, v)>>
      BY <1>2, <1>7 DEF SentOctets
    <2>2. Sent(k, v) \in Uint8
      <3>1. CASE k = 3
        BY <3>1 DEF PartValues, Sent
      <3>2. CASE k = 6
        <4>1. v \in SUBSET TcpFlags /\ Sent(k, v) = return_in_one_byte_encoding(v)
          BY <3>2 DEF PartValues, Sent
        <4>2. Sent(k, v) \in 0 .. 63
          BY <4>1, FlagsEncoded, FlagsDecoded
        <4> QED BY <4>2 DEF Uint8
      <3>3. CASE k = 8
        <4>1. v \in FragmentTypes /\ Sent(k, v) = fragment_bit[v]
          BY <3>3 DEF PartValues, Sent
        <4>2. Sent(k, v) \in 0 .. 8
          BY <4>1, FragmentDecoded
        <4> QED BY <4>2 DEF Uint8
      <3> QED BY <1>7, <3>1, <3>2, <3>3
    <2> QED BY <1>3, <1>4, <2>1, <2>2
  <1> QED BY <1>1, <1>6, <1>7

\* The lists of a well typed rule hold what their component can carry.
LEMMA ListTypes ==
    ASSUME NEW rule, WellTyped(rule), NEW k \in 3 .. 8
    PROVE  rule[PartField[k]] \in Seq(PartValues(k))
  <1>1. k = 3 \/ k = 4 \/ k = 5 \/ k = 6 \/ k = 7 \/ k = 8
    OBVIOUS
  <1>2. /\ PartField[3] = "protocols" /\ PartField[4] = "destination_ports"
        /\ PartField[5] = "source_ports" /\ PartField[6] = "tcp_flags"
        /\ PartField[7] = "packet_lengths" /\ PartField[8] = "fragmentation_flags"
    BY DEF PartField
  <1>3. /\ PartValues(3) = Uint8 /\ PartValues(6) = SUBSET TcpFlags /\ PartValues(8) = FragmentTypes
        /\ PartValues(4) = Uint16 /\ PartValues(5) = Uint16 /\ PartValues(7) = Uint16
    BY DEF PartValues, Uint8
  <1>4. /\ rule["protocols"] \in Seq(Uint8) /\ rule["tcp_flags"] \in Seq(SUBSET TcpFlags)
        /\ rule["fragmentation_flags"] \in Seq(FragmentTypes)
        /\ \A f \in {"source_ports", "destination_ports", "packet_lengths"} : rule[f] \in Seq(Uint16)
    BY Zenon DEF WellTyped
  <1> QED BY <1>1, <1>2, <1>3, <1>4, Zenon

\* The octets of a list: the type, then each value behind its operator octet.
ListPlaces(c, k, list) ==
    /\ c \in Seq(Uint8)
    /\ list = << >> => c = << >>
    /\ list # << >> => Placed(c, PartType[k], PartOperator[k], PartWidth[k], SentList(k, list))

\* A list component of a well typed rule, octet by octet.
LEMMA ListPart ==
    ASSUME NEW rule, WellTyped(rule), NEW k \in 3 .. 8
    PROVE  ListPlaces(Part(rule, k), k, rule[PartField[k]])
  <1> DEFINE list == rule[PartField[k]]
             c == Part(rule, k)
             octets == SentList(k, list)
             w == PartWidth[k]
             n == Len(list)
  <1>1. list \in Seq(PartValues(k))
    BY ListTypes
  <1>2. c = Component(PartType[k], PartOperator[k], octets)
    <2>1. k \notin {1, 2}
      OBVIOUS
    <2> QED BY <2>1 DEF Part
  <1> HIDE DEF list, c
  <1>3. n \in Nat /\ DOMAIN list = 1 .. n /\ \A i \in 1 .. n : list[i] \in PartValues(k)
    BY <1>1
  <1>4. w \in {1, 2} /\ PartType[k] \in Uint8 /\ PartOperator[k] \in 0 .. 127
    <2>1. k = 3 \/ k = 4 \/ k = 5 \/ k = 6 \/ k = 7 \/ k = 8
      OBVIOUS
    <2> QED BY <2>1 DEF PartType, PartOperator, PartWidth, Uint8
  <1>5. \A i \in 1 .. n : octets[i] = SentOctets(k, list[i]) /\ octets[i] \in [1 .. w -> Uint8]
    BY <1>3, SentTypes DEF SentList
  <1>6. octets = [i \in 1 .. n |-> octets[i]]
    BY <1>3 DEF SentList
  <1> HIDE DEF octets, w
  <1> DEFINE T == [1 .. w -> Uint8]
  <1>7. octets \in Seq(T) /\ Len(octets) = n
    <2>1. octets \in [1 .. n -> T]
      BY <1>5, <1>6
    <2> HIDE DEF T, n
    <2> QED BY <1>3, <2>1, FunctionIsSequence
  <1>8. CASE list = << >>
    <2>1. n = 0
      BY <1>8
    <2>2. octets = << >>
      BY <1>7, <2>1
    <2>3. c = << >>
      BY <1>2, <2>2 DEF Component
    <2>4. << >> \in Seq(Uint8)
      OBVIOUS
    <2> QED BY <1>8, <2>3, <2>4 DEF c, list, ListPlaces
  <1>9. CASE list # << >>
    <2>1. octets # << >>
      BY <1>1, <1>7, <1>9
    <2> DEFINE type == PartType[k]
               operator == PartOperator[k]
    <2>2. type \in Uint8 /\ operator \in 0 .. 127 /\ w \in {1, 2}
      BY <1>4
    <2> HIDE DEF type, operator
    <2>3. octets \in Seq([1 .. w -> Uint8])
      BY <1>7
    <2>4. /\ Component(type, operator, octets) \in Seq(Uint8)
          /\ Placed(Component(type, operator, octets), type, operator, w, octets)
      BY <2>1, <2>2, <2>3, ComponentPlaces
    <2>5. c \in Seq(Uint8) /\ Placed(c, type, operator, w, octets)
      BY <1>2, <2>4 DEF type, operator
    <2> QED BY <1>9, <2>5 DEF ListPlaces, c, list, type, operator, w, octets
  <1> QED BY <1>8, <1>9

\* The octets of a prefix: the type, the length and the masked address.
PrefixOctets(c, k, prefix) ==
    LET bytes == how_much_bytes_we_need(prefix.cidr_prefix_length)
        m == Masked(prefix.subnet_address, prefix.cidr_prefix_length)
    IN  /\ Len(c) = 2 + bytes /\ c[1] = k /\ c[2] = prefix.cidr_prefix_length
        /\ \A i \in 1 .. bytes : c[2 + i] = m[i]

PrefixPlaces(c, k, list) ==
    /\ c \in Seq(Uint8)
    /\ list = << >> => c = << >>
    /\ list # << >> => list[1] \in Subnets /\ list = <<list[1]>> /\ PrefixOctets(c, k, list[1])

\* A prefix component of a well typed rule, octet by octet.
LEMMA PrefixPart ==
    ASSUME NEW rule, WellTyped(rule), NEW k \in {1, 2}
    PROVE  PrefixPlaces(Part(rule, k), k, rule[PartField[k]])
  <1> DEFINE list == rule[PartField[k]]
             c == Part(rule, k)
             prefix == list[1]
             length == prefix.cidr_prefix_length
             bytes == how_much_bytes_we_need(length)
             m == Masked(prefix.subnet_address, length)
  <1>1. list \in Seq(Subnets) /\ Len(list) <= 1
    <2>1. PartField[k] \in {"destination_subnet_ipv4", "source_subnet_ipv4"}
      BY DEF PartField
    <2> QED BY <2>1, Zenon DEF WellTyped
  <1>2. c = PrefixComponent(k, list)
    <2>1. PartType[k] = k
      BY DEF PartType
    <2> QED BY <2>1 DEF Part
  <1> HIDE DEF list, c
  <1>3. CASE list = << >>
    <2>1. c = << >>
      BY <1>2, <1>3 DEF PrefixComponent
    <2>2. << >> \in Seq(Uint8)
      OBVIOUS
    <2> QED BY <1>3, <2>1, <2>2 DEF PrefixPlaces, c, list
  <1>4. CASE list # << >>
    <2>1. Len(list) = 1 /\ prefix \in Subnets /\ list = <<prefix>>
      BY <1>1, <1>4, SingleElement
    <2>2. prefix.subnet_address \in Octets(4) /\ length \in 0 .. 32
      <3> HIDE DEF prefix
      <3> QED BY <2>1 DEF Subnets
    <2> HIDE DEF prefix
    <2>3. m \in Octets(4) /\ bytes \in 0 .. 4
      BY <2>2, MaskedAgain
    <2>4. c = <<k>> \o (<<length>> \o SubSeq(m, 1, bytes))
      BY <1>2, <1>4 DEF PrefixComponent, encode_bgp_subnet_encoding, prefix
    <2> HIDE DEF m, bytes, length
    <2>5. m \in Seq(Uint8) /\ Len(m) = 4
      <3> DEFINE four == 4
      <3>1. m \in [1 .. four -> Uint8] /\ four \in Nat
        BY <2>3 DEF Octets, Uint8
      <3> HIDE DEF four
      <3>2. m \in Seq(Uint8) /\ Len(m) = four
        BY <3>1, FunctionIsSequence
      <3> QED BY <3>2 DEF four
    <2> DEFINE u == SubSeq(m, 1, bytes)
               one == <<k>>
               two == <<length>>
               t == two \o u
    <2>6. u \in Seq(Uint8) /\ Len(u) = bytes /\ \A i \in 1 .. bytes : u[i] = m[i]
      <3>1. bytes \in 0 .. Len(m)
        BY <2>3, <2>5
      <3> QED BY <2>5, <3>1, FirstElements
    <2>7. one \in Seq(Uint8) /\ Len(one) = 1 /\ one[1] = k
      BY DEF Uint8
    <2>8. two \in Seq(Uint8) /\ Len(two) = 1 /\ two[1] = length
      BY <2>2 DEF Uint8
    <2> HIDE DEF u, one, two
    <2>9. /\ t \in Seq(Uint8) /\ Len(t) = Len(two) + Len(u)
          /\ \A i \in 1 .. Len(two) : t[i] = two[i]
          /\ \A x \in 1 .. Len(u) : t[Len(two) + x] = u[x]
      <3>1. two \in Seq(Uint8) /\ u \in Seq(Uint8)
        BY <2>6, <2>8
      <3> QED BY <3>1, JoinOne
    <2>10. c = one \o t
      BY <2>4 DEF u, one, two
    <2> HIDE DEF t
    <2>11. /\ one \o t \in Seq(Uint8) /\ Len(one \o t) = Len(one) + Len(t)
           /\ \A i \in 1 .. Len(one) : (one \o t)[i] = one[i]
           /\ \A x \in 1 .. Len(t) : (one \o t)[Len(one) + x] = t[x]
      <3>1. one \in Seq(Uint8) /\ t \in Seq(Uint8)
        BY <2>7, <2>9
      <3> QED BY <3>1, JoinOne
    <2>12. /\ Len(t) = 1 + bytes /\ t[1] = length /\ \A x \in 1 .. bytes : t[1 + x] = m[x]
      BY <2>3, <2>6, <2>8, <2>9
    <2>13. /\ c \in Seq(Uint8) /\ Len(c) = 2 + bytes /\ c[1] = k
           /\ \A x \in 1 .. 1 + bytes : c[1 + x] = t[x]
      BY <2>3, <2>7, <2>10, <2>11, <2>12
    <2>14. c[2] = length
      <3>1. 1 \in 1 .. 1 + bytes /\ 1 + 1 = 2
        BY <2>3
      <3> QED BY <2>12, <2>13, <3>1
    <2>15. ASSUME NEW i \in 1 .. bytes PROVE c[2 + i] = m[i]
      <3>1. 1 + i \in 1 .. 1 + bytes /\ 1 + (1 + i) = 2 + i
        BY <2>3
      <3> QED BY <2>12, <2>13, <3>1
    <2>16. PrefixOctets(c, k, prefix)
      BY <2>13, <2>14, <2>15 DEF PrefixOctets, m, bytes, length
    <2>17. list[1] = prefix
      BY DEF prefix
    <2>18. PrefixPlaces(c, k, list)
      BY <1>4, <2>1, <2>13, <2>16, <2>17 DEF PrefixPlaces
    <2> QED BY <2>18 DEF c, list
  <1> QED BY <1>3, <1>4

\* The NLRI of a rule and where its parts are.
LEMMA RuleLaidOut ==
    ASSUME NEW rule, WellTyped(rule)
    PROVE  LET n == encode_bgp_flow_spec_elements_as_mp_nlri(rule)
               P == Parts(rule)
           IN  \E l \in [1 .. 8 -> Nat] : \E e \in [0 .. 8 -> Nat] :
                   /\ Parted(P, Uint8, l) /\ Ends(e, l)
                   /\ n # Refused => Laid(n, Uint8, e, l, P, 8) /\ {} \notin ToSet(rule.tcp_flags)
                   /\ {} \notin ToSet(rule.tcp_flags) /\ e[8] <= BufferSize =>
                          n # Refused /\ Laid(n, Uint8, e, l, P, 8)
  <1> DEFINE n == encode_bgp_flow_spec_elements_as_mp_nlri(rule)
             P == Parts(rule)
             l == [k \in 1 .. 8 |-> Len(P[k])]
             all == P[1] \o P[2] \o P[3] \o P[4] \o P[5] \o P[6] \o P[7] \o P[8]
  <1>1. \A k \in 1 .. 8 : P[k] \in Seq(Uint8)
    <2> SUFFICES ASSUME NEW k \in 1 .. 8 PROVE Part(rule, k) \in Seq(Uint8)
      BY DEF Parts
    <2>1. CASE k \in {1, 2}
      BY <2>1, PrefixPart DEF PrefixPlaces
    <2>2. CASE k \notin {1, 2}
      <3>1. k \in 3 .. 8
        BY <2>2
      <3> QED BY <3>1, ListPart DEF ListPlaces
    <2> QED BY <2>1, <2>2
  <1>2. n = IF {} \in ToSet(rule.tcp_flags) \/ Len(all) > BufferSize THEN Refused ELSE all
    BY NlriIsParts
  <1> HIDE DEF P, n
  <1>3. l \in [1 .. 8 -> Nat] /\ Parted(P, Uint8, l)
    <2>1. \A k \in 1 .. 8 : Len(P[k]) \in Nat
      BY <1>1
    <2>2. l \in [1 .. 8 -> Nat] /\ \A k \in 1 .. 8 : l[k] = Len(P[k])
      BY <2>1
    <2> HIDE DEF l
    <2> QED BY <1>1, <2>2 DEF Parted
  <1> HIDE DEF l
  <1>4. PICK e \in [0 .. 8 -> Nat] : Ends(e, l) /\ Laid(all, Uint8, e, l, P, 8)
    BY <1>3, LaidOut
  <1> HIDE DEF all
  <1>5. Len(all) = e[8] /\ all \in Seq(Uint8)
    BY <1>4 DEF Laid
  <1>6. all # Refused
    BY <1>5, NoResultAssumption
  <1>7. n # Refused => n = all /\ {} \notin ToSet(rule.tcp_flags)
    BY <1>2
  <1>8. {} \notin ToSet(rule.tcp_flags) /\ e[8] <= BufferSize => n = all
    <2>1. e[8] \in Nat /\ BufferSize \in Nat
      BY CodecAssumption
    <2> QED BY <1>2, <1>5, <2>1
  <1> QED BY <1>3, <1>4, <1>6, <1>7, <1>8 DEF n, P

\* The encoder looks at eight fields.
LEMMA SameNlri ==
    ASSUME NEW r, NEW s, \A k \in 1 .. 8 : r[PartField[k]] = s[PartField[k]]
    PROVE  encode_bgp_flow_spec_elements_into_bgp_mp_attribute(r)
               = encode_bgp_flow_spec_elements_into_bgp_mp_attribute(s)
  <1>1. \A k \in 1 .. 8 : Part(r, k) = Part(s, k)
    BY Zenon DEF Part
  <1>2. Parts(r) = Parts(s)
    BY <1>1 DEF Parts
  <1>3. r.tcp_flags = s.tcp_flags
    <2>1. 6 \in 1 .. 8 /\ PartField[6] = "tcp_flags"
      BY DEF PartField
    <2> QED BY <2>1
  <1>4. encode_bgp_flow_spec_elements_as_mp_nlri(r) = encode_bgp_flow_spec_elements_as_mp_nlri(s)
    BY <1>2, <1>3, NlriIsParts, Zenon
  <1> QED BY <1>4 DEF encode_bgp_flow_spec_elements_into_bgp_mp_attribute

\* The octets behind the length octet.
LEMMA LengthOctet ==
    ASSUME NEW n \in Seq(Uint8), NEW a \in Uint8
    PROVE  /\ <<a>> \o n \in Seq(Uint8) /\ Len(<<a>> \o n) = 1 + Len(n) /\ <<a>> \o n # << >>
           /\ Head(<<a>> \o n) = a /\ Tail(<<a>> \o n) = n
  <1> DEFINE one == <<a>>
             s == one \o n
  <1>1. one \in Seq(Uint8) /\ Len(one) = 1 /\ one[1] = a
    OBVIOUS
  <1> HIDE DEF one
  <1>2. /\ s \in Seq(Uint8) /\ Len(s) = Len(one) + Len(n)
        /\ \A i \in 1 .. Len(one) : s[i] = one[i]
        /\ \A x \in 1 .. Len(n) : s[Len(one) + x] = n[x]
    <2>1. one \in Seq(Uint8) /\ n \in Seq(Uint8)
      BY <1>1
    <2> QED BY <2>1, JoinOne
  <1> HIDE DEF s
  <1>3. Len(n) \in Nat
    OBVIOUS
  <1>4. s \in Seq(Uint8) /\ Len(s) = 1 + Len(n) /\ s[1] = a /\ \A x \in 1 .. Len(n) : s[1 + x] = n[x]
    BY <1>1, <1>2
  <1>5. s # << >> /\ Head(s) = a
    BY <1>3, <1>4
  <1>6. Tail(s) \in Seq(Uint8) /\ Len(Tail(s)) = Len(n) /\ \A x \in 1 .. Len(n) : Tail(s)[x] = s[1 + x]
    BY <1>3, <1>4, <1>5
  <1>7. Tail(s) = n
    <2> DEFINE t == Tail(s)
    <2>1. t \in Seq(Uint8) /\ Len(t) = Len(n) /\ \A x \in 1 .. Len(t) : t[x] = n[x]
      BY <1>4, <1>6
    <2> HIDE DEF t
    <2>2. t = n
      BY <2>1, SameSequence
    <2> QED BY <2>2 DEF t
  <1> QED BY <1>4, <1>5, <1>7 DEF s, one

-----------------------------------------------------------------------------
(* The NLRI of a capture's rule.                                           *)

\* The rule builder gives well typed rules.
LEMMA MatchWellTyped ==
    ASSUME NEW m, Match(m), NEW action \in ConfiguredActions
    PROVE  WellTyped(RuleFor(m[1], m[2], action))
  <1> DEFINE rule == RuleFor(m[1], m[2], action)
  <1>1. /\ rule.destination_subnet_ipv4 = <<[subnet_address |-> client_ip, cidr_prefix_length |-> 32]>>
        /\ \A f \in {"source_subnet_ipv4", "source_ports", "tcp_flags", "packet_lengths",
                     "fragmentation_flags"} : rule[f] = << >>
        /\ MatchLists(rule.protocols, rule.destination_ports)
        /\ rule.action = [Accept EXCEPT !.type = action.type, !.redirect_rt_as = action.redirect_rt_as,
                                        !.redirect_rt_value = action.redirect_rt_value]
        /\ rule.ipv4_nexthops = IF action.type = "FLOW_SPEC_ACTION_REDIRECT"
                                THEN <<action.redirect_ipv4>> ELSE << >>
        /\ DOMAIN rule = DOMAIN EmptyRule
    BY RuleOfMatch
  <1> HIDE DEF rule
  <1>2. /\ action.type \in ActionTypes /\ action.redirect_ipv4 \in Octets(4)
        /\ action.redirect_rt_as \in Nat /\ action.redirect_rt_value \in Nat
    <2>1. action \in [type : {"FLOW_SPEC_ACTION_DISCARD", "FLOW_SPEC_ACTION_REDIRECT", "FLOW_SPEC_ACTION_REDIRECT_VRF"},
                      redirect_ipv4 : Octets(4), redirect_rt_as : Nat, redirect_rt_value : Nat]
      BY CaptureAssumption DEF ConfiguredActions
    <2>2. action.type \in {"FLOW_SPEC_ACTION_DISCARD", "FLOW_SPEC_ACTION_REDIRECT", "FLOW_SPEC_ACTION_REDIRECT_VRF"}
      BY <2>1
    <2>3. action.redirect_ipv4 \in Octets(4) /\ action.redirect_rt_as \in Nat /\ action.redirect_rt_value \in Nat
      BY <2>1
    <2>4. action.type \in ActionTypes
      BY <2>2 DEF ActionTypes
    <2> QED BY <2>3, <2>4
  <1>3. \A S : << >> \in Seq(S) /\ Len(<< >>) = 0 /\ \A x \in S : <<x>> \in Seq(S) /\ Len(<<x>>) = 1
    OBVIOUS
  <1>4. [subnet_address |-> client_ip, cidr_prefix_length |-> 32] \in Subnets
    <2>1. client_ip \in Octets(4) /\ 32 \in 0 .. 32
      BY CaptureAssumption
    <2> QED BY <2>1 DEF Subnets
  <1>5. \A f \in {"destination_subnet_ipv4", "source_subnet_ipv4"} : rule[f] \in Seq(Subnets) /\ Len(rule[f]) <= 1
    <2>1. rule.source_subnet_ipv4 = << >>
      BY <1>1
    <2>2. rule.source_subnet_ipv4 \in Seq(Subnets) /\ Len(rule.source_subnet_ipv4) = 0
      BY <1>3, <2>1
    <2>3. rule.destination_subnet_ipv4 \in Seq(Subnets) /\ Len(rule.destination_subnet_ipv4) = 1
      <3> DEFINE s == [subnet_address |-> client_ip, cidr_prefix_length |-> 32]
      <3>1. s \in Subnets /\ rule.destination_subnet_ipv4 = <<s>>
        BY <1>1, <1>4
      <3> HIDE DEF s
      <3> QED BY <1>3, <3>1
    <2>4. 0 <= 1 /\ 1 <= 1
      OBVIOUS
    <2> QED BY <2>2, <2>3, <2>4, Zenon
  <1>6. rule.protocols \in Seq(Uint8) /\ rule.destination_ports \in Seq(Uint16)
    BY <1>1 DEF MatchLists
  <1>7. \A f \in {"source_ports", "destination_ports", "packet_lengths"} : rule[f] \in Seq(Uint16)
    BY <1>1, <1>3, <1>6
  <1>8. rule.tcp_flags \in Seq(SUBSET TcpFlags) /\ rule.fragmentation_flags \in Seq(FragmentTypes)
    BY <1>1, <1>3
  <1>9. rule.ipv4_nexthops \in Seq(Octets(4))
    BY <1>1, <1>2, <1>3
  <1>10. rule.action \in Actions
    <2>1. 0 \in Uint16 /\ 0 \in Nat
      BY DEF Uint16
    <2>2. rule.action = [type |-> action.type, rate_limit |-> 0, redirect_as |-> 0, redirect_value |-> 0,
                         redirect_rt_as |-> action.redirect_rt_as, redirect_rt_value |-> action.redirect_rt_value]
      BY <1>1 DEF Accept
    <2> QED BY <1>2, <2>1, <2>2 DEF Actions
  <1>11. WellTyped(rule)
    BY <1>1, <1>5, <1>6, <1>7, <1>8, <1>9, <1>10, Zenon DEF WellTyped
  <1> QED BY <1>11 DEF rule

\* What distinguishes the NLRIs of a capture.
MatchNlri(n, p, d) ==
    /\ n \in Seq(Uint8)
    /\ Len(n) = 6 + (IF p = << >> THEN 0 ELSE 3) + (IF d = << >> THEN 0 ELSE 4)
    /\ p # << >> => n[9] = p[1]
    /\ d # << >> => n[12] = d[1] \div 256 /\ n[13] = d[1] % 256

(***************************************************************************)
(* The octets of a capture's rule at which a protocol and a port are told  *)
(* apart.                                                                  *)
(***************************************************************************)
LEMMA NlriOfMatch ==
    ASSUME NEW m, Match(m), NEW action \in ConfiguredActions
    PROVE  LET rule == RuleFor(m[1], m[2], action)
               n == encode_bgp_flow_spec_elements_as_mp_nlri(rule)
           IN  n # Refused /\ MatchNlri(n, rule.protocols, rule.destination_ports)
  <1> DEFINE rule == RuleFor(m[1], m[2], action)
             n == encode_bgp_flow_spec_elements_as_mp_nlri(rule)
             p == rule.protocols
             d == rule.destination_ports
             prefix == [subnet_address |-> client_ip, cidr_prefix_length |-> 32]
             P == Parts(rule)
  <1>1. /\ rule.destination_subnet_ipv4 = <<prefix>>
        /\ \A f \in {"source_subnet_ipv4", "source_ports", "tcp_flags", "packet_lengths",
                     "fragmentation_flags"} : rule[f] = << >>
        /\ MatchLists(p, d)
    BY RuleOfMatch
  <1>2. WellTyped(rule)
    BY MatchWellTyped
  <1> HIDE DEF rule, n
  <1>3. PICK l \in [1 .. 8 -> Nat], e \in [0 .. 8 -> Nat] :
            /\ Parted(P, Uint8, l) /\ Ends(e, l)
            /\ {} \notin ToSet(rule.tcp_flags) /\ e[8] <= BufferSize =>
                   n # Refused /\ Laid(n, Uint8, e, l, P, 8)
    BY <1>2, RuleLaidOut DEF n
  <1>4. /\ PartField[1] = "destination_subnet_ipv4" /\ PartField[2] = "source_subnet_ipv4"
        /\ PartField[3] = "protocols" /\ PartField[4] = "destination_ports"
        /\ PartField[5] = "source_ports" /\ PartField[6] = "tcp_flags"
        /\ PartField[7] = "packet_lengths" /\ PartField[8] = "fragmentation_flags"
    BY DEF PartField
  <1>5. \A k \in 1 .. 8 : P[k] = Part(rule, k) /\ Len(P[k]) = l[k]
    BY <1>3 DEF Parts, Parted
  <1>6. \A k \in {1, 2} : PrefixPlaces(Part(rule, k), k, rule[PartField[k]])
    BY <1>2, PrefixPart
  <1>7. \A k \in 3 .. 8 : ListPlaces(Part(rule, k), k, rule[PartField[k]])
    BY <1>2, ListPart
  <1> HIDE DEF P
  <1>8. l[1] = 6
    <2>1. PrefixPlaces(P[1], 1, <<prefix>>)
      <3>1. PrefixPlaces(Part(rule, 1), 1, rule[PartField[1]])
        BY <1>6
      <3>3. 1 \in 1 .. 8
        OBVIOUS
      <3>4. P[1] = Part(rule, 1)
        BY <1>5, <3>3
      <3>2. P[1] = Part(rule, 1) /\ rule[PartField[1]] = <<prefix>>
        BY <1>1, <1>4, <3>4, Zenon
      <3> QED BY <3>1, <3>2
    <2>2. <<prefix>> # << >> /\ <<prefix>>[1] = prefix
      OBVIOUS
    <2>3. PrefixOctets(P[1], 1, prefix)
      BY <2>1, <2>2 DEF PrefixPlaces
    <2>4. Len(P[1]) = 2 + how_much_bytes_we_need(32)
      BY <2>3 DEF PrefixOctets
    <2>5. how_much_bytes_we_need(32) = 4
      BY DEF how_much_bytes_we_need
    <2>7. 1 \in 1 .. 8
      OBVIOUS
    <2>6. Len(P[1]) = l[1]
      BY <1>5, <2>7, Zenon
    <2>8. l[1] = 2 + 4
      BY <2>4, <2>5, <2>6, Zenon
    <2> QED BY <2>8
  <1>9. ASSUME NEW k \in {2, 5, 6, 7, 8} PROVE l[k] = 0
    <2>1. rule[PartField[k]] = << >>
      BY <1>1, <1>4
    <2>2. P[k] = << >>
      <3>1. CASE k = 2
        <4>1. k \in 1 .. 8 /\ k \in {1, 2}
          BY <3>1
        <4>2. P[k] = Part(rule, k) /\ PrefixPlaces(Part(rule, k), k, rule[PartField[k]])
          BY <1>5, <1>6, <4>1
        <4> QED BY <2>1, <4>2 DEF PrefixPlaces
      <3>2. CASE k # 2
        <4>1. k \in 3 .. 8 /\ k \in 1 .. 8
          BY <3>2
        <4>2. P[k] = Part(rule, k) /\ ListPlaces(Part(rule, k), k, rule[PartField[k]])
          BY <1>5, <1>7, <4>1
        <4> QED BY <2>1, <4>2 DEF ListPlaces
      <3> QED BY <3>1, <3>2
    <2>3. k \in 1 .. 8 /\ Len(<< >>) = 0
      OBVIOUS
    <2> QED BY <1>5, <2>2, <2>3
  <1>10. ASSUME NEW k \in {3, 4}
         PROVE  LET list == rule[PartField[k]] IN
                /\ list = << >> => l[k] = 0
                /\ \A x : list = <<x>> =>
                       /\ l[k] = 1 + (1 + PartWidth[k])
                       /\ \A y \in 1 .. PartWidth[k] : P[k][2 + y] = SentOctets(k, x)[y]
    <2> DEFINE list == rule[PartField[k]]
    <2>1. k \in 3 .. 8 /\ k \in 1 .. 8
      BY <1>10
    <2>2. ListPlaces(P[k], k, list) /\ Len(P[k]) = l[k]
      BY <1>5, <1>7, <1>10, <2>1
    <2>3. CASE list = << >>
      <3>1. P[k] = << >> /\ Len(<< >>) = 0 /\ \A x : list # <<x>>
        BY <2>2, <2>3 DEF ListPlaces
      <3> QED BY <2>2, <2>3, <3>1
    <2>4. ASSUME NEW x, list = <<x>>
          PROVE  /\ l[k] = 1 + (1 + PartWidth[k])
                 /\ \A y \in 1 .. PartWidth[k] : P[k][2 + y] = SentOctets(k, x)[y]
      <3> DEFINE w == PartWidth[k]
                 octets == SentList(k, list)
      <3>1. list # << >> /\ DOMAIN list = 1 .. 1 /\ list[1] = x
        BY <2>4
      <3>2. Len(octets) = 1 /\ octets[1] = SentOctets(k, x)
        <4>1. octets = [i \in 1 .. 1 |-> SentOctets(k, list[i])]
          BY <3>1 DEF SentList
        <4>2. 1 \in 1 .. 1 /\ octets = [i \in 1 .. 1 |-> SentOctets(k, list[i])]
          BY <4>1
        <4>3. octets[1] = SentOctets(k, x)
          BY <3>1, <4>2
        <4> HIDE DEF octets
        <4>4. octets \in [1 .. 1 -> {octets[1]}]
          BY <4>1
        <4> DEFINE one == 1
                   T == {octets[1]}
        <4>5. one \in Nat /\ octets \in [1 .. one -> T]
          BY <4>4
        <4> HIDE DEF one, T
        <4>6. octets \in Seq(T) /\ Len(octets) = one
          BY <4>5, FunctionIsSequence
        <4> QED BY <4>3, <4>6 DEF one
      <3>3. Placed(P[k], PartType[k], PartOperator[k], w, octets)
        BY <2>2, <3>1 DEF ListPlaces
      <3>4. w \in Nat
        BY <1>10 DEF PartWidth
      <3> HIDE DEF w, octets
      <3>5. /\ Len(P[k]) = 1 + 1 * (1 + w)
            /\ \A i \in 1 .. 1 : \A y \in 1 .. w : P[k][2 + (i - 1) * (1 + w) + y] = octets[i][y]
        BY <3>2, <3>3 DEF Placed
      <3>6. 1 * (1 + w) = 1 + w /\ (1 - 1) * (1 + w) = 0 /\ 1 \in 1 .. 1
        BY <3>4
      <3>7. \A y \in 1 .. w : P[k][2 + (1 - 1) * (1 + w) + y] = octets[1][y]
        BY <3>5, <3>6
      <3>8. \A y \in 1 .. w : 2 + (1 - 1) * (1 + w) + y = 2 + y
        BY <3>4, <3>6
      <3>9. \A y \in 1 .. w : P[k][2 + y] = octets[1][y]
        BY <3>7, <3>8
      <3> QED BY <2>2, <3>2, <3>5, <3>6, <3>9 DEF w
    <2> QED BY <2>3, <2>4
  <1>11. /\ p = << >> => l[3] = 0
         /\ \A x : p = <<x>> => l[3] = 3 /\ P[3][3] = x
    <2>1. PartWidth[3] = 1 /\ \A x : SentOctets(3, x)[1] = x
      BY DEF PartWidth, SentOctets, Sent
    <2>2. p = rule[PartField[3]]
      BY <1>4
    <2>3. 1 \in 1 .. 1 /\ 1 + (1 + 1) = 3 /\ 2 + 1 = 3
      OBVIOUS
    <2> HIDE DEF p
    <2>4. /\ p = << >> => l[3] = 0
          /\ \A x : p = <<x>> =>
                 /\ l[3] = 1 + (1 + PartWidth[3])
                 /\ \A y \in 1 .. PartWidth[3] : P[3][2 + y] = SentOctets(3, x)[y]
      BY <1>10, <2>2
    <2>5. ASSUME NEW x, p = <<x>> PROVE l[3] = 3 /\ P[3][3] = x
      <3>1. l[3] = 1 + (1 + 1) /\ \A y \in 1 .. 1 : P[3][2 + y] = SentOctets(3, x)[y]
        BY <2>1, <2>4, <2>5, Zenon
      <3>2. P[3][2 + 1] = SentOctets(3, x)[1]
        BY <2>3, <3>1, Zenon
      <3> QED BY <2>1, <2>3, <3>1, <3>2, Zenon
    <2> QED BY <2>4, <2>5
  <1>12. /\ d = << >> => l[4] = 0
         /\ \A x : d = <<x>> => l[4] = 4 /\ P[4][3] = x \div 256 /\ P[4][4] = x % 256
    <2>1. PartWidth[4] = 2 /\ \A x : SentOctets(4, x)[1] = x \div 256 /\ SentOctets(4, x)[2] = x % 256
      BY DEF PartWidth, SentOctets
    <2>2. d = rule[PartField[4]]
      BY <1>4
    <2>3. 1 \in 1 .. 2 /\ 2 \in 1 .. 2 /\ 1 + (1 + 2) = 4 /\ 2 + 1 = 3 /\ 2 + 2 = 4
      OBVIOUS
    <2> HIDE DEF d
    <2>4. /\ d = << >> => l[4] = 0
          /\ \A x : d = <<x>> =>
                 /\ l[4] = 1 + (1 + PartWidth[4])
                 /\ \A y \in 1 .. PartWidth[4] : P[4][2 + y] = SentOctets(4, x)[y]
      BY <1>10, <2>2
    <2>5. ASSUME NEW x, d = <<x>> PROVE l[4] = 4 /\ P[4][3] = x \div 256 /\ P[4][4] = x % 256
      <3>1. l[4] = 1 + (1 + 2) /\ \A y \in 1 .. 2 : P[4][2 + y] = SentOctets(4, x)[y]
        BY <2>1, <2>4, <2>5, Zenon
      <3>2. P[4][2 + 1] = SentOctets(4, x)[1] /\ P[4][2 + 2] = SentOctets(4, x)[2]
        BY <2>3, <3>1, Zenon
      <3>3. l[4] = 4
        BY <2>3, <3>1
      <3>4. P[4][3] = SentOctets(4, x)[1] /\ P[4][4] = SentOctets(4, x)[2]
        BY <2>3, <3>2
      <3> QED BY <2>1, <3>3, <3>4
    <2> QED BY <2>4, <2>5
  <1>13. /\ e[0] = 0 /\ e[1] = e[0] + l[1] /\ e[2] = e[1] + l[2] /\ e[3] = e[2] + l[3] /\ e[4] = e[3] + l[4]
         /\ e[5] = e[4] + l[5] /\ e[6] = e[5] + l[6] /\ e[7] = e[6] + l[7] /\ e[8] = e[7] + l[8]
    <2>1. \A k \in 1 .. 8 : e[k] = e[k - 1] + l[k]
      BY <1>3 DEF Ends
    <2>2. e[0] = 0
      BY <1>3 DEF Ends
    <2> QED BY <2>1, <2>2
  <1>14. l[2] = 0 /\ l[5] = 0 /\ l[6] = 0 /\ l[7] = 0 /\ l[8] = 0
    BY <1>9
  <1>15. e[2] = 6 /\ e[3] = 6 + l[3] /\ e[8] = 6 + l[3] + l[4]
    BY <1>8, <1>13, <1>14
  <1> HIDE DEF p, d
  <1>16. \/ p = << >> /\ d = << >>
         \/ \E x \in Uint8 : p = <<x>> /\ (d = << >> \/ \E y \in Uint16 : d = <<y>>)
    BY <1>1 DEF MatchLists
  <1>17. \A x : <<x>> # << >> /\ <<x>>[1] = x
    OBVIOUS
  <1>18. e[8] <= BufferSize
    <2>1. BufferSize \in Nat /\ BufferSize >= 13
      BY CodecAssumption
    <2>2. l[3] \in {0, 3} /\ l[4] \in {0, 4}
      BY <1>11, <1>12, <1>16
    <2>3. e[8] <= 13 /\ e[8] \in Nat
      BY <1>15, <2>2
    <2> QED BY <2>1, <2>3
  <1>19. {} \notin ToSet(rule.tcp_flags)
    <2>1. rule.tcp_flags = << >> /\ DOMAIN << >> = 1 .. 0
      BY <1>1
    <2>2. \A i \in 1 .. 0 : FALSE
      OBVIOUS
    <2> QED BY <2>1, <2>2 DEF ToSet
  <1>20. n # Refused /\ Laid(n, Uint8, e, l, P, 8)
    BY <1>3, <1>18, <1>19
  <1>21. n \in Seq(Uint8) /\ Len(n) = e[8]
    BY <1>20 DEF Laid
  <1>28. \A k \in 1 .. 8 : \A x \in 1 .. l[k] : n[e[k - 1] + x] = P[k][x]
    BY <1>20 DEF Laid
  <1>29. 3 \in 1 .. 8 /\ 4 \in 1 .. 8 /\ 3 - 1 = 2 /\ 4 - 1 = 3
    OBVIOUS
  <1>22. \A x \in 1 .. l[3] : n[e[2] + x] = P[3][x]
    BY <1>28, <1>29
  <1>23. \A x \in 1 .. l[4] : n[e[3] + x] = P[4][x]
    BY <1>28, <1>29
  <1>24. Len(n) = 6 + (IF p = << >> THEN 0 ELSE 3) + (IF d = << >> THEN 0 ELSE 4)
    <2>1. CASE p = << >> /\ d = << >>
      BY <1>11, <1>12, <1>15, <1>21, <2>1
    <2>2. ASSUME NEW x \in Uint8, p = <<x>>, d = << >>
          PROVE  Len(n) = 6 + (IF p = << >> THEN 0 ELSE 3) + (IF d = << >> THEN 0 ELSE 4)
      <3>1. p # << >> /\ l[3] = 3 /\ l[4] = 0
        BY <1>11, <1>12, <1>17, <2>2
      <3> QED BY <1>15, <1>21, <2>2, <3>1
    <2>3. ASSUME NEW x \in Uint8, p = <<x>>, NEW y \in Uint16, d = <<y>>
          PROVE  Len(n) = 6 + (IF p = << >> THEN 0 ELSE 3) + (IF d = << >> THEN 0 ELSE 4)
      <3>1. p # << >> /\ d # << >> /\ l[3] = 3 /\ l[4] = 4
        BY <1>11, <1>12, <1>17, <2>3
      <3> QED BY <1>15, <1>21, <3>1
    <2> QED BY <1>16, <2>1, <2>2, <2>3
  <1>25. p # << >> => n[9] = p[1] /\ e[3] = 9
    <2> SUFFICES ASSUME p # << >> PROVE n[9] = p[1] /\ e[3] = 9
      OBVIOUS
    <2>1. PICK x \in Uint8 : p = <<x>>
      BY <1>16
    <2>2. l[3] = 3 /\ P[3][3] = x /\ p[1] = x
      BY <1>11, <1>17, <2>1
    <2>3. 3 \in 1 .. l[3] /\ e[2] + 3 = 9 /\ e[3] = 9
      BY <1>15, <2>2
    <2> QED BY <1>22, <2>2, <2>3
  <1>26. d # << >> => n[12] = d[1] \div 256 /\ n[13] = d[1] % 256
    <2> SUFFICES ASSUME d # << >> PROVE n[12] = d[1] \div 256 /\ n[13] = d[1] % 256
      OBVIOUS
    <2>1. PICK y \in Uint16 : d = <<y>>
      BY <1>16
    <2>2. p # << >>
      BY <1>16, <1>17
    <2>3. l[4] = 4 /\ P[4][3] = y \div 256 /\ P[4][4] = y % 256 /\ d[1] = y
      BY <1>12, <1>17, <2>1
    <2>6. e[3] = 9 /\ l[4] = 4
      BY <1>25, <2>2, <2>3
    <2>4. 3 \in 1 .. l[4] /\ 4 \in 1 .. l[4] /\ e[3] + 3 = 12 /\ e[3] + 4 = 13
      BY <2>6
    <2>5. n[12] = P[4][3] /\ n[13] = P[4][4]
      BY <1>23, <2>4
    <2> QED BY <2>3, <2>5
  <1>27. MatchNlri(n, p, d)
    BY <1>21, <1>24, <1>25, <1>26 DEF MatchNlri
  <1> QED BY <1>20, <1>27 DEF n, p, d, rule

\* A number of 16 bits.
LEMMA Uint16IsNat ==
    ASSUME NEW x \in Uint16
    PROVE  x \in Nat
  BY DEF Uint16

\* The lists of two rules whose NLRIs agree.
LEMMA ListsApart ==
    ASSUME NEW n, NEW p, NEW d, NEW q, NEW e,
           MatchLists(p, d), MatchLists(q, e), MatchNlri(n, p, d), MatchNlri(n, q, e)
    PROVE  p = q /\ d = e
  <1>1. /\ (p = << >> /\ d = << >>) \/ \E x \in Uint8 : p = <<x>> /\ (d = << >> \/ \E y \in Uint16 : d = <<y>>)
        /\ (q = << >> /\ e = << >>) \/ \E x \in Uint8 : q = <<x>> /\ (e = << >> \/ \E y \in Uint16 : e = <<y>>)
    BY DEF MatchLists
  <1>2. /\ Len(n) = 6 + (IF p = << >> THEN 0 ELSE 3) + (IF d = << >> THEN 0 ELSE 4)
        /\ Len(n) = 6 + (IF q = << >> THEN 0 ELSE 3) + (IF e = << >> THEN 0 ELSE 4)
    BY DEF MatchNlri
  <1>3. /\ p # << >> => n[9] = p[1]
        /\ q # << >> => n[9] = q[1]
        /\ d # << >> => n[12] = d[1] \div 256 /\ n[13] = d[1] % 256
        /\ e # << >> => n[12] = e[1] \div 256 /\ n[13] = e[1] % 256
    BY DEF MatchNlri
  <1>4. \A x : <<x>> # << >> /\ <<x>>[1] = x
    OBVIOUS
  <1> DEFINE a == IF p = << >> THEN 0 ELSE 3
             b == IF d = << >> THEN 0 ELSE 4
             f == IF q = << >> THEN 0 ELSE 3
             g == IF e = << >> THEN 0 ELSE 4
  <1>5. a \in {0, 3} /\ f \in {0, 3} /\ b \in {0, 4} /\ g \in {0, 4} /\ 6 + a + b = 6 + f + g
    BY <1>2
  <1>6. (p = << >> <=> a = 0) /\ (d = << >> <=> b = 0) /\ (q = << >> <=> f = 0) /\ (e = << >> <=> g = 0)
    OBVIOUS
  <1> HIDE DEF a, b, f, g
  <1>7. a = f /\ b = g
    BY <1>5
  <1>8. (p = << >> <=> q = << >>) /\ (d = << >> <=> e = << >>)
    BY <1>6, <1>7
  <1>9. p = q
    <2>1. CASE p = << >>
      BY <1>8, <2>1
    <2>2. CASE p # << >>
      <3>1. PICK x : p = <<x>>
        BY <1>1, <2>2
      <3>2. PICK y : q = <<y>>
        BY <1>1, <1>8, <2>2
      <3>3. x = n[9] /\ y = n[9]
        BY <1>3, <1>4, <3>1, <3>2
      <3> QED BY <3>1, <3>2, <3>3
    <2> QED BY <2>1, <2>2
  <1>10. d = e
    <2>1. CASE d = << >>
      BY <1>8, <2>1
    <2>2. CASE d # << >>
      <3>1. PICK x \in Uint16 : d = <<x>>
        BY <1>1, <2>2
      <3>2. PICK y \in Uint16 : e = <<y>>
        BY <1>1, <1>4, <1>8, <2>2
      <3>3. x \div 256 = n[12] /\ x % 256 = n[13] /\ y \div 256 = n[12] /\ y % 256 = n[13]
        BY <1>3, <1>4, <3>1, <3>2
      <3>4. x \in Nat /\ y \in Nat
        BY Uint16IsNat
      <3>5. x = y
        <4>1. \A z \in Nat : z = 256 * (z \div 256) + (z % 256)
          OBVIOUS
        <4>2. x = 256 * n[12] + n[13] /\ y = 256 * n[12] + n[13]
          BY <3>3, <3>4, <4>1
        <4> QED BY <4>2
      <3> QED BY <3>1, <3>2, <3>5
    <2> QED BY <2>1, <2>2
  <1> QED BY <1>9, <1>10

\* The key of a path, its NLRI and what both say.
PathSays(path, rule, n) ==
    /\ MatchLists(rule.protocols, rule.destination_ports)
    /\ MatchNlri(n, rule.protocols, rule.destination_ports)
    /\ path.key = [destination_ipv4 |-> client_ip, protocol |-> rule.protocols,
                   destination_port |-> rule.destination_ports]
    /\ path.nlri = <<Len(n)>> \o n /\ Len(n) \in Uint8
    /\ path.nlri = encode_bgp_flow_spec_elements_into_bgp_mp_attribute(rule)
    /\ path.community \in Communities
    /\ rule.destination_subnet_ipv4 = <<[subnet_address |-> client_ip, cidr_prefix_length |-> 32]>>
    /\ \A f \in {"source_subnet_ipv4", "source_ports", "tcp_flags", "packet_lengths",
                 "fragmentation_flags"} : rule[f] = << >>

\* The community of a configured action.
LEMMA MatchCommunity ==
    ASSUME NEW m, Match(m), NEW action \in ConfiguredActions
    PROVE  build_attributes_for_gobgp_flowspec_announce(RuleFor(m[1], m[2], action)) \in Communities
  <1> DEFINE rule == RuleFor(m[1], m[2], action)
             community == build_attributes_for_gobgp_flowspec_announce(rule)
  <1>1. /\ rule.action = [Accept EXCEPT !.type = action.type, !.redirect_rt_as = action.redirect_rt_as,
                                        !.redirect_rt_value = action.redirect_rt_value]
        /\ rule.ipv4_nexthops = IF action.type = "FLOW_SPEC_ACTION_REDIRECT"
                                THEN <<action.redirect_ipv4>> ELSE << >>
    BY RuleOfMatch
  <1>2. /\ rule.action.type = action.type /\ rule.action.redirect_rt_as = action.redirect_rt_as
        /\ rule.action.redirect_rt_value = action.redirect_rt_value
    BY <1>1 DEF Accept
  <1> HIDE DEF rule
  <1>3. action \in [type : {"FLOW_SPEC_ACTION_DISCARD", "FLOW_SPEC_ACTION_REDIRECT", "FLOW_SPEC_ACTION_REDIRECT_VRF"},
                    redirect_ipv4 : Octets(4), redirect_rt_as : Nat, redirect_rt_value : Nat]
    BY CaptureAssumption DEF ConfiguredActions
  <1>4. /\ action.type \in {"FLOW_SPEC_ACTION_DISCARD", "FLOW_SPEC_ACTION_REDIRECT", "FLOW_SPEC_ACTION_REDIRECT_VRF"}
        /\ action.redirect_ipv4 \in Octets(4) /\ action.redirect_rt_as \in Nat /\ action.redirect_rt_value \in Nat
    BY <1>3
  <1>5. CASE action.type = "FLOW_SPEC_ACTION_DISCARD"
    <2>1. community = encode_bgp_flow_spec_action_as_extended_attribute(rule.action)
      BY <1>2, <1>5 DEF build_attributes_for_gobgp_flowspec_announce
    <2>2. community = [kind |-> "traffic_rate", rate |-> 0]
      BY <1>2, <1>5, <2>1 DEF encode_bgp_flow_spec_action_as_extended_attribute, RateCommunity
    <2>3. community \in [kind : {"traffic_rate"}, rate : Nat]
      BY <2>2
    <2> HIDE DEF community
    <2>4. community \in Communities
      BY <2>3, Zenon DEF Communities
    <2> QED BY <2>4 DEF community, rule
  <1>6. CASE action.type = "FLOW_SPEC_ACTION_REDIRECT"
    <2>1. rule.ipv4_nexthops = <<action.redirect_ipv4>>
      BY <1>1, <1>6
    <2>2. Len(rule.ipv4_nexthops) = 1 /\ rule.ipv4_nexthops[1] = action.redirect_ipv4
      BY <2>1
    <2>3. community = NextHopCommunity(action.redirect_ipv4)
      BY <1>2, <1>6, <2>2 DEF build_attributes_for_gobgp_flowspec_announce
    <2>4. community = [kind |-> "redirect_ipv4", next_hop |-> action.redirect_ipv4]
      BY <2>3 DEF NextHopCommunity
    <2>5. community \in [kind : {"redirect_ipv4"}, next_hop : Octets(4)]
      BY <1>4, <2>4
    <2> HIDE DEF community
    <2>6. community \in Communities
      BY <2>5, Zenon DEF Communities
    <2> QED BY <2>6 DEF community, rule
  <1>7. CASE action.type = "FLOW_SPEC_ACTION_REDIRECT_VRF"
    <2>1. community = encode_bgp_flow_spec_action_as_extended_attribute(rule.action)
      BY <1>2, <1>7 DEF build_attributes_for_gobgp_flowspec_announce
    <2>2. RouteTargetValid(action.redirect_rt_as, action.redirect_rt_value)
      BY <1>7 DEF ConfiguredActions
    <2>3. community = TargetCommunity(action.redirect_rt_as, action.redirect_rt_value)
      BY <1>2, <1>7, <2>1, <2>2 DEF encode_bgp_flow_spec_action_as_extended_attribute
    <2> DEFINE kind == IF action.redirect_rt_as < 2 ^ 16 THEN "redirect_as_2byte" ELSE "redirect_as_4byte"
    <2>4. community = [kind |-> kind, as |-> action.redirect_rt_as, value |-> action.redirect_rt_value]
      BY <2>3 DEF TargetCommunity
    <2>5. kind \in {"redirect_as_2byte", "redirect_as_4byte"}
      OBVIOUS
    <2> HIDE DEF kind
    <2>6. community \in [kind : {"redirect_as_2byte", "redirect_as_4byte"}, as : Nat, value : Nat]
      BY <1>4, <2>4, <2>5
    <2> HIDE DEF community
    <2>7. community \in Communities
      BY <2>6, Zenon DEF Communities
    <2> QED BY <2>7 DEF community, rule
  <1> QED BY <1>4, <1>5, <1>6, <1>7 DEF rule

\* A path of a capture, with its key, its octets and its community.
LEMMA PathOfMatch ==
    ASSUME NEW m, Match(m), NEW action \in ConfiguredActions
    PROVE  LET rule == RuleFor(m[1], m[2], action)
           IN  PathSays(AnnounceFlowSpecIPv4(rule), rule, encode_bgp_flow_spec_elements_as_mp_nlri(rule))
  <1> DEFINE rule == RuleFor(m[1], m[2], action)
             n == encode_bgp_flow_spec_elements_as_mp_nlri(rule)
             mp == encode_bgp_flow_spec_elements_into_bgp_mp_attribute(rule)
             path == AnnounceFlowSpecIPv4(rule)
             p == rule.protocols
             d == rule.destination_ports
             prefix == [subnet_address |-> client_ip, cidr_prefix_length |-> 32]
  <1>1. /\ rule.destination_subnet_ipv4 = <<prefix>>
        /\ \A f \in {"source_subnet_ipv4", "source_ports", "tcp_flags", "packet_lengths",
                     "fragmentation_flags"} : rule[f] = << >>
        /\ MatchLists(p, d)
    BY RuleOfMatch
  <1>2. n # Refused /\ MatchNlri(n, p, d)
    BY NlriOfMatch
  <1>3. path.community \in Communities
    BY MatchCommunity DEF AnnounceFlowSpecIPv4
  <1>4. path.key = build_gobgp_flowspec_rule_key(rule) /\ path.nlri = mp
    BY DEF AnnounceFlowSpecIPv4
  <1> HIDE DEF rule, path
  <1>5. build_gobgp_flowspec_rule_key(rule) =
            [destination_ipv4 |-> client_ip, protocol |-> p, destination_port |-> d]
    <2> DEFINE s == rule.destination_subnet_ipv4
    <2>1. Len(s) = 1 /\ s[1] = prefix
      <3> HIDE DEF prefix
      <3> QED BY <1>1
    <2>2. s[1].cidr_prefix_length = 32 /\ s[1].subnet_address = client_ip
      BY <2>1
    <2> HIDE DEF s
    <2> HIDE DEF p, d
    <2>3. Len(p) <= 1 /\ Len(d) <= Len(p)
      <3>1. \/ p = << >> /\ d = << >>
            \/ \E x \in Uint8 : p = <<x>> /\ (d = << >> \/ \E y \in Uint16 : d = <<y>>)
        BY <1>1 DEF MatchLists
      <3>2. Len(<< >>) = 0 /\ \A x : Len(<<x>>) = 1
        OBVIOUS
      <3> DEFINE a == Len(p)
                 b == Len(d)
      <3>3. (a = 0 /\ b = 0) \/ (a = 1 /\ b \in {0, 1})
        BY <3>1, <3>2
      <3> HIDE DEF a, b
      <3>4. a <= 1 /\ b <= a
        BY <3>3
      <3> QED BY <3>4 DEF a, b
    <2> QED BY <2>1, <2>2, <2>3 DEF build_gobgp_flowspec_rule_key, s, p, d
  <1>6. Len(n) \in 0 .. 13
    BY <1>2 DEF MatchNlri
  <1>7. mp = <<Len(n)>> \o n
    <2> DEFINE k == Len(n)
    <2>4. k \in 0 .. 13
      BY <1>6
    <2> HIDE DEF n, k
    <2>1. k % 256 = k /\ ~(k % 256 >= 240)
      BY <2>4
    <2>2. mp = IF n = Refused THEN Refused ELSE IF k % 256 >= 240 THEN Refused ELSE <<k % 256>> \o n
      BY DEF encode_bgp_flow_spec_elements_into_bgp_mp_attribute, n, k
    <2> HIDE DEF mp
    <2>3. mp = <<k>> \o n
      BY <1>2, <2>1, <2>2
    <2> QED BY <2>3 DEF k
  <1>8. Len(n) \in Uint8
    BY <1>6 DEF Uint8
  <1> HIDE DEF n, mp, p, d
  <1>9. PathSays(path, rule, n)
    BY <1>1, <1>2, <1>3, <1>4, <1>5, <1>7, <1>8, Zenon DEF PathSays, mp, p, d
  <1> QED BY <1>9 DEF path, rule, n

\* Nothing of a path is refused.
LEMMA PathComplete ==
    ASSUME NEW path, NEW rule, NEW n, PathSays(path, rule, n)
    PROVE  Refused \notin {path.key, path.nlri, path.community}
  <1>1. path.community # Refused
    BY NoResultAssumption DEF PathSays
  <1>2. path.nlri # Refused
    <2>1. n \in Seq(Uint8) /\ Len(n) \in Uint8 /\ path.nlri = <<Len(n)>> \o n
      BY DEF PathSays, MatchNlri
    <2> DEFINE a == Len(n)
    <2>2. a \in Uint8 /\ path.nlri = <<a>> \o n
      BY <2>1
    <2> HIDE DEF a
    <2>3. path.nlri \in Seq(Uint8)
      BY <2>1, <2>2, LengthOctet
    <2> QED BY <2>3, NoResultAssumption
  <1>3. path.key # Refused
    <2>1. /\ rule.protocols \in Seq(Uint8) /\ rule.destination_ports \in Seq(Uint16)
          /\ path.key = [destination_ipv4 |-> client_ip, protocol |-> rule.protocols,
                         destination_port |-> rule.destination_ports]
      BY DEF PathSays, MatchLists
    <2>2. client_ip \in Octets(4)
      BY CaptureAssumption
    <2>3. path.key \in Keys
      BY <2>1, <2>2 DEF Keys
    <2> QED BY <2>3, NoResultAssumption
  <1> QED BY <1>1, <1>2, <1>3

\* One key is one NLRI.
LEMMA PathsApart ==
    ASSUME NEW p, NEW r, NEW n, PathSays(p, r, n), NEW q, NEW s, NEW o, PathSays(q, s, o)
    PROVE  p.key = q.key <=> p.nlri = q.nlri
  <1>1. /\ p.key = [destination_ipv4 |-> client_ip, protocol |-> r.protocols,
                    destination_port |-> r.destination_ports]
        /\ q.key = [destination_ipv4 |-> client_ip, protocol |-> s.protocols,
                    destination_port |-> s.destination_ports]
    BY DEF PathSays
  <1>2. p.key = q.key <=> r.protocols = s.protocols /\ r.destination_ports = s.destination_ports
    <2>1. /\ p.key.protocol = r.protocols /\ p.key.destination_port = r.destination_ports
          /\ q.key.protocol = s.protocols /\ q.key.destination_port = s.destination_ports
      BY <1>1
    <2> QED BY <1>1, <2>1
  <1>3. ASSUME r.protocols = s.protocols, r.destination_ports = s.destination_ports
        PROVE  p.nlri = q.nlri
    <2>1. \A f \in {"destination_subnet_ipv4", "source_subnet_ipv4", "protocols", "destination_ports",
                    "source_ports", "tcp_flags", "packet_lengths", "fragmentation_flags"} : r[f] = s[f]
      <3>1. r.destination_subnet_ipv4 = s.destination_subnet_ipv4
        BY DEF PathSays
      <3>2. \A f \in {"source_subnet_ipv4", "source_ports", "tcp_flags", "packet_lengths",
                      "fragmentation_flags"} : r[f] = s[f]
        BY Zenon DEF PathSays
      <3> QED BY <1>3, <3>1, <3>2
    <2>2. \A k \in 1 .. 8 : PartField[k] \in {"destination_subnet_ipv4", "source_subnet_ipv4", "protocols",
              "destination_ports", "source_ports", "tcp_flags", "packet_lengths", "fragmentation_flags"}
      BY DEF PartField
    <2>3. \A k \in 1 .. 8 : r[PartField[k]] = s[PartField[k]]
      BY <2>1, <2>2, Zenon
    <2>4. encode_bgp_flow_spec_elements_into_bgp_mp_attribute(r)
              = encode_bgp_flow_spec_elements_into_bgp_mp_attribute(s)
      BY <2>3, SameNlri
    <2> QED BY <2>4 DEF PathSays
  <1>4. ASSUME p.nlri = q.nlri
        PROVE  r.protocols = s.protocols /\ r.destination_ports = s.destination_ports
    <2> DEFINE a == Len(n)
               b == Len(o)
    <2>1. n \in Seq(Uint8) /\ o \in Seq(Uint8) /\ a \in Uint8 /\ b \in Uint8
      BY DEF PathSays, MatchNlri
    <2>2. <<a>> \o n = <<b>> \o o
      BY <1>4 DEF PathSays
    <2> HIDE DEF a, b
    <2>3. Tail(<<a>> \o n) = n
      BY <2>1, LengthOctet
    <2>4. Tail(<<b>> \o o) = o
      BY <2>1, LengthOctet
    <2>5. n = o
      BY <2>2, <2>3, <2>4, Zenon
    <2>6. MatchLists(r.protocols, r.destination_ports) /\ MatchNlri(n, r.protocols, r.destination_ports)
      BY DEF PathSays
    <2>7. MatchLists(s.protocols, s.destination_ports) /\ MatchNlri(n, s.protocols, s.destination_ports)
      BY <2>5 DEF PathSays
    <2> QED BY <2>6, <2>7, ListsApart
  <1> QED BY <1>2, <1>3, <1>4

-----------------------------------------------------------------------------
(* The paths of a capture.                                                 *)

\* What is handed over is a protocol and a port, and every path is built for such a pair.
PathsInv ==
    /\ attack \in Attacks
    /\ \A m \in classified : Match(m)
    /\ \A path \in paths : MatchPath(path)

\* A port comes out of a packet.
LEMMA PortsArePorts ==
    ASSUME samples \in Seq(Packets), NEW protocol
    PROVE  PortsSeen(protocol) \subseteq Uint16
  <1>1. \A i \in Counted(protocol) : i \in DOMAIN samples
    BY DEF Counted
  <1>2. \A i \in DOMAIN samples : samples[i] \in Packets
    OBVIOUS
  <1>3. \A packet \in Packets : packet.destination_port \in PortNumbers
    BY PortClassifierAssumption DEF PacketType
  <1>4. PortNumbers = Uint16
    BY DEF PortNumbers, Uint16
  <1> QED BY <1>1, <1>2, <1>3, <1>4 DEF PortsSeen

\* What the classifiers find are known protocols and port numbers.
LEMMA CaptureMatches ==
    ASSUME samples \in Seq(Packets), attack \in Attacks, NEW m \in MatchesOfCapture
    PROVE  Match(m)
  <1> DEFINE results == classify_refresh_protocols(samples, min_share_percent)
             protocol == attack.attack_protocol
             port == classify_destination_port(attack, samples).selected_destination_port
  <1>1. protocol \in DOMAIN ProtocolNumber /\ active_protocols \subseteq DOMAIN ProtocolNumber
    BY CaptureAssumption
  <1>2. port \in Uint16
    <2>1. port = 0 \/ (EnoughForBan /\ port = Dominant(Totals(samples, protocol)).port)
      BY BanDecides
    <2>2. EnoughForBan => Dominant(Totals(samples, protocol)).port \in PortsSeen(protocol)
      BY BestIsChosen
    <2>3. 0 \in Uint16
      BY DEF Uint16
    <2> HIDE DEF port
    <2> QED BY <2>1, <2>2, <2>3, PortsArePorts
  <1>3. ASSUME NEW a \in active_protocols PROVE results[a] \subseteq Uint16
    <2>1. results[a] = classify_refresh_protocol(a, samples, min_share_percent)
      BY DEF classify_refresh_protocols
    <2>2. min_share_percent \in Nat
      BY PortClassifierAssumption
    <2>3. \A x \in classify_refresh_protocol(a, samples, min_share_percent) : x \in PortsSeen(a)
      BY <2>2, RefreshDecides
    <2> QED BY <2>1, <2>3, PortsArePorts
  <1>4. \/ m = <<protocol, port>>
        \/ m \in active_protocols \X {0}
        \/ \E a \in active_protocols : m \in {a} \X results[a]
    BY DEF MatchesOfCapture
  <1> HIDE DEF results, protocol, port
  <1>5. 0 \in Uint16
    BY DEF Uint16
  <1>6. CASE m = <<protocol, port>>
    <2>1. m[1] = protocol /\ m[2] = port
      BY <1>6
    <2> QED BY <1>1, <1>2, <2>1 DEF Match
  <1>7. CASE m \in active_protocols \X {0}
    <2>1. m[1] \in active_protocols /\ m[2] = 0
      BY <1>7
    <2> QED BY <1>1, <1>5, <2>1 DEF Match
  <1>8. ASSUME NEW a \in active_protocols, m \in {a} \X results[a] PROVE Match(m)
    <2>1. m[1] = a /\ m[2] \in results[a]
      BY <1>8
    <2> QED BY <1>1, <1>3, <2>1 DEF Match
  <1> QED BY <1>4, <1>6, <1>7, <1>8

\* PathsInv is inductive, together with CaptureInv.
LEMMA PathsInvariant == RulesSpec => [](CaptureInv /\ PathsInv)
  <1>1. RulesInit => PathsInv
    <2>1. RulesInit => classified = {} /\ paths = {}
      BY DEF RulesInit, CodecInit
    <2>2. RulesInit => attack \in Attacks
      <3>1. (CHOOSE a \in Attacks : TRUE) \in Attacks
        BY CaptureAssumption
      <3> QED BY <3>1 DEF RulesInit, Init, NoCapture
    <2> QED BY <2>1, <2>2 DEF PathsInv
  <1>2. CaptureInv /\ PathsInv /\ [RulesNext]_rulesVars => PathsInv'
    <2> SUFFICES ASSUME CaptureInv, PathsInv, [RulesNext]_rulesVars PROVE PathsInv'
      OBVIOUS
    <2>1. CASE UNCHANGED <<attack, classified, paths>>
      BY <2>1 DEF PathsInv, Match, MatchPath
    <2>2. CASE ClassifyCapture
      <3>1. classified' = MatchesOfCapture /\ UNCHANGED <<attack, paths>>
        BY <2>2 DEF ClassifyCapture, codecVars
      <3>2. \A m \in MatchesOfCapture : Match(m)
        BY CaptureMatches DEF CaptureInv, PathsInv
      <3> QED BY <3>1, <3>2 DEF PathsInv, Match, MatchPath
    <2>3. CASE AnnounceCapture
      <3>1. PICK action \in ConfiguredActions :
                paths' = {AnnounceFlowSpecIPv4(RuleFor(m[1], m[2], action)) : m \in classified}
        BY <2>3 DEF AnnounceCapture
      <3>2. UNCHANGED <<attack, classified>>
        BY <2>3 DEF AnnounceCapture, vars
      <3>3. \A path \in paths' : MatchPath(path)
        <4> SUFFICES ASSUME NEW path \in paths' PROVE MatchPath(path)
          OBVIOUS
        <4>1. PICK m \in classified : path = AnnounceFlowSpecIPv4(RuleFor(m[1], m[2], action))
          BY <3>1
        <4>2. Match(m)
          BY DEF PathsInv
        <4> QED BY <4>1, <4>2 DEF MatchPath
      <3> QED BY <3>2, <3>3 DEF PathsInv, Match, MatchPath
    <2>4. CASE CaptureNext
      <3>1. ASSUME NEW packet \in Packets, add_packet_to_storage(packet), UNCHANGED <<classified, codecVars>>
            PROVE  PathsInv'
        BY <2>1, <3>1 DEF add_packet_to_storage, codecVars
      <3>2. ASSUME NEW path \in paths, Deliver(path), UNCHANGED <<classified, vars>>
            PROVE  PathsInv'
        BY <2>1, <3>2 DEF Deliver, vars
      <3> QED BY <2>2, <2>3, <2>4, <3>1, <3>2 DEF CaptureNext
    <2>5. CASE CodecNext /\ UNCHANGED <<vars, classified, whitelistVars>>
      <3>1. UNCHANGED paths
        BY <2>5 DEF CodecNext, Encode, Receive, Deliver, StartDecoding, Decode, decode_component,
                    decode_value, decode_end
      <3> QED BY <2>1, <2>5, <3>1 DEF vars
    <2>6. CASE UNCHANGED <<vars, classified, codecVars>>
      BY <2>1, <2>6 DEF vars, codecVars
    <2> QED BY <2>4, <2>5, <2>6 DEF RulesNext, rulesVars
  <1> QED BY <1>1, <1>2, CaptureInvariant, PTL DEF RulesSpec

(***************************************************************************)
(* Every rule a capture can lead to has a key, an NLRI and a community,    *)
(* and two of them share an NLRI exactly when they share a key: what the   *)
(* lifecycle table thinks of as one rule is one path of GoBGP, for every   *)
(* capture and every configured action.                                    *)
(***************************************************************************)
THEOREM PathsHaveKeys == RulesSpec => []KeysIdentifyPaths
  <1>1. PathsInv => KeysIdentifyPaths
    <2> SUFFICES ASSUME PathsInv PROVE KeysIdentifyPaths
      OBVIOUS
    <2>1. ASSUME NEW path \in paths
          PROVE  \E rule : PathSays(path, rule, encode_bgp_flow_spec_elements_as_mp_nlri(rule))
      <3>1. MatchPath(path)
        BY DEF PathsInv
      <3>4. PICK m : \E action \in ConfiguredActions :
                Match(m) /\ path = AnnounceFlowSpecIPv4(RuleFor(m[1], m[2], action))
        BY <3>1 DEF MatchPath
      <3>2. PICK action \in ConfiguredActions :
                Match(m) /\ path = AnnounceFlowSpecIPv4(RuleFor(m[1], m[2], action))
        BY <3>4
      <3>3. PathSays(path, RuleFor(m[1], m[2], action),
                     encode_bgp_flow_spec_elements_as_mp_nlri(RuleFor(m[1], m[2], action)))
        BY <3>2, PathOfMatch
      <3> QED BY <3>3
    <2>2. \A path \in paths : Refused \notin {path.key, path.nlri, path.community}
      BY <2>1, PathComplete
    <2>3. \A p, q \in paths : p.key = q.key <=> p.nlri = q.nlri
      BY <2>1, PathsApart
    <2> QED BY <2>2, <2>3 DEF KeysIdentifyPaths
  <1> QED BY <1>1, PathsInvariant, PTL

-----------------------------------------------------------------------------
(* The action a peer reads.                                                *)

\* What is read of a community is what AnnouncedAction says of its rule.
LEMMA ActionReadsBack ==
    ASSUME NEW rule, WellTyped(rule), NEW community, community # Refused,
           \/ community = build_attributes_for_gobgp_flowspec_announce(rule)
           \/ community = build_attributes_for_flowspec_announce(rule)
    PROVE  decode_community(community) = AnnouncedAction(rule, community)
  <1> DEFINE a == rule.action
             hops == rule.ipv4_nexthops
             coded == encode_bgp_flow_spec_action_as_extended_attribute(a)
             read == decode_community(community)
             told == AnnouncedAction(rule, community)
  <1>1. a \in Actions /\ hops \in Seq(Octets(4))
    BY Zenon DEF WellTyped
  <1>2. /\ a.type \in ActionTypes /\ a.rate_limit \in Nat /\ a.redirect_as \in Uint16 /\ a.redirect_value \in Nat
        /\ a.redirect_rt_as \in Nat /\ a.redirect_rt_value \in Nat
    <2> HIDE DEF a
    <2> QED BY <1>1 DEF Actions
  <1>3. hops # << >> => hops[1] \in Octets(4)
    <2> HIDE DEF hops
    <2> QED BY <1>1
  <1>4. /\ \A x \in Nat : RateCommunity(x) # NoBuffer
        /\ \A x, y \in Nat : TargetCommunity(x, y) # NoBuffer
        /\ \A x \in Octets(4) : NextHopCommunity(x) # NoBuffer
    <2>1. ASSUME NEW x \in Nat PROVE RateCommunity(x) \in Communities
      <3>1. RateCommunity(x) \in [kind : {"traffic_rate"}, rate : Nat]
        BY DEF RateCommunity
      <3> QED BY <3>1, Zenon DEF Communities
    <2>2. ASSUME NEW x \in Nat, NEW y \in Nat PROVE TargetCommunity(x, y) \in Communities
      <3> DEFINE kind == IF x < 2 ^ 16 THEN "redirect_as_2byte" ELSE "redirect_as_4byte"
      <3>1. kind \in {"redirect_as_2byte", "redirect_as_4byte"}
        OBVIOUS
      <3>2. TargetCommunity(x, y) = [kind |-> kind, as |-> x, value |-> y]
        BY DEF TargetCommunity
      <3> HIDE DEF kind
      <3>3. TargetCommunity(x, y) \in [kind : {"redirect_as_2byte", "redirect_as_4byte"}, as : Nat, value : Nat]
        BY <3>1, <3>2
      <3> QED BY <3>3, Zenon DEF Communities
    <2>3. ASSUME NEW x \in Octets(4) PROVE NextHopCommunity(x) \in Communities
      <3>1. NextHopCommunity(x) \in [kind : {"redirect_ipv4"}, next_hop : Octets(4)]
        BY DEF NextHopCommunity
      <3> QED BY <3>1, Zenon DEF Communities
    <2> QED BY <2>1, <2>2, <2>3, NoResultAssumption
  <1> HIDE DEF a, hops
  <1>5. /\ community = build_attributes_for_gobgp_flowspec_announce(rule) =>
               \/ /\ a.type \in {"FLOW_SPEC_ACTION_DISCARD", "FLOW_SPEC_ACTION_REDIRECT_VRF"}
                  /\ community = coded
               \/ /\ a.type \in {"FLOW_SPEC_ACTION_REDIRECT", "FLOW_SPEC_ACTION_ACCEPT"}
                  /\ Len(hops) = 1 /\ community = NextHopCommunity(hops[1])
        /\ community = build_attributes_for_flowspec_announce(rule) =>
               \/ a.type # "FLOW_SPEC_ACTION_ACCEPT" /\ community = coded
               \/ /\ a.type = "FLOW_SPEC_ACTION_ACCEPT"
                  /\ (hops # << >> /\ community = NextHopCommunity(hops[1])) \/ community = NoBuffer
    <2> HIDE DEF coded
    <2>1. coded = encode_bgp_flow_spec_action_as_extended_attribute(rule.action)
      BY DEF coded, a
    <2> QED BY <2>1 DEF build_attributes_for_gobgp_flowspec_announce, build_attributes_for_flowspec_announce, a, hops
  <1>6. Len(hops) = 1 => hops # << >>
    BY <1>1
  <1>7. ASSUME NEW h \in Octets(4), community = NextHopCommunity(h),
               a.type \in {"FLOW_SPEC_ACTION_REDIRECT", "FLOW_SPEC_ACTION_ACCEPT"}
        PROVE  read = told
    <2>1. community # NoBuffer /\ community.kind = "redirect_ipv4"
      BY <1>4, <1>7 DEF NextHopCommunity
    <2>2. read = Accept
      BY <2>1 DEF decode_community
    <2>3. told = Accept
      BY <1>7, <2>1 DEF AnnouncedAction, a
    <2> QED BY <2>2, <2>3
  <1>8. ASSUME NEW x \in Nat, community = RateCommunity(x),
               \/ a.type = "FLOW_SPEC_ACTION_DISCARD" /\ x = 0
               \/ a.type = "FLOW_SPEC_ACTION_RATE_LIMIT" /\ x = a.rate_limit
        PROVE  read = told
    <2>1. community # NoBuffer /\ community.kind = "traffic_rate" /\ community.rate = x
      BY <1>4, <1>8 DEF RateCommunity
    <2>2. read = IF x = 0 THEN [Accept EXCEPT !.type = "FLOW_SPEC_ACTION_DISCARD"]
                 ELSE [Accept EXCEPT !.type = "FLOW_SPEC_ACTION_RATE_LIMIT", !.rate_limit = x]
      BY <2>1 DEF decode_community
    <2>3. CASE x = 0
      <3>1. told = [Accept EXCEPT !.type = "FLOW_SPEC_ACTION_DISCARD"]
        BY <1>8, <2>3 DEF AnnouncedAction, a
      <3> QED BY <2>2, <2>3, <3>1
    <2>4. CASE x # 0
      <3>1. a.type = "FLOW_SPEC_ACTION_RATE_LIMIT" /\ x = a.rate_limit /\ x > 0
        BY <1>8, <2>4
      <3>2. told = [Accept EXCEPT !.type = "FLOW_SPEC_ACTION_RATE_LIMIT", !.rate_limit = x]
        BY <3>1 DEF AnnouncedAction, a
      <3> QED BY <2>2, <2>4, <3>2
    <2> QED BY <2>3, <2>4
  <1>9. ASSUME NEW x \in Nat, NEW y \in Nat, community = TargetCommunity(x, y),
               \/ a.type = "FLOW_SPEC_ACTION_REDIRECT" /\ x = a.redirect_as /\ y = a.redirect_value
               \/ a.type = "FLOW_SPEC_ACTION_REDIRECT_VRF" /\ x = a.redirect_rt_as /\ y = a.redirect_rt_value
        PROVE  read = told
    <2>1. /\ community # NoBuffer /\ community.as = x /\ community.value = y
          /\ community.kind = IF x < 2 ^ 16 THEN "redirect_as_2byte" ELSE "redirect_as_4byte"
      BY <1>4, <1>9 DEF TargetCommunity
    <2>2. read = IF x < 2 ^ 16
                 THEN [Accept EXCEPT !.type = "FLOW_SPEC_ACTION_REDIRECT", !.redirect_as = x, !.redirect_value = y]
                 ELSE Accept
      BY <2>1 DEF decode_community
    <2>3. CASE a.type = "FLOW_SPEC_ACTION_REDIRECT"
      <3>1. x < 2 ^ 16
        <4>1. 2 ^ 16 = 65536
          OBVIOUS
        <4>2. x \in Uint16
          BY <1>2, <1>9, <2>3
        <4>3. x <= 65535
          BY <4>2 DEF Uint16
        <4> QED BY <4>1, <4>3
      <3>2. community.kind # "redirect_ipv4"
        BY <2>1
      <3>3. told = [Accept EXCEPT !.type = "FLOW_SPEC_ACTION_REDIRECT", !.redirect_as = x, !.redirect_value = y]
        BY <1>9, <2>3, <3>2 DEF AnnouncedAction, a
      <3> QED BY <2>2, <3>1, <3>3
    <2>4. CASE a.type = "FLOW_SPEC_ACTION_REDIRECT_VRF"
      <3>1. told = IF x < 2 ^ 16
                   THEN [Accept EXCEPT !.type = "FLOW_SPEC_ACTION_REDIRECT", !.redirect_as = x, !.redirect_value = y]
                   ELSE Accept
        BY <1>9, <2>4 DEF AnnouncedAction, a
      <3> QED BY <2>2, <3>1
    <2> QED BY <1>9, <2>3, <2>4
  <1>10. ASSUME community = coded PROVE read = told
    <2>1. CASE a.type = "FLOW_SPEC_ACTION_DISCARD"
      <3>1. community = RateCommunity(0) /\ 0 \in Nat
        BY <1>10, <2>1 DEF encode_bgp_flow_spec_action_as_extended_attribute
      <3> QED BY <1>8, <2>1, <3>1
    <2>2. CASE a.type = "FLOW_SPEC_ACTION_RATE_LIMIT"
      <3>1. community = RateCommunity(a.rate_limit)
        BY <1>10, <2>2 DEF encode_bgp_flow_spec_action_as_extended_attribute
      <3> QED BY <1>2, <1>8, <2>2, <3>1
    <2>3. CASE a.type = "FLOW_SPEC_ACTION_REDIRECT"
      <3>1. community = TargetCommunity(a.redirect_as, a.redirect_value)
        BY <1>10, <2>3 DEF encode_bgp_flow_spec_action_as_extended_attribute
      <3>2. a.redirect_as \in Nat
        BY <1>2, Uint16IsNat
      <3> QED BY <1>2, <1>9, <2>3, <3>1, <3>2
    <2>4. CASE a.type = "FLOW_SPEC_ACTION_REDIRECT_VRF"
      <3>1. community = TargetCommunity(a.redirect_rt_as, a.redirect_rt_value)
        BY <1>10, <2>4 DEF encode_bgp_flow_spec_action_as_extended_attribute
      <3> QED BY <1>2, <1>9, <2>4, <3>1
    <2>5. CASE a.type \in {"FLOW_SPEC_ACTION_ACCEPT", "FLOW_SPEC_ACTION_MARK"}
      <3>1. community = Refused
        BY <1>10, <2>5 DEF encode_bgp_flow_spec_action_as_extended_attribute
      <3> QED BY <3>1
    <2> QED BY <1>2, <2>1, <2>2, <2>3, <2>4, <2>5 DEF ActionTypes
  <1>11. ASSUME community = NoBuffer, a.type = "FLOW_SPEC_ACTION_ACCEPT" PROVE read = told
    <2>1. read = Accept
      BY <1>11 DEF decode_community
    <2>2. told = Accept
      BY <1>11 DEF AnnouncedAction, a
    <2> QED BY <2>1, <2>2
  <1> HIDE DEF coded, read, told
  <1>14. ASSUME hops # << >>, community = NextHopCommunity(hops[1]),
                a.type \in {"FLOW_SPEC_ACTION_REDIRECT", "FLOW_SPEC_ACTION_ACCEPT"}
         PROVE  read = told
    <2> DEFINE h == hops[1]
    <2>1. h \in Octets(4) /\ community = NextHopCommunity(h)
      BY <1>3, <1>14
    <2> HIDE DEF h
    <2> QED BY <1>7, <1>14, <2>1
  <1>12. ASSUME community = build_attributes_for_gobgp_flowspec_announce(rule) PROVE read = told
    BY <1>5, <1>6, <1>10, <1>12, <1>14, Zenon
  <1>13. ASSUME community = build_attributes_for_flowspec_announce(rule) PROVE read = told
    <2>1. a.type = "FLOW_SPEC_ACTION_ACCEPT" => a.type \in {"FLOW_SPEC_ACTION_REDIRECT", "FLOW_SPEC_ACTION_ACCEPT"}
      OBVIOUS
    <2> QED BY <1>5, <1>10, <1>11, <1>13, <1>14, <2>1, Zenon
  <1> QED BY <1>12, <1>13 DEF read, told

-----------------------------------------------------------------------------
(* An NLRI as the decoder finds it.                                        *)

\* A prefix component that begins behind the b-th octet and has `size` octets.
PrefixAt(n, b, size, k, list) ==
    LET prefix == list[1]
        bytes == how_much_bytes_we_need(prefix.cidr_prefix_length)
    IN  /\ list = << >> => size = 0
        /\ list # << >> =>
               /\ prefix \in Subnets /\ list = <<prefix>> /\ size = 2 + bytes
               /\ n[b + 1] = k /\ n[b + 2] = prefix.cidr_prefix_length
               /\ \A i \in 1 .. bytes :
                      n[b + 2 + i] = Masked(prefix.subnet_address, prefix.cidr_prefix_length)[i]

\* A list component.
ListAt(n, b, size, k, list) ==
    LET turn == 1 + PartWidth[k]
    IN  /\ list \in Seq(PartValues(k))
        /\ list = << >> => size = 0
        /\ list # << >> =>
               /\ size = 1 + Len(list) * turn /\ n[b + 1] = PartType[k]
               /\ \A i \in 1 .. Len(list) :
                      /\ n[b + 2 + (i - 1) * turn]
                             = PartOperator[k] + (IF i = Len(list) THEN 128 ELSE 0)
                      /\ \A x \in 1 .. PartWidth[k] :
                             n[b + 2 + (i - 1) * turn + x] = SentOctets(k, list[i])[x]

Layout(rule, n, l, e) ==
    /\ l \in [1 .. 8 -> Nat] /\ e \in [0 .. 8 -> Nat] /\ Ends(e, l)
    /\ n \in Seq(Uint8) /\ Len(n) = e[8]
    /\ {} \notin ToSet(rule.tcp_flags)
    /\ \A k \in {1, 2} : PrefixAt(n, e[k - 1], l[k], k, rule[PartField[k]])
    /\ \A k \in 3 .. 8 : ListAt(n, e[k - 1], l[k], k, rule[PartField[k]])

\* A component within an NLRI.
LEMMA PrefixWithin ==
    ASSUME NEW n, NEW b \in Nat, NEW size \in Nat, NEW k \in {1, 2}, NEW list, NEW c,
           PrefixPlaces(c, k, list), Len(c) = size, \A x \in 1 .. size : n[b + x] = c[x]
    PROVE  PrefixAt(n, b, size, k, list)
  <1>1. CASE list = << >>
    <2>1. c = << >> /\ Len(<< >>) = 0
      BY <1>1 DEF PrefixPlaces
    <2> QED BY <1>1, <2>1 DEF PrefixAt
  <1>2. CASE list # << >>
    <2> DEFINE prefix == list[1]
               length == prefix.cidr_prefix_length
               bytes == how_much_bytes_we_need(length)
               m == Masked(prefix.subnet_address, length)
    <2>1. prefix \in Subnets /\ list = <<prefix>> /\ PrefixOctets(c, k, prefix)
      BY <1>2 DEF PrefixPlaces
    <2>2. size = 2 + bytes /\ c[1] = k /\ c[2] = length /\ \A i \in 1 .. bytes : c[2 + i] = m[i]
      BY <2>1 DEF PrefixOctets
    <2>3. bytes \in 0 .. 4
      <3>1. prefix.subnet_address \in Octets(4) /\ length \in 0 .. 32
        <4> HIDE DEF prefix
        <4> QED BY <2>1 DEF Subnets
      <3> HIDE DEF length
      <3> QED BY <3>1, MaskedAgain
    <2> HIDE DEF bytes, m, length
    <2>4. 1 \in 1 .. size /\ 2 \in 1 .. size /\ \A i \in 1 .. bytes : 2 + i \in 1 .. size
      BY <2>2, <2>3
    <2>5. n[b + 1] = k /\ n[b + 2] = length
      BY <2>2, <2>4
    <2>6. \A i \in 1 .. bytes : n[b + 2 + i] = m[i]
      <3> SUFFICES ASSUME NEW i \in 1 .. bytes PROVE n[b + 2 + i] = m[i]
        OBVIOUS
      <3>1. b + (2 + i) = b + 2 + i
        BY <2>3
      <3>2. n[b + (2 + i)] = c[2 + i]
        BY <2>4
      <3> QED BY <2>2, <3>1, <3>2
    <2> QED BY <1>2, <2>1, <2>2, <2>5, <2>6 DEF PrefixAt, bytes, m, length
  <1> QED BY <1>1, <1>2

\* The octets of a list component, where it lies in the NLRI.
LEMMA ListWithin ==
    ASSUME NEW n, NEW b \in Nat, NEW size \in Nat, NEW k \in 3 .. 8, NEW list \in Seq(PartValues(k)), NEW c,
           ListPlaces(c, k, list), Len(c) = size, \A x \in 1 .. size : n[b + x] = c[x]
    PROVE  ListAt(n, b, size, k, list)
  <1>1. CASE list = << >>
    <2>1. c = << >> /\ Len(<< >>) = 0
      BY <1>1 DEF ListPlaces
    <2> QED BY <1>1, <2>1 DEF ListAt
  <1>2. CASE list # << >>
    <2> DEFINE octets == SentList(k, list)
               w == PartWidth[k]
               N == Len(list)
               op(i) == PartOperator[k] + (IF i = N THEN 128 ELSE 0)
    <2>1. N \in Nat /\ DOMAIN list = 1 .. N
      OBVIOUS
    <2>2. w \in {1, 2}
      <3>1. k = 3 \/ k = 4 \/ k = 5 \/ k = 6 \/ k = 7 \/ k = 8
        OBVIOUS
      <3> QED BY <3>1 DEF PartWidth
    <2>3. /\ Len(octets) = N
          /\ \A i \in 1 .. N : octets[i] = SentOctets(k, list[i])
      <3>1. octets = [i \in 1 .. N |-> SentOctets(k, list[i])]
        BY <2>1 DEF SentList
      <3> DEFINE T == {SentOctets(k, list[i]) : i \in 1 .. N}
      <3>2. octets \in [1 .. N -> T]
        BY <3>1
      <3> HIDE DEF octets, N, T
      <3>3. Len(octets) = N
        BY <2>1, <3>2, FunctionIsSequence
      <3> QED BY <3>1, <3>3
    <2>4. Placed(c, PartType[k], PartOperator[k], w, octets)
      BY <1>2 DEF ListPlaces
    <2> HIDE DEF octets, w, N
    <2>5. /\ size = 1 + N * (1 + w) /\ c[1] = PartType[k]
          /\ \A i \in 1 .. N :
                 /\ c[2 + (i - 1) * (1 + w)] = op(i)
                 /\ \A x \in 1 .. w : c[2 + (i - 1) * (1 + w) + x] = octets[i][x]
      BY <2>3, <2>4 DEF Placed
    <2>6. 1 \in 1 .. size
      BY <2>1, <2>2, <2>5
    <2>7. ASSUME NEW i \in 1 .. N
          PROVE  /\ n[b + 2 + (i - 1) * (1 + w)] = op(i)
                 /\ \A x \in 1 .. w : n[b + 2 + (i - 1) * (1 + w) + x] = SentOctets(k, list[i])[x]
      <3> DEFINE t == (i - 1) * (1 + w)
                 s == N * (1 + w)
      <3>1. t \in Nat /\ s \in Nat /\ t + 1 + w <= s
        <4>1. CASE w = 1
          BY <2>1, <4>1
        <4>2. CASE w = 2
          BY <2>1, <4>2
        <4> QED BY <2>2, <4>1, <4>2
      <3>2. size = 1 + s /\ c[2 + t] = op(i) /\ \A x \in 1 .. w : c[2 + t + x] = octets[i][x]
        BY <2>5
      <3> HIDE DEF t, s, op
      <3>3. 2 + t \in 1 .. size /\ b + (2 + t) = b + 2 + t
        BY <2>2, <3>1, <3>2
      <3>4. n[b + (2 + t)] = c[2 + t]
        BY <3>3
      <3>5. n[b + 2 + t] = op(i)
        BY <3>2, <3>3, <3>4
      <3>6. ASSUME NEW x \in 1 .. w PROVE n[b + 2 + t + x] = octets[i][x]
        <4>3. x \in Nat /\ x <= w /\ w \in Nat
          BY <2>2
        <4>4. size = 1 + s
          BY <3>2
        <4>1. 2 + t + x \in 1 .. size /\ b + (2 + t + x) = b + 2 + t + x
          BY <3>1, <4>3, <4>4
        <4>2. n[b + (2 + t + x)] = c[2 + t + x]
          BY <4>1
        <4> QED BY <3>2, <4>1, <4>2
      <3> QED BY <2>3, <3>5, <3>6 DEF t
    <2>8. n[b + 1] = PartType[k]
      BY <2>5, <2>6
    <2> QED BY <1>2, <2>5, <2>7, <2>8 DEF ListAt, w, N
  <1> QED BY <1>1, <1>2

\* The NLRI of a well typed rule is laid out so.
LEMMA LayoutExists ==
    ASSUME NEW rule, WellTyped(rule), encode_bgp_flow_spec_elements_as_mp_nlri(rule) # Refused
    PROVE  \E l \in [1 .. 8 -> Nat] : \E e \in [0 .. 8 -> Nat] :
               Layout(rule, encode_bgp_flow_spec_elements_as_mp_nlri(rule), l, e)
  <1> DEFINE n == encode_bgp_flow_spec_elements_as_mp_nlri(rule)
             P == Parts(rule)
  <1>1. PICK l \in [1 .. 8 -> Nat] : \E e \in [0 .. 8 -> Nat] :
            /\ Parted(P, Uint8, l) /\ Ends(e, l)
            /\ Laid(n, Uint8, e, l, P, 8) /\ {} \notin ToSet(rule.tcp_flags)
    BY RuleLaidOut
  <1>2. PICK e \in [0 .. 8 -> Nat] :
            /\ Parted(P, Uint8, l) /\ Ends(e, l)
            /\ Laid(n, Uint8, e, l, P, 8) /\ {} \notin ToSet(rule.tcp_flags)
    BY <1>1
  <1>3. n \in Seq(Uint8) /\ Len(n) = e[8]
    BY <1>2 DEF Laid
  <1>4. \A k \in 1 .. 8 : P[k] = Part(rule, k) /\ Len(P[k]) = l[k]
    BY <1>2 DEF Parts, Parted
  <1>5. \A k \in 1 .. 8 : \A x \in 1 .. l[k] : n[e[k - 1] + x] = P[k][x]
    BY <1>2 DEF Laid
  <1> HIDE DEF n, P
  <1>6. ASSUME NEW k \in 1 .. 8
        PROVE  /\ e[k - 1] \in Nat /\ l[k] \in Nat /\ Len(Part(rule, k)) = l[k]
               /\ \A x \in 1 .. l[k] : n[e[k - 1] + x] = Part(rule, k)[x]
    <2>1. k - 1 \in 0 .. 8
      OBVIOUS
    <2>2. e[k - 1] \in Nat /\ l[k] \in Nat
      BY <2>1
    <2>3. P[k] = Part(rule, k) /\ Len(P[k]) = l[k]
      BY <1>4
    <2> QED BY <1>5, <2>2, <2>3
  <1>7. ASSUME NEW k \in {1, 2} PROVE PrefixAt(n, e[k - 1], l[k], k, rule[PartField[k]])
    <2> DEFINE b == e[k - 1]
               size == l[k]
               c == Part(rule, k)
               list == rule[PartField[k]]
    <2>1. PrefixPlaces(c, k, list)
      BY PrefixPart
    <2>2. k \in 1 .. 8
      OBVIOUS
    <2>3. b \in Nat /\ size \in Nat /\ Len(c) = size /\ \A x \in 1 .. size : n[b + x] = c[x]
      BY <1>6, <2>2
    <2> HIDE DEF b, size, c, list
    <2>4. PrefixAt(n, b, size, k, list)
      BY <2>1, <2>3, PrefixWithin
    <2> QED BY <2>4 DEF b, size, list
  <1>8. ASSUME NEW k \in 3 .. 8 PROVE ListAt(n, e[k - 1], l[k], k, rule[PartField[k]])
    <2> DEFINE b == e[k - 1]
               size == l[k]
               c == Part(rule, k)
               list == rule[PartField[k]]
    <2>1. ListPlaces(c, k, list) /\ list \in Seq(PartValues(k))
      BY ListPart, ListTypes
    <2>2. k \in 1 .. 8
      OBVIOUS
    <2>3. b \in Nat /\ size \in Nat /\ Len(c) = size /\ \A x \in 1 .. size : n[b + x] = c[x]
      BY <1>6, <2>2
    <2> HIDE DEF b, size, c, list
    <2>4. ListAt(n, b, size, k, list)
      BY <2>1, <2>3, ListWithin
    <2> QED BY <2>4 DEF b, size, list
  <1>9. Layout(rule, n, l, e)
    BY <1>2, <1>3, <1>7, <1>8, Zenon DEF Layout
  <1> QED BY <1>9 DEF n

-----------------------------------------------------------------------------
(* One step of the decoder, on any octets.                                 *)

\* The decoder has looked at no octet behind the length it was given.
Shape(d) ==
    /\ DOMAIN d = {"at", "cursor", "length", "type", "items", "rule", "touched"}
    /\ DOMAIN d.rule = DOMAIN EmptyRule
    /\ d.cursor \in Nat /\ d.length \in Nat /\ d.touched \in Nat /\ d.touched <= d.length

\* Only the furthest octet that was looked at changes.
OnlyTouched(d, c) ==
    /\ Shape(c) /\ c.at = d.at /\ c.cursor = d.cursor /\ c.length = d.length /\ c.type = d.type
    /\ c.items = d.items /\ c.rule = d.rule

\* Whatever the decoder looks at is an octet.
LEMMA OctetTyped ==
    ASSUME NEW n \in Seq(Uint8), NEW i
    PROVE  Octet(n, i) \in Uint8
  <1>1. \A j \in DOMAIN n : n[j] \in Uint8
    OBVIOUS
  <1>2. 0 \in Uint8
    BY DEF Uint8
  <1> QED BY <1>1, <1>2, Zenon DEF Octet

\* Looking at an octet within the length keeps the decoder within it.
LEMMA TouchShape ==
    ASSUME NEW d, Shape(d), NEW last \in Nat, last <= d.length
    PROVE  OnlyTouched(d, Touch(d, last))
  <1> DEFINE t == IF last > d.touched THEN last ELSE d.touched
             c == Touch(d, last)
  <1>1. t \in Nat /\ t <= d.length
    BY DEF Shape
  <1>2. c = [d EXCEPT !.touched = t]
    BY DEF Touch
  <1> HIDE DEF t, c
  <1>3. DOMAIN d = {"at", "cursor", "length", "type", "items", "rule", "touched"}
    BY DEF Shape
  <1>4. /\ DOMAIN c = DOMAIN d /\ c.touched = t /\ c.at = d.at /\ c.cursor = d.cursor /\ c.length = d.length
        /\ c.type = d.type /\ c.items = d.items /\ c.rule = d.rule
    BY <1>2, <1>3
  <1>5. Shape(c)
    BY <1>1, <1>3, <1>4 DEF Shape
  <1> QED BY <1>4, <1>5 DEF OnlyTouched, c

\* So does giving up.
LEMMA RefuseShape ==
    ASSUME NEW d, Shape(d)
    PROVE  Shape(Refuse(d)) /\ Refuse(d).at = "refused" /\ Refuse(d).length = d.length
  <1>1. DOMAIN d = {"at", "cursor", "length", "type", "items", "rule", "touched"}
    BY DEF Shape
  <1> DEFINE c == Refuse(d)
  <1>2. c = [d EXCEPT !.at = "refused"]
    BY DEF Refuse
  <1> HIDE DEF c
  <1>3. /\ DOMAIN c = DOMAIN d /\ c.touched = d.touched /\ c.at = "refused" /\ c.cursor = d.cursor
        /\ c.length = d.length /\ c.rule = d.rule
    BY <1>1, <1>2
  <1>4. Shape(c)
    BY <1>3 DEF Shape
  <1> QED BY <1>3, <1>4 DEF c

\* A prefix is read whole or refused.
LEMMA PrefixStep ==
    ASSUME NEW d, Shape(d), NEW n \in Seq(Uint8), NEW field \in DOMAIN EmptyRule
    PROVE  LET r == decode_prefix(d, n, field)
               length == Octet(n, d.cursor + 1)
               bytes == how_much_bytes_we_need(length)
               address == [i \in 1 .. 4 |-> IF i <= bytes THEN Octet(n, d.cursor + 1 + i) ELSE 0]
               bad == d.rule[field] # << >> \/ Left(d) < 2 \/ length > 32 \/ Left(d) < 2 + bytes
           IN  /\ Shape(r) /\ r.length = d.length
               /\ bad => r.at = "refused"
               /\ ~bad => /\ r.at = d.at /\ r.cursor = d.cursor + 2 + bytes
                          /\ r.rule = [d.rule EXCEPT ![field] =
                                  <<[subnet_address |-> Masked(address, length), cidr_prefix_length |-> length]>>]
  <1> DEFINE r == decode_prefix(d, n, field)
             at == Touch(d, d.cursor + 1)
             length == Octet(n, d.cursor + 1)
             bytes == how_much_bytes_we_need(length)
             full == Touch(at, d.cursor + 1 + bytes)
             address == [i \in 1 .. 4 |-> IF i <= bytes THEN Octet(n, d.cursor + 1 + i) ELSE 0]
             value == <<[subnet_address |-> Masked(address, length), cidr_prefix_length |-> length]>>
             Short == d.rule[field] # << >> \/ Left(d) < 2
             Cut == length > 32 \/ Left(d) < 2 + bytes
  <1>1. r = IF Short THEN Refuse(d) ELSE IF Cut THEN Refuse(at)
            ELSE [full EXCEPT !.cursor = @ + 2 + bytes, !.rule[field] = value]
    BY DEF decode_prefix
  <1>2. Left(d) = d.length + 1 - d.cursor
    BY DEF Left
  <1>3. d.cursor \in Nat /\ d.length \in Nat
    BY DEF Shape
  <1>4. length \in Nat /\ bytes \in Nat
    <2>1. length \in 0 .. 255
      BY OctetTyped DEF Uint8
    <2> HIDE DEF length
    <2> QED BY <2>1 DEF how_much_bytes_we_need
  <1> HIDE DEF r, at, length, bytes, full, value
  <1>5. ASSUME Short PROVE Shape(r) /\ r.length = d.length /\ r.at = "refused"
    <2>1. r = Refuse(d)
      BY <1>1, <1>5, Zenon
    <2> QED BY <2>1, RefuseShape
  <1>6. ASSUME ~Short PROVE OnlyTouched(d, at)
    <2>1. d.cursor + 1 \in Nat /\ d.cursor + 1 <= d.length
      BY <1>2, <1>3, <1>6
    <2> QED BY <2>1, TouchShape DEF at
  <1>7. ASSUME ~Short, Cut PROVE Shape(r) /\ r.length = d.length /\ r.at = "refused"
    <2>1. Shape(at) /\ at.length = d.length /\ r = Refuse(at)
      BY <1>1, <1>6, <1>7 DEF OnlyTouched
    <2> QED BY <2>1, RefuseShape
  <1>8. ASSUME ~Short, ~Cut
        PROVE  /\ Shape(r) /\ r.length = d.length /\ r.at = d.at /\ r.cursor = d.cursor + 2 + bytes
               /\ r.rule = [d.rule EXCEPT ![field] = value]
    <2>1. OnlyTouched(d, at)
      BY <1>6, <1>8
    <2>2. OnlyTouched(at, full)
      <3>1. d.cursor + 1 + bytes \in Nat /\ d.cursor + 1 + bytes <= at.length /\ Shape(at)
        BY <1>2, <1>3, <1>4, <1>8, <2>1 DEF OnlyTouched
      <3> QED BY <3>1, TouchShape DEF full
    <2>3. /\ Shape(full) /\ full.at = d.at /\ full.cursor = d.cursor /\ full.length = d.length
          /\ full.rule = d.rule
      BY <2>1, <2>2 DEF OnlyTouched
    <2>4. /\ DOMAIN full = {"at", "cursor", "length", "type", "items", "rule", "touched"}
          /\ DOMAIN full.rule = DOMAIN EmptyRule /\ full.touched \in Nat /\ full.touched <= full.length
      BY <2>3 DEF Shape
    <2>5. r = [full EXCEPT !.cursor = @ + 2 + bytes, !.rule[field] = value]
      BY <1>1, <1>8
    <2>6. /\ DOMAIN r = DOMAIN full /\ r.at = full.at /\ r.cursor = full.cursor + 2 + bytes
          /\ r.length = full.length /\ r.touched = full.touched /\ r.rule = [full.rule EXCEPT ![field] = value]
      BY <2>4, <2>5
    <2>7. DOMAIN r.rule = DOMAIN EmptyRule
      BY <2>4, <2>6
    <2>8. Shape(r)
      BY <1>3, <1>4, <2>3, <2>4, <2>6, <2>7 DEF Shape
    <2> QED BY <2>3, <2>6, <2>8
  <1>9. /\ Shape(r) /\ r.length = d.length
        /\ (Short \/ Cut) => r.at = "refused"
        /\ ~(Short \/ Cut) => /\ r.at = d.at /\ r.cursor = d.cursor + 2 + bytes
                              /\ r.rule = [d.rule EXCEPT ![field] = value]
    <2> HIDE DEF Short, Cut
    <2> QED BY <1>5, <1>7, <1>8
  <1>10. (Short \/ Cut) <=> \/ d.rule[field] # << >> \/ Left(d) < 2 \/ length > 32
                           \/ Left(d) < 2 + bytes
    OBVIOUS
  <1> QED BY <1>9, <1>10 DEF r, length, bytes, value

ListTypeOctets == {IP_PROTOCOL, DESTINATION_PORT, SOURCE_PORT, TCP_FLAGS, PACKET_LENGTH, FRAGMENT}

\* The type of a component decides what is read behind it.
LEMMA TypeStep ==
    ASSUME NEW d, Shape(d), NEW n \in Seq(Uint8), d.cursor <= d.length
    PROVE  LET r == DecodeType(d, n)
               type == Octet(n, d.cursor)
           IN  /\ Shape(r) /\ r.length = d.length
               /\ type \in ListTypeOctets =>
                      /\ r.at = "value" /\ r.cursor = d.cursor + 1 /\ r.type = type /\ r.items = << >>
                      /\ r.rule = d.rule
               /\ type = DESTINATION_PREFIX =>
                      \E at : OnlyTouched(d, at) /\ r = decode_prefix(at, n, "destination_subnet_ipv4")
               /\ type = SOURCE_PREFIX =>
                      \E at : OnlyTouched(d, at) /\ r = decode_prefix(at, n, "source_subnet_ipv4")
  <1> DEFINE r == DecodeType(d, n)
             type == Octet(n, d.cursor)
             at == Touch(d, d.cursor)
             listed == [at EXCEPT !.at = "value", !.cursor = @ + 1, !.type = type, !.items = << >>]
  <1>1. OnlyTouched(d, at)
    BY TouchShape DEF Shape
  <1>2. Shape(at) /\ at.length = d.length /\ at.cursor = d.cursor /\ at.rule = d.rule
    BY <1>1 DEF OnlyTouched
  <1>3. /\ "source_subnet_ipv4" \in DOMAIN EmptyRule
        /\ "destination_subnet_ipv4" \in DOMAIN EmptyRule
    BY RuleDomain DEF SubnetFields
  <1>4. /\ DESTINATION_PREFIX \notin ListTypeOctets /\ SOURCE_PREFIX \notin ListTypeOctets
        /\ DESTINATION_PREFIX # SOURCE_PREFIX
    BY DEF ListTypeOctets, IP_PROTOCOL, DESTINATION_PORT, SOURCE_PORT, TCP_FLAGS, PACKET_LENGTH, FRAGMENT,
           DESTINATION_PREFIX, SOURCE_PREFIX
  <1>5. r = CASE type = SOURCE_PREFIX -> decode_prefix(at, n, "source_subnet_ipv4")
              [] type = DESTINATION_PREFIX -> decode_prefix(at, n, "destination_subnet_ipv4")
              [] type \in ListTypeOctets -> listed
              [] OTHER -> Refuse(at)
    BY DEF DecodeType, ListTypeOctets
  <1> HIDE DEF r, at, type
  <1>6. ASSUME type = SOURCE_PREFIX
        PROVE  Shape(r) /\ r.length = d.length /\ r = decode_prefix(at, n, "source_subnet_ipv4")
    <2> DEFINE field == "source_subnet_ipv4"
    <2>1. r = decode_prefix(at, n, field)
      BY <1>4, <1>5, <1>6
    <2>2. field \in DOMAIN EmptyRule
      BY <1>3
    <2> HIDE DEF field
    <2>3. Shape(r) /\ r.length = at.length
      BY <1>2, <2>1, <2>2, PrefixStep
    <2> QED BY <1>2, <2>1, <2>3 DEF field
  <1>7. ASSUME type = DESTINATION_PREFIX
        PROVE  Shape(r) /\ r.length = d.length /\ r = decode_prefix(at, n, "destination_subnet_ipv4")
    <2> DEFINE field == "destination_subnet_ipv4"
    <2>1. r = decode_prefix(at, n, field)
      BY <1>4, <1>5, <1>7
    <2>2. field \in DOMAIN EmptyRule
      BY <1>3
    <2> HIDE DEF field
    <2>3. Shape(r) /\ r.length = at.length
      BY <1>2, <2>1, <2>2, PrefixStep
    <2> QED BY <1>2, <2>1, <2>3 DEF field
  <1>8. ASSUME type \in ListTypeOctets
        PROVE  /\ Shape(r) /\ r.length = d.length /\ r.at = "value" /\ r.cursor = d.cursor + 1
               /\ r.type = type /\ r.items = << >> /\ r.rule = d.rule
    <2>1. r = listed
      BY <1>4, <1>5, <1>8
    <2>2. /\ DOMAIN at = {"at", "cursor", "length", "type", "items", "rule", "touched"}
          /\ DOMAIN at.rule = DOMAIN EmptyRule
          /\ at.cursor \in Nat /\ at.length \in Nat /\ at.touched \in Nat /\ at.touched <= at.length
      BY <1>2 DEF Shape
    <2>3. /\ DOMAIN r = DOMAIN at /\ r.at = "value" /\ r.cursor = at.cursor + 1 /\ r.type = type
          /\ r.items = << >> /\ r.rule = at.rule /\ r.length = at.length /\ r.touched = at.touched
      BY <2>1, <2>2
    <2>4. Shape(r)
      BY <2>2, <2>3 DEF Shape
    <2> QED BY <1>2, <2>3, <2>4
  <1>9. ASSUME type \notin ListTypeOctets, type # SOURCE_PREFIX, type # DESTINATION_PREFIX
        PROVE  Shape(r) /\ r.length = d.length
    <2>1. r = Refuse(at)
      BY <1>5, <1>9
    <2> QED BY <1>2, <2>1, RefuseShape
  <1>10. /\ Shape(r) /\ r.length = d.length
         /\ type \in ListTypeOctets =>
                /\ r.at = "value" /\ r.cursor = d.cursor + 1 /\ r.type = type /\ r.items = << >>
                /\ r.rule = d.rule
         /\ type = DESTINATION_PREFIX =>
                \E a : OnlyTouched(d, a) /\ r = decode_prefix(a, n, "destination_subnet_ipv4")
         /\ type = SOURCE_PREFIX =>
                \E a : OnlyTouched(d, a) /\ r = decode_prefix(a, n, "source_subnet_ipv4")
    BY <1>1, <1>6, <1>7, <1>8, <1>9
  <1> QED BY <1>10 DEF r, type

\* The number of octets of a value.
LEMMA WidthOfOperator ==
    ASSUME NEW operator \in Uint8
    PROVE  2 ^ ((operator \div TwoBytes) % 4) \in {1, 2, 4, 8}
  <1> DEFINE k == (operator \div TwoBytes) % 4
  <1>1. TwoBytes = 16
    BY Powers DEF TwoBytes
  <1>2. k \in 0 .. 3
    BY <1>1 DEF Uint8
  <1> HIDE DEF k
  <1>3. k = 0 \/ k = 1 \/ k = 2 \/ k = 3
    BY <1>2
  <1>4. (k = 0 => 2 ^ k = 2 ^ 0) /\ (k = 1 => 2 ^ k = 2 ^ 1) /\ (k = 2 => 2 ^ k = 2 ^ 2) /\ (k = 3 => 2 ^ k = 2 ^ 3)
    OBVIOUS
  <1>5. 2 ^ k \in {1, 2, 4, 8}
    BY <1>3, <1>4, Powers
  <1> QED BY <1>5 DEF k

\* The values of a list are added to the rule together.
LEMMA ValuesStep ==
    ASSUME NEW d, Shape(d)
    PROVE  LET r == ValuesRead(d)
               readable == \A i \in DOMAIN d.items : ItemReadable(d.type, d.items[i])
               f == FieldOf(d.type)
           IN  /\ Shape(r) /\ r.length = d.length
               /\ ~readable => r.at = "refused"
               /\ readable => /\ r.at = "type" /\ r.cursor = d.cursor
                              /\ r.rule = [d.rule EXCEPT ![f] = @ \o AddedValues(d.type, d.items)]
  <1> DEFINE r == ValuesRead(d)
             readable == \A i \in DOMAIN d.items : ItemReadable(d.type, d.items[i])
             f == FieldOf(d.type)
             added == AddedValues(d.type, d.items)
  <1>1. r = IF readable THEN [d EXCEPT !.at = "type", !.items = << >>, !.rule[f] = @ \o added] ELSE Refuse(d)
    BY DEF ValuesRead
  <1>2. /\ DOMAIN d = {"at", "cursor", "length", "type", "items", "rule", "touched"}
        /\ DOMAIN d.rule = DOMAIN EmptyRule
        /\ d.cursor \in Nat /\ d.length \in Nat /\ d.touched \in Nat /\ d.touched <= d.length
    BY DEF Shape
  <1> HIDE DEF r, readable, f, added
  <1>3. ASSUME ~readable PROVE Shape(r) /\ r.length = d.length /\ r.at = "refused"
    <2>1. r = Refuse(d)
      BY <1>1, <1>3
    <2> QED BY <2>1, RefuseShape
  <1>4. ASSUME readable
        PROVE  /\ Shape(r) /\ r.length = d.length /\ r.at = "type" /\ r.cursor = d.cursor
               /\ r.rule = [d.rule EXCEPT ![f] = @ \o added]
    <2>1. r = [d EXCEPT !.at = "type", !.items = << >>, !.rule[f] = @ \o added]
      BY <1>1, <1>4
    <2>2. /\ DOMAIN r = DOMAIN d /\ r.at = "type" /\ r.cursor = d.cursor /\ r.length = d.length
          /\ r.touched = d.touched /\ r.rule = [d.rule EXCEPT ![f] = @ \o added]
      BY <1>2, <2>1
    <2>3. DOMAIN r.rule = DOMAIN EmptyRule
      BY <1>2, <2>2
    <2>4. Shape(r)
      BY <1>2, <2>2, <2>3 DEF Shape
    <2> QED BY <2>2, <2>4
  <1> QED BY <1>3, <1>4 DEF r, readable, f, added

\* The octets of a value behind its operator octet.
ItemRead(n, cursor, width) ==
    LET first == Octet(n, cursor + 1)
    IN  IF width = 1 THEN [value |-> first, value_length |-> 1]
        ELSE [value |-> 256 * first + Octet(n, cursor + 2), value_length |-> 0]

\* A value is read whole or refused; the last one ends the list.
LEMMA ValueStep ==
    ASSUME NEW d, Shape(d), NEW n \in Seq(Uint8)
    PROVE  LET r == DecodeValue(d, n)
               operator == Octet(n, d.cursor)
               width == 2 ^ ((operator \div TwoBytes) % 4)
               bad == \/ Left(d) < 1 \/ Has(operator, LessThan) \/ Has(operator, GreaterThan)
                      \/ Has(operator, AndBit) \/ width > 2 \/ Left(d) < 1 + width
               items == Append(d.items, ItemRead(n, d.cursor, width))
               last == Has(operator, EndOfList) \/ Len(items) = MaxValues
               readable == \A i \in DOMAIN items : ItemReadable(d.type, items[i])
           IN  /\ Shape(r) /\ r.length = d.length
               /\ bad => r.at = "refused"
               /\ ~bad /\ ~last =>
                      /\ r.at = d.at /\ r.cursor = d.cursor + 1 + width /\ r.type = d.type
                      /\ r.items = items /\ r.rule = d.rule
               /\ ~bad /\ last /\ readable =>
                      /\ r.at = "type" /\ r.cursor = d.cursor + 1 + width
                      /\ r.rule = [d.rule EXCEPT ![FieldOf(d.type)] = @ \o AddedValues(d.type, items)]
  <1> DEFINE r == DecodeValue(d, n)
             operator == Octet(n, d.cursor)
             width == 2 ^ ((operator \div TwoBytes) % 4)
             at == Touch(d, d.cursor)
             Odd == \/ Has(operator, LessThan) \/ Has(operator, GreaterThan) \/ Has(operator, AndBit)
                    \/ width > 2 \/ Left(d) < 1 + width
             item == ItemRead(n, d.cursor, width)
             items == Append(d.items, item)
             over == Touch(d, d.cursor + width)
             read == [over EXCEPT !.cursor = @ + 1 + width, !.items = Append(@, item)]
             readable == \A i \in DOMAIN items : ItemReadable(d.type, items[i])
             added == AddedValues(d.type, items)
  <1>1. r = IF Left(d) < 1 THEN Refuse(d)
            ELSE IF Odd THEN Refuse(at)
            ELSE IF Has(operator, EndOfList) \/ Len(read.items) = MaxValues THEN ValuesRead(read)
            ELSE read
    BY DEF DecodeValue, ItemRead
  <1>2. Left(d) = d.length + 1 - d.cursor /\ d.cursor \in Nat /\ d.length \in Nat
    BY DEF Left, Shape
  <1>3. width \in Nat
    <2>1. operator \in Uint8
      BY OctetTyped
    <2> HIDE DEF operator
    <2>2. width \in {1, 2, 4, 8}
      BY <2>1, WidthOfOperator
    <2> HIDE DEF width
    <2> QED BY <2>2
  <1> HIDE DEF r, operator, width, at, item, over, read, readable, added
  <1>4. ASSUME Left(d) < 1 PROVE Shape(r) /\ r.length = d.length /\ r.at = "refused"
    <2>1. r = Refuse(d)
      BY <1>1, <1>4
    <2> QED BY <2>1, RefuseShape
  <1>5. ASSUME ~(Left(d) < 1), Odd PROVE Shape(r) /\ r.length = d.length /\ r.at = "refused"
    <2>1. OnlyTouched(d, at)
      <3>1. d.cursor <= d.length
        BY <1>2, <1>5
      <3> QED BY <1>2, <3>1, TouchShape DEF at
    <2>2. r = Refuse(at) /\ Shape(at) /\ at.length = d.length
      BY <1>1, <1>5, <2>1 DEF OnlyTouched
    <2> QED BY <2>2, RefuseShape
  <1>6. ASSUME ~(Left(d) < 1), ~Odd
        PROVE  /\ Shape(read) /\ read.at = d.at /\ read.cursor = d.cursor + 1 + width
               /\ read.length = d.length /\ read.type = d.type /\ read.items = items /\ read.rule = d.rule
    <2>1. d.cursor + width \in Nat /\ d.cursor + width <= d.length
      BY <1>2, <1>3, <1>6
    <2>2. OnlyTouched(d, over)
      BY <2>1, TouchShape DEF over
    <2>3. /\ DOMAIN over = {"at", "cursor", "length", "type", "items", "rule", "touched"}
          /\ DOMAIN over.rule = DOMAIN EmptyRule
          /\ over.cursor \in Nat /\ over.length \in Nat /\ over.touched \in Nat /\ over.touched <= over.length
      BY <2>2 DEF OnlyTouched, Shape
    <2>4. read = [over EXCEPT !.cursor = @ + 1 + width, !.items = Append(@, item)]
      BY DEF read
    <2>5. /\ DOMAIN read = DOMAIN over /\ read.at = over.at /\ read.cursor = over.cursor + 1 + width
          /\ read.length = over.length /\ read.type = over.type /\ read.items = Append(over.items, item)
          /\ read.rule = over.rule /\ read.touched = over.touched
      BY <2>3, <2>4
    <2>6. Shape(read)
      BY <1>3, <2>3, <2>5 DEF Shape
    <2>7. read.items = items
      BY <2>2, <2>5 DEF OnlyTouched
    <2> QED BY <2>2, <2>5, <2>6, <2>7 DEF OnlyTouched
  <1>7. ASSUME ~(Left(d) < 1), ~Odd, ~(Has(operator, EndOfList) \/ Len(items) = MaxValues)
        PROVE  /\ Shape(r) /\ r.at = d.at /\ r.cursor = d.cursor + 1 + width
               /\ r.length = d.length /\ r.type = d.type /\ r.items = items /\ r.rule = d.rule
    <2> HIDE DEF items, Odd
    <2>1. r = read
      BY <1>1, <1>6, <1>7
    <2> QED BY <1>6, <1>7, <2>1
  <1>8. ASSUME ~(Left(d) < 1), ~Odd, Has(operator, EndOfList) \/ Len(items) = MaxValues
        PROVE  /\ Shape(r) /\ r.length = d.length
               /\ readable => /\ r.at = "type" /\ r.cursor = d.cursor + 1 + width
                              /\ r.rule = [d.rule EXCEPT ![FieldOf(d.type)] = @ \o added]
    <2> HIDE DEF items, Odd
    <2>1. r = ValuesRead(read)
      BY <1>1, <1>6, <1>8
    <2>2. /\ Shape(read) /\ read.at = d.at /\ read.cursor = d.cursor + 1 + width
          /\ read.length = d.length /\ read.type = d.type /\ read.items = items /\ read.rule = d.rule
      BY <1>6, <1>8
    <2>3. LET ready == \A i \in DOMAIN read.items : ItemReadable(read.type, read.items[i])
              f == FieldOf(read.type)
          IN  /\ Shape(r) /\ r.length = read.length
              /\ ready => /\ r.at = "type" /\ r.cursor = read.cursor
                          /\ r.rule = [read.rule EXCEPT ![f] = @ \o AddedValues(read.type, read.items)]
      BY <2>1, <2>2, ValuesStep
    <2> QED BY <2>2, <2>3 DEF readable, added
  <1>9. /\ Shape(r) /\ r.length = d.length
        /\ Left(d) < 1 \/ Odd => r.at = "refused"
        /\ ~(Left(d) < 1 \/ Odd) /\ ~(Has(operator, EndOfList) \/ Len(items) = MaxValues) =>
               /\ r.at = d.at /\ r.cursor = d.cursor + 1 + width /\ r.type = d.type
               /\ r.items = items /\ r.rule = d.rule
        /\ ~(Left(d) < 1 \/ Odd) /\ (Has(operator, EndOfList) \/ Len(items) = MaxValues) /\ readable =>
               /\ r.at = "type" /\ r.cursor = d.cursor + 1 + width
               /\ r.rule = [d.rule EXCEPT ![FieldOf(d.type)] = @ \o added]
    <2> HIDE DEF Odd, items
    <2> QED BY <1>4, <1>5, <1>7, <1>8
  <1> QED BY <1>9, Zenon DEF r, operator, width, item, readable, added

-----------------------------------------------------------------------------
(* What has been read of a rule.                                           *)

\* The fields whose components end before the cursor, and nothing else.
FieldsRead(r, rule, e, cursor) ==
    \A j \in 1 .. 8 :
        r[PartField[j]] = IF e[j] < cursor THEN AnnouncedField(rule, PartField[j]) ELSE << >>

\* A field has a component or is empty.
LEMMA LayoutEmpty ==
    ASSUME NEW rule, NEW n, NEW l, NEW e, Layout(rule, n, l, e), NEW k \in 1 .. 8
    PROVE  rule[PartField[k]] = << >> <=> l[k] = 0
  <1> DEFINE list == rule[PartField[k]]
             b == e[k - 1]
             size == l[k]
  <1>1. CASE k \in {1, 2}
    <2>1. PrefixAt(n, b, size, k, list)
      BY <1>1, Zenon DEF Layout
    <2> HIDE DEF list, b, size
    <2>2. list = << >> => size = 0
      BY <2>1 DEF PrefixAt
    <2>3. ASSUME list # << >> PROVE size # 0
      <3> DEFINE prefix == list[1]
                 bytes == how_much_bytes_we_need(prefix.cidr_prefix_length)
      <3>1. prefix \in Subnets /\ size = 2 + bytes
        BY <2>1, <2>3 DEF PrefixAt
      <3>2. prefix.subnet_address \in Octets(4) /\ prefix.cidr_prefix_length \in 0 .. 32
        <4> HIDE DEF prefix
        <4> QED BY <3>1 DEF Subnets
      <3> HIDE DEF prefix
      <3>3. bytes \in 0 .. 4
        BY <3>2, MaskedAgain
      <3> HIDE DEF bytes
      <3> QED BY <3>1, <3>3
    <2> QED BY <2>2, <2>3 DEF list, size
  <1>2. CASE k \notin {1, 2}
    <2>0. k \in 3 .. 8
      BY <1>2
    <2>1. ListAt(n, b, size, k, list)
      BY <2>0, Zenon DEF Layout
    <2> HIDE DEF list, b, size
    <2>2. list = << >> => size = 0
      BY <2>1 DEF ListAt
    <2>3. ASSUME list # << >> PROVE size # 0
      <3> DEFINE turn == 1 + PartWidth[k]
                 N == Len(list)
                 s == N * turn
      <3>1. size = 1 + s /\ list \in Seq(PartValues(k))
        BY <2>1, <2>3 DEF ListAt
      <3>2. N \in Nat
        BY <3>1
      <3>3. turn \in {2, 3}
        <4>1. k = 3 \/ k = 4 \/ k = 5 \/ k = 6 \/ k = 7 \/ k = 8
          BY <2>0
        <4> QED BY <4>1 DEF PartWidth
      <3> HIDE DEF N, turn
      <3>4. s \in Nat
        BY <3>2, <3>3
      <3> HIDE DEF s
      <3> QED BY <3>1, <3>4
    <2> QED BY <2>2, <2>3 DEF list, size
  <1> QED BY <1>1, <1>2

\* Nothing is announced of an empty field.
LEMMA AnnouncedEmpty ==
    ASSUME NEW rule, NEW f, rule[f] = << >>
    PROVE  AnnouncedField(rule, f) = << >>
  <1> DEFINE list == rule[f]
             masked == [i \in DOMAIN list |->
                           [list[i] EXCEPT !.subnet_address = Masked(@, list[i].cidr_prefix_length)]]
  <1>1. AnnouncedField(rule, f) = IF f \in SubnetFields THEN masked ELSE list
    BY DEF AnnouncedField
  <1>2. DOMAIN list = {}
    OBVIOUS
  <1>3. masked = << >>
    <2> DEFINE none == 0
    <2>1. masked \in [1 .. none -> {}] /\ none \in Nat
      BY <1>2
    <2> HIDE DEF none, masked
    <2>2. masked \in Seq({}) /\ Len(masked) = none
      BY <2>1, FunctionIsSequence
    <2>3. masked \in Seq({}) /\ Len(masked) = 0
      BY <2>2 DEF none
    <2> QED BY <2>3
  <1> HIDE DEF masked
  <1> QED BY <1>1, <1>3

\* The fields of a rule have names of their own.
LEMMA FieldsApart ==
    ASSUME NEW i \in 1 .. 8, NEW j \in 1 .. 8, i # j
    PROVE  PartField[i] # PartField[j]
  <1>1. i = 1 \/ i = 2 \/ i = 3 \/ i = 4 \/ i = 5 \/ i = 6 \/ i = 7 \/ i = 8
    OBVIOUS
  <1>2. j = 1 \/ j = 2 \/ j = 3 \/ j = 4 \/ j = 5 \/ j = 6 \/ j = 7 \/ j = 8
    OBVIOUS
  <1> QED BY <1>1, <1>2 DEF PartField

\* Every component belongs to a field of flow_spec_rule_t.
LEMMA PartsAreFields ==
    ASSUME NEW i \in 1 .. 8
    PROVE  PartField[i] \in DOMAIN EmptyRule
  <1>1. i = 1 \/ i = 2 \/ i = 3 \/ i = 4 \/ i = 5 \/ i = 6 \/ i = 7 \/ i = 8
    OBVIOUS
  <1> QED BY <1>1, RuleDomain DEF PartField, SubnetFields, VectorFields

\* A component that was read is behind the cursor, and those before it stay.
LEMMA FieldsAdvance ==
    ASSUME NEW rule, NEW n, NEW l, NEW e, Layout(rule, n, l, e), NEW j \in 1 .. 8, l[j] # 0,
           NEW r, NEW s, FieldsRead(r, rule, e, e[j - 1] + 1),
           s[PartField[j]] = AnnouncedField(rule, PartField[j]),
           \A i \in 1 .. 8 : i # j => s[PartField[i]] = r[PartField[i]]
    PROVE  FieldsRead(s, rule, e, e[j] + 1)
  <1>1. l \in [1 .. 8 -> Nat] /\ e \in [0 .. 8 -> Nat] /\ Ends(e, l)
    BY DEF Layout
  <1>2. \A k \in 0 .. 8 : \A i \in 0 .. k : e[i] <= e[k]
    BY <1>1, EndsOrdered
  <1>3. \A k \in 1 .. 8 : e[k] = e[k - 1] + l[k] /\ e[k] \in Nat /\ e[k - 1] \in Nat /\ l[k] \in Nat
    BY <1>1 DEF Ends
  <1> SUFFICES ASSUME NEW i \in 1 .. 8
               PROVE  s[PartField[i]] = IF e[i] < e[j] + 1 THEN AnnouncedField(rule, PartField[i]) ELSE << >>
    BY DEF FieldsRead
  <1>4. CASE i = j
    <2>1. e[i] < e[j] + 1
      BY <1>3, <1>4
    <2> QED BY <1>4, <2>1
  <1>5. CASE i < j
    <2>1. i \in 0 .. j - 1 /\ j - 1 \in 0 .. 8
      BY <1>5
    <2>2. e[i] <= e[j - 1]
      BY <1>2, <2>1
    <2>3. e[i] < e[j - 1] + 1 /\ e[i] < e[j] + 1
      BY <1>3, <2>2
    <2>4. r[PartField[i]] = AnnouncedField(rule, PartField[i])
      BY <2>3 DEF FieldsRead
    <2> QED BY <1>5, <2>3, <2>4
  <1>6. CASE i > j
    <2>1. j \in 0 .. i - 1 /\ i - 1 \in 0 .. 8
      BY <1>6
    <2>2. e[j] <= e[i - 1]
      BY <1>2, <2>1
    <2>3. ~(e[i] < e[j - 1] + 1)
      <3>1. e[i] = e[i - 1] + l[i] /\ e[i - 1] \in Nat /\ l[i] \in Nat
        BY <1>3
      <3>2. e[j] = e[j - 1] + l[j] /\ e[j] \in Nat /\ e[j - 1] \in Nat /\ l[j] \in Nat
        BY <1>3
      <3> QED BY <2>2, <3>1, <3>2
    <2>4. r[PartField[i]] = << >> /\ s[PartField[i]] = r[PartField[i]]
      BY <1>6, <2>3 DEF FieldsRead
    <2>5. CASE e[i] < e[j] + 1
      <3>1. l[i] = 0
        BY <1>3, <2>2, <2>5
      <3>2. rule[PartField[i]] = << >>
        BY <3>1, LayoutEmpty
      <3>3. AnnouncedField(rule, PartField[i]) = << >>
        BY <3>2, AnnouncedEmpty
      <3> QED BY <2>4, <3>3
    <2> QED BY <2>4, <2>5
  <1> QED BY <1>4, <1>5, <1>6

\* The component behind the cursor.
LEMMA NextPart ==
    ASSUME NEW rule, NEW n, NEW l, NEW e, Layout(rule, n, l, e), NEW k \in 0 .. 8, e[k] < e[8]
    PROVE  \E j \in 1 .. 8 : e[j - 1] = e[k] /\ l[j] # 0 /\ e[j] = e[k] + l[j] /\ e[j] <= e[8]
  <1>1. l \in [1 .. 8 -> Nat] /\ e \in [0 .. 8 -> Nat] /\ Ends(e, l)
    BY DEF Layout
  <1>2. \A a \in 0 .. 8 : \A i \in 0 .. a : e[i] <= e[a]
    BY <1>1, EndsOrdered
  <1>3. \A a \in 1 .. 8 : e[a] = e[a - 1] + l[a] /\ e[a] \in Nat /\ e[a - 1] \in Nat /\ l[a] \in Nat
    BY <1>1 DEF Ends
  <1>4. e[0] = 0 /\ \A a \in 0 .. 8 : e[a] \in Nat
    BY <1>1 DEF Ends
  <1> DEFINE T == {a \in 0 .. 8 : e[k] < e[a]}
  <1>5. T \in SUBSET Nat /\ T # {}
    OBVIOUS
  <1>6. PICK j \in T : \A a \in T : j <= a
    <2> HIDE DEF T
    <2> QED BY <1>5, LeastNumber
  <1>7. j \in 0 .. 8 /\ e[k] < e[j]
    BY <1>6
  <1>8. k < j
    <2> SUFFICES ASSUME ~(k < j) PROVE FALSE
      OBVIOUS
    <2>1. j \in 0 .. k
      BY <1>7
    <2>2. e[j] <= e[k] /\ e[j] \in Nat /\ e[k] \in Nat
      BY <1>2, <1>4, <1>7, <2>1
    <2> QED BY <1>7, <2>2
  <1>9. j \in 1 .. 8 /\ j - 1 \in 0 .. 8 /\ k \in 0 .. j - 1
    BY <1>7, <1>8
  <1>10. ~(e[k] < e[j - 1])
    <2>1. ~(j <= j - 1)
      BY <1>9
    <2> QED BY <1>6, <1>9, <2>1
  <1>11. e[k] <= e[j - 1] /\ e[j] <= e[8]
    BY <1>2, <1>9
  <1>12. e[j - 1] = e[k]
    BY <1>4, <1>9, <1>10, <1>11
  <1>13. e[j] = e[j - 1] + l[j] /\ e[j] \in Nat /\ l[j] \in Nat
    BY <1>3, <1>9
  <1>14. l[j] # 0 /\ e[j] = e[k] + l[j]
    BY <1>4, <1>7, <1>12, <1>13
  <1> QED BY <1>9, <1>11, <1>12, <1>14

-----------------------------------------------------------------------------
(* The values of a list.                                                   *)

\* multi_value_entry of the decoder for one value of a list.
ItemOf(j, v) ==
    IF PartWidth[j] = 2 THEN [value |-> v, value_length |-> 0]
    ELSE [value |-> Sent(j, v), value_length |-> 1]

ItemsOf(items, j, list, i) ==
    /\ items \in Seq({ItemOf(j, v) : v \in PartValues(j)}) /\ Len(items) = i
    /\ \A x \in 1 .. i : items[x] = ItemOf(j, list[x])

\* What is added to a field for one item.
ElementOf(type, item) ==
    CASE type = FRAGMENT -> FragmentsOf(item.value)
      [] type = TCP_FLAGS ->
             LET flagset_read == convert_one_byte_encoding_to_flowset(item.value)
             IN  IF flagset_read = {} THEN << >> ELSE <<flagset_read>>
      [] OTHER -> <<item.value>>

\* The decoder takes every operator octet of the encoder, with its width and its end.
LEMMA OperatorOctet ==
    ASSUME NEW j \in 3 .. 8, NEW last \in {0, 128}, NEW operator, operator = PartOperator[j] + last
    PROVE  /\ ~Has(operator, LessThan) /\ ~Has(operator, GreaterThan) /\ ~Has(operator, AndBit)
           /\ 2 ^ ((operator \div TwoBytes) % 4) = PartWidth[j]
           /\ Has(operator, EndOfList) <=> last = 128
  <1>1. TwoBytes = 16 /\ LessThan = 4 /\ GreaterThan = 2 /\ AndBit = 64 /\ EndOfList = 128
    BY Powers DEF TwoBytes, LessThan, GreaterThan, AndBit, EndOfList
  <1>2. j = 3 \/ j = 4 \/ j = 5 \/ j = 6 \/ j = 7 \/ j = 8
    OBVIOUS
  <1>3. \/ PartOperator[j] = 0 /\ PartWidth[j] = 1
        \/ PartOperator[j] = 1 /\ PartWidth[j] = 1
        \/ PartOperator[j] = 17 /\ PartWidth[j] = 2
    BY <1>2 DEF PartOperator, PartWidth
  <1>4. operator \in {0, 1, 17, 128, 129, 145}
    BY <1>3
  <1>5. ~Has(operator, 4) /\ ~Has(operator, 2) /\ ~Has(operator, 64)
    BY <1>4 DEF Has
  <1>6. Has(operator, 128) <=> last = 128
    BY <1>3 DEF Has
  <1> DEFINE k == (operator \div 16) % 4
  <1>7. (k = 0 /\ PartWidth[j] = 1) \/ (k = 1 /\ PartWidth[j] = 2)
    BY <1>3
  <1> HIDE DEF k
  <1>8. 2 ^ k = PartWidth[j]
    BY <1>7, Powers
  <1> QED BY <1>1, <1>5, <1>6, <1>8 DEF k

\* The octets of a value give the value.
LEMMA ItemReadBack ==
    ASSUME NEW j \in 3 .. 8, NEW v \in PartValues(j), NEW n \in Seq(Uint8), NEW cursor \in Nat,
           \A x \in 1 .. PartWidth[j] : cursor + x \in DOMAIN n /\ n[cursor + x] = SentOctets(j, v)[x]
    PROVE  ItemRead(n, cursor, PartWidth[j]) = ItemOf(j, v)
  <1>1. j = 3 \/ j = 4 \/ j = 5 \/ j = 6 \/ j = 7 \/ j = 8
    OBVIOUS
  <1>2. CASE PartWidth[j] = 1
    <2>1. 1 \in 1 .. PartWidth[j]
      BY <1>2
    <2>2. Octet(n, cursor + 1) = SentOctets(j, v)[1]
      BY <2>1 DEF Octet
    <2>3. SentOctets(j, v)[1] = Sent(j, v)
      BY <1>2 DEF SentOctets
    <2>4. ItemRead(n, cursor, PartWidth[j]) = [value |-> Octet(n, cursor + 1), value_length |-> 1]
      BY <1>2 DEF ItemRead
    <2>5. ItemOf(j, v) = [value |-> Sent(j, v), value_length |-> 1]
      BY <1>2 DEF ItemOf
    <2> QED BY <2>2, <2>3, <2>4, <2>5
  <1>3. CASE PartWidth[j] = 2
    <2>1. 1 \in 1 .. PartWidth[j] /\ 2 \in 1 .. PartWidth[j]
      BY <1>3
    <2>2. Octet(n, cursor + 1) = SentOctets(j, v)[1] /\ Octet(n, cursor + 2) = SentOctets(j, v)[2]
      BY <2>1 DEF Octet
    <2>3. SentOctets(j, v)[1] = v \div 256 /\ SentOctets(j, v)[2] = v % 256
      BY <1>3 DEF SentOctets
    <2>4. v \in Nat
      <3>1. j \in {4, 5, 7}
        BY <1>1, <1>3 DEF PartWidth
      <3>2. v \in Uint16
        BY <3>1 DEF PartValues
      <3> QED BY <3>2, Uint16IsNat
    <2>5. \A z \in Nat : 256 * (z \div 256) + (z % 256) = z
      OBVIOUS
    <2>6. ItemRead(n, cursor, PartWidth[j])
              = [value |-> 256 * Octet(n, cursor + 1) + Octet(n, cursor + 2), value_length |-> 0]
      BY <1>3 DEF ItemRead
    <2>7. ItemOf(j, v) = [value |-> v, value_length |-> 0]
      BY <1>3 DEF ItemOf
    <2> QED BY <2>2, <2>3, <2>4, <2>5, <2>6, <2>7
  <1>4. PartWidth[j] = 1 \/ PartWidth[j] = 2
    BY <1>1 DEF PartWidth
  <1> QED BY <1>2, <1>3, <1>4

\* An item of a list passes the tests of the decoder and gives its value.
LEMMA ElementReadBack ==
    ASSUME NEW j \in 3 .. 8, NEW v \in PartValues(j), j = 6 => v # {}
    PROVE  ItemReadable(PartType[j], ItemOf(j, v)) /\ ElementOf(PartType[j], ItemOf(j, v)) = <<v>>
  <1>1. j = 3 \/ j \in {4, 5, 7} \/ j = 6 \/ j = 8
    OBVIOUS
  <1>2. IP_PROTOCOL = 3 /\ TCP_FLAGS = 9 /\ FRAGMENT = 12
    BY DEF IP_PROTOCOL, TCP_FLAGS, FRAGMENT
  <1> DEFINE item == ItemOf(j, v)
  <1>3. CASE j = 3
    <2>1. PartType[j] = 3 /\ PartWidth[j] = 1 /\ Sent(j, v) = v
      BY <1>3 DEF PartType, PartWidth, Sent
    <2>2. item.value = v /\ item.value_length = 1
      BY <2>1 DEF ItemOf
    <2>3. v <= 255
      BY <1>3 DEF PartValues, Uint8
    <2> HIDE DEF item
    <2>4. ItemReadable(PartType[j], item)
      BY <1>2, <2>1, <2>2, <2>3 DEF ItemReadable
    <2>5. ElementOf(PartType[j], item) = <<v>>
      BY <1>2, <2>1, <2>2 DEF ElementOf
    <2> QED BY <2>4, <2>5 DEF item
  <1>4. CASE j \in {4, 5, 7}
    <2>1. PartType[j] \in {5, 6, 10} /\ PartWidth[j] = 2
      BY <1>4 DEF PartType, PartWidth
    <2>2. item.value = v
      BY <2>1 DEF ItemOf
    <2> HIDE DEF item
    <2>4. ItemReadable(PartType[j], item)
      BY <1>2, <2>1 DEF ItemReadable
    <2>5. ElementOf(PartType[j], item) = <<v>>
      BY <1>2, <2>1, <2>2 DEF ElementOf
    <2> QED BY <2>4, <2>5 DEF item
  <1>5. CASE j = 6
    <2>1. PartType[j] = 9 /\ PartWidth[j] = 1 /\ Sent(j, v) = return_in_one_byte_encoding(v)
      BY <1>5 DEF PartType, PartWidth, Sent
    <2>2. item.value = return_in_one_byte_encoding(v) /\ item.value_length = 1
      BY <2>1 DEF ItemOf
    <2>3. v \in SUBSET TcpFlags /\ v # {}
      BY <1>5 DEF PartValues
    <2>6. convert_one_byte_encoding_to_flowset(item.value) = v
      BY <2>2, <2>3, FlagsEncoded, FlagsDecoded
    <2> HIDE DEF item
    <2>4. ItemReadable(PartType[j], item)
      BY <1>2, <2>1, <2>2 DEF ItemReadable
    <2>5. ElementOf(PartType[j], item) = <<v>>
      BY <1>2, <2>1, <2>3, <2>6 DEF ElementOf
    <2> QED BY <2>4, <2>5 DEF item
  <1>6. CASE j = 8
    <2>1. PartType[j] = 12 /\ PartWidth[j] = 1 /\ Sent(j, v) = fragment_bit[v]
      BY <1>6 DEF PartType, PartWidth, Sent
    <2>2. item.value = fragment_bit[v] /\ item.value_length = 1
      BY <2>1 DEF ItemOf
    <2>3. v \in FragmentTypes
      BY <1>6 DEF PartValues
    <2>6. FragmentsOf(item.value) = <<v>>
      BY <2>2, <2>3, FragmentDecoded
    <2> HIDE DEF item
    <2>4. ItemReadable(PartType[j], item)
      BY <1>2, <2>1, <2>2 DEF ItemReadable
    <2>5. ElementOf(PartType[j], item) = <<v>>
      BY <1>2, <2>1, <2>6 DEF ElementOf
    <2> QED BY <2>4, <2>5 DEF item
  <1> QED BY <1>1, <1>3, <1>4, <1>5, <1>6

\* All items of a list give the list.
LEMMA ListReadBack ==
    ASSUME NEW j \in 3 .. 8, NEW list \in Seq(PartValues(j)), list # << >>, j = 6 => {} \notin ToSet(list),
           NEW items, ItemsOf(items, j, list, Len(list))
    PROVE  /\ \A i \in DOMAIN items : ItemReadable(PartType[j], items[i])
           /\ AddedValues(PartType[j], items) = list
           /\ FieldOf(PartType[j]) = PartField[j]
  <1> DEFINE N == Len(list)
             type == PartType[j]
             S == PartValues(j)
             s == [i \in DOMAIN items |-> ElementOf(type, items[i])]
  <1>1. N \in Nat /\ DOMAIN items = 1 .. N /\ \A i \in 1 .. N : items[i] = ItemOf(j, list[i])
    BY DEF ItemsOf
  <1>2. \A i \in 1 .. N : list[i] \in S /\ (j = 6 => list[i] # {})
    BY DEF ToSet
  <1>3. \A i \in 1 .. N : ItemReadable(type, items[i]) /\ ElementOf(type, items[i]) = <<list[i]>>
    BY <1>1, <1>2, ElementReadBack
  <1>4. AddedValues(type, items) = FlattenSeq(s)
    BY Zenon DEF AddedValues, ElementOf
  <1> HIDE DEF type, N
  <1>5. \A i \in 1 .. N : s[i] = <<list[i]>>
    BY <1>1, <1>3
  <1>6. s \in Seq(Seq(S)) /\ Len(s) = N
    <2>1. \A i \in 1 .. N : <<list[i]>> \in Seq(S)
      BY <1>2
    <2>2. s \in [1 .. N -> Seq(S)]
      BY <1>1, <1>3, <2>1
    <2> HIDE DEF s
    <2> QED BY <1>1, <2>2, FunctionIsSequence
  <1> HIDE DEF s, S
  <1>7. FlattenSeq(s) = list
    <2>1. list \in Seq(S) /\ list # << >> /\ s \in Seq(Seq(S)) /\ Len(s) = Len(list)
      BY <1>6 DEF S, N
    <2>2. \A i \in 1 .. Len(list) : s[i] = <<list[i]>>
      BY <1>5 DEF N
    <2> QED BY <2>1, <2>2, FlattenOnes
  <1>8. FieldOf(type) = PartField[j]
    <2>1. j = 3 \/ j = 4 \/ j = 5 \/ j = 6 \/ j = 7 \/ j = 8
      OBVIOUS
    <2> QED BY <2>1 DEF FieldOf, PartField, PartType, type, IP_PROTOCOL, DESTINATION_PORT, SOURCE_PORT,
                        TCP_FLAGS, PACKET_LENGTH, FRAGMENT
  <1> QED BY <1>1, <1>3, <1>4, <1>7, <1>8 DEF type

-----------------------------------------------------------------------------
(* The decoder on an NLRI of the encoder.                                  *)

\* Between two components, the fields before the cursor read.
AtType(d, rule, e) ==
    /\ d.at = "type" /\ d.cursor <= d.length + 1
    /\ \E k \in 0 .. 8 : d.cursor = e[k] + 1
    /\ FieldsRead(d.rule, rule, e, d.cursor)

\* Within the list of the j-th component, i of its values read.
ValueAt(d, rule, e, j, i) ==
    /\ d.at = "value" /\ d.type = PartType[j] /\ i < Len(rule[PartField[j]])
    /\ d.cursor = e[j - 1] + 2 + i * (1 + PartWidth[j])
    /\ ItemsOf(d.items, j, rule[PartField[j]], i)
    /\ FieldsRead(d.rule, rule, e, e[j - 1] + 1)

AtValue(d, rule, e) == \E j \in 3 .. 8 : \E i \in Nat : ValueAt(d, rule, e, j, i)

\* Only a length that is cut makes the decoder refuse.
Reads(d, rule, e, action) ==
    /\ d.length <= e[8]
    /\ \/ AtType(d, rule, e)
       \/ AtValue(d, rule, e)
       \/ d.at = "refused" /\ d.length < e[8]
       \/ d.at = "done" /\ FieldsRead(d.rule, rule, e, d.length + 1) /\ d.rule.action = action

\* What is announced of a prefix.
LEMMA AnnouncedPrefix ==
    ASSUME NEW rule, NEW f \in SubnetFields, NEW prefix \in Subnets, rule[f] = <<prefix>>
    PROVE  AnnouncedField(rule, f)
               = <<[subnet_address |-> Masked(prefix.subnet_address, prefix.cidr_prefix_length),
                    cidr_prefix_length |-> prefix.cidr_prefix_length]>>
  <1> DEFINE list == rule[f]
             m == [subnet_address |-> Masked(prefix.subnet_address, prefix.cidr_prefix_length),
                   cidr_prefix_length |-> prefix.cidr_prefix_length]
             all == [i \in DOMAIN list |->
                        [list[i] EXCEPT !.subnet_address = Masked(@, list[i].cidr_prefix_length)]]
  <1>1. AnnouncedField(rule, f) = all
    BY DEF AnnouncedField
  <1>2. DOMAIN list = 1 .. 1 /\ list[1] = prefix
    OBVIOUS
  <1>3. [prefix EXCEPT !.subnet_address = Masked(@, prefix.cidr_prefix_length)] = m
    BY DEF Subnets
  <1> HIDE DEF m
  <1>4. all = [i \in 1 .. 1 |-> m]
    <2>1. \A i \in 1 .. 1 : list[i] = prefix
      BY <1>2
    <2> QED BY <1>2, <1>3, <2>1
  <1> HIDE DEF all
  <1> DEFINE one == 1
             T == {m}
  <1>5. one \in Nat /\ all \in [1 .. one -> T] /\ all[1] = m
    BY <1>4
  <1> HIDE DEF one, T
  <1>6. all \in Seq(T) /\ Len(all) = one
    BY <1>5, FunctionIsSequence
  <1>9. all \in Seq(T) /\ Len(all) = 1
    BY <1>6 DEF one
  <1>7. all \in Seq(T) /\ all # << >> /\ Len(all) <= 1
    <2>1. Len(<< >>) = 0 /\ 0 # 1 /\ 1 <= 1
      OBVIOUS
    <2> QED BY <1>9, <2>1, Zenon
  <1>8. all = <<all[1]>>
    BY <1>7, SingleElement
  <1> QED BY <1>1, <1>5, <1>8 DEF m

\* A component of a list begins.
LEMMA ListBegins ==
    ASSUME NEW rule, NEW n, NEW l, NEW e, Layout(rule, n, l, e), NEW action,
           NEW d, Shape(d), d.length <= e[8], d.cursor <= d.length, NEW j \in 3 .. 8, l[j] # 0,
           d.cursor = e[j - 1] + 1, FieldsRead(d.rule, rule, e, d.cursor)
    PROVE  Reads(DecodeType(d, n), rule, e, action)
  <1> DEFINE r == DecodeType(d, n)
             list == rule[PartField[j]]
             b == e[j - 1]
             w == PartWidth[j]
  <1>1. /\ l \in [1 .. 8 -> Nat] /\ e \in [0 .. 8 -> Nat] /\ n \in Seq(Uint8) /\ Len(n) = e[8]
        /\ ListAt(n, b, l[j], j, list)
    BY Zenon DEF Layout
  <1>2. j \in 1 .. 8 /\ j - 1 \in 0 .. 8 /\ 8 \in 0 .. 8
    OBVIOUS
  <1>3. list # << >>
    BY <1>2, LayoutEmpty
  <1>4. n[b + 1] = PartType[j] /\ list \in Seq(PartValues(j))
    BY <1>1, <1>3 DEF ListAt
  <1>5. d.cursor \in DOMAIN n
    <2>1. d.cursor \in Nat /\ d.length \in Nat /\ b \in Nat /\ e[8] \in Nat
      BY <1>1, <1>2 DEF Shape
    <2>2. d.cursor \in 1 .. e[8]
      <3> HIDE DEF b
      <3>1. d.cursor = b + 1
        BY DEF b
      <3> QED BY <2>1, <3>1
    <2>3. DOMAIN n = 1 .. Len(n)
      BY <1>1
    <2> QED BY <1>1, <2>2, <2>3, Zenon
  <1>6. Octet(n, d.cursor) = PartType[j]
    BY <1>4, <1>5 DEF Octet
  <1>7. PartType[j] \in ListTypeOctets
    <2>1. j = 3 \/ j = 4 \/ j = 5 \/ j = 6 \/ j = 7 \/ j = 8
      OBVIOUS
    <2> QED BY <2>1 DEF PartType, ListTypeOctets, IP_PROTOCOL, DESTINATION_PORT, SOURCE_PORT, TCP_FLAGS,
                        PACKET_LENGTH, FRAGMENT
  <1>8. /\ Shape(r) /\ r.length = d.length /\ r.at = "value" /\ r.cursor = d.cursor + 1
        /\ r.type = PartType[j] /\ r.items = << >> /\ r.rule = d.rule
    BY <1>1, <1>6, <1>7, TypeStep
  <1> HIDE DEF r, list, w
  <1>9. 0 < Len(list) /\ Len(list) \in Nat
    BY <1>3, <1>4
  <1>10. r.cursor = b + 2 + 0 * (1 + w)
    <2>1. w \in {1, 2}
      <3>1. j = 3 \/ j = 4 \/ j = 5 \/ j = 6 \/ j = 7 \/ j = 8
        OBVIOUS
      <3> QED BY <3>1 DEF PartWidth, w
    <2>2. b \in Nat /\ d.cursor = b + 1
      BY <1>1, <1>2
    <2> HIDE DEF b
    <2> QED BY <1>8, <2>1, <2>2
  <1>11. ItemsOf(r.items, j, list, 0)
    <2> DEFINE T == {ItemOf(j, v) : v \in PartValues(j)}
    <2>1. << >> \in Seq(T) /\ Len(<< >>) = 0
      OBVIOUS
    <2>2. \A x \in 1 .. 0 : FALSE
      OBVIOUS
    <2> QED BY <1>8, <2>1, <2>2 DEF ItemsOf
  <1>12. FieldsRead(r.rule, rule, e, b + 1)
    BY <1>8
  <1>13. ValueAt(r, rule, e, j, 0)
    BY <1>8, <1>9, <1>10, <1>11, <1>12, Zenon DEF ValueAt, list, w
  <1>14. AtValue(r, rule, e)
    <2>1. 0 \in Nat
      OBVIOUS
    <2> QED BY <1>13, <2>1 DEF AtValue
  <1>15. r.length <= e[8]
    BY <1>8
  <1> QED BY <1>14, <1>15 DEF Reads, r

\* A prefix is read as it was announced, or its length was cut.
LEMMA PrefixReads ==
    ASSUME NEW rule, NEW n, NEW l, NEW e, Layout(rule, n, l, e), NEW action,
           NEW d, Shape(d), d.at = "type", d.length <= e[8], d.cursor <= d.length, NEW j \in {1, 2}, l[j] # 0,
           d.cursor = e[j - 1] + 1, FieldsRead(d.rule, rule, e, d.cursor)
    PROVE  Reads(DecodeType(d, n), rule, e, action)
  <1> DEFINE r == DecodeType(d, n)
             field == PartField[j]
             list == rule[field]
             prefix == list[1]
             length == prefix.cidr_prefix_length
             bytes == how_much_bytes_we_need(length)
             m == Masked(prefix.subnet_address, length)
             b == e[j - 1]
             size == l[j]
             L == d.length
             end == e[8]
  <1>1. /\ l \in [1 .. 8 -> Nat] /\ e \in [0 .. 8 -> Nat] /\ n \in Seq(Uint8) /\ Len(n) = end /\ Ends(e, l)
        /\ PrefixAt(n, b, size, j, list)
    BY Zenon DEF Layout
  <1>2. j \in 1 .. 8 /\ j - 1 \in 0 .. 8 /\ j \in 0 .. 8 /\ 8 \in 0 .. 8
    OBVIOUS
  <1>3. list # << >>
    BY <1>2, LayoutEmpty
  <1>4. /\ prefix \in Subnets /\ list = <<prefix>> /\ size = 2 + bytes
        /\ n[b + 1] = j /\ n[b + 2] = length
        /\ \A i \in 1 .. bytes : n[b + 2 + i] = m[i]
    <2> HIDE DEF list, b, size
    <2> QED BY <1>1, <1>3 DEF PrefixAt
  <1>5. prefix.subnet_address \in Octets(4) /\ length \in 0 .. 32
    <2> HIDE DEF prefix
    <2> QED BY <1>4 DEF Subnets
  <1> HIDE DEF prefix
  <1>6. /\ m \in Octets(4) /\ bytes \in 0 .. 4
        /\ Masked([i \in 1 .. 4 |-> IF i <= bytes THEN m[i] ELSE 0], length) = m
    <2> HIDE DEF length
    <2> QED BY <1>5, MaskedAgain
  <1>7. e[j] = b + size /\ e[j] <= end /\ b \in Nat /\ end \in Nat /\ e[j] \in Nat
    <2>1. e[j] = e[j - 1] + l[j]
      BY <1>1, <1>2 DEF Ends
    <2>2. e[j] <= e[8]
      BY <1>1, <1>2, EndsOrdered
    <2> QED BY <1>1, <1>2, <2>1, <2>2
  <1>8. d.cursor \in Nat /\ L \in Nat /\ d.cursor = b + 1 /\ L <= end /\ d.cursor <= L
    BY DEF Shape
  <1>9. FieldsRead(d.rule, rule, e, b + 1)
    OBVIOUS
  <1> HIDE DEF length, bytes, m, b, size, L, end
  <1>10. b + 1 \in 1 .. end /\ b + 2 \in 1 .. end /\ \A i \in 1 .. bytes : b + 2 + i \in 1 .. end
    BY <1>4, <1>6, <1>7
  <1>11. DOMAIN n = 1 .. end
    <2>1. DOMAIN n = 1 .. Len(n)
      BY <1>1
    <2> QED BY <1>1, <2>1, Zenon
  <1>12. Octet(n, d.cursor) = j
    BY <1>4, <1>8, <1>10, <1>11 DEF Octet
  <1>13. PICK at : OnlyTouched(d, at) /\ r = decode_prefix(at, n, field)
    <2>1. j = 1 \/ j = 2
      OBVIOUS
    <2>2. /\ j = DESTINATION_PREFIX =>
                 \E at : OnlyTouched(d, at) /\ r = decode_prefix(at, n, "destination_subnet_ipv4")
          /\ j = SOURCE_PREFIX =>
                 \E at : OnlyTouched(d, at) /\ r = decode_prefix(at, n, "source_subnet_ipv4")
      BY <1>1, <1>12, TypeStep
    <2>3. /\ j = 1 => field = "destination_subnet_ipv4"
          /\ j = 2 => field = "source_subnet_ipv4"
      BY DEF PartField
    <2>4. DESTINATION_PREFIX = 1 /\ SOURCE_PREFIX = 2
      BY DEF DESTINATION_PREFIX, SOURCE_PREFIX
    <2> HIDE DEF r, field
    <2> QED BY <2>1, <2>2, <2>3, <2>4
  <1>14. /\ Shape(at) /\ at.cursor = b + 1 /\ at.length = L /\ at.at = "type" /\ at.rule = d.rule
    BY <1>8, <1>13 DEF OnlyTouched, L
  <1>15. field \in DOMAIN EmptyRule /\ field \in SubnetFields
    <2>1. field \in {"destination_subnet_ipv4", "source_subnet_ipv4"}
      BY DEF PartField
    <2> HIDE DEF field
    <2> QED BY <2>1, RuleDomain DEF SubnetFields
  <1>16. at.rule[field] = << >>
    <2>1. ~(e[j] < b + 1)
      BY <1>4, <1>6, <1>7
    <2> QED BY <1>2, <1>9, <1>14, <2>1 DEF FieldsRead
  <1> HIDE DEF r, field, list
  <1> DEFINE read == Octet(n, at.cursor + 1)
             few == how_much_bytes_we_need(read)
             address == [i \in 1 .. 4 |-> IF i <= few THEN Octet(n, at.cursor + 1 + i) ELSE 0]
             bad == at.rule[field] # << >> \/ Left(at) < 2 \/ read > 32 \/ Left(at) < 2 + few
  <1>17. /\ Shape(r) /\ r.length = at.length
         /\ bad => r.at = "refused"
         /\ ~bad => /\ r.at = at.at /\ r.cursor = at.cursor + 2 + few
                    /\ r.rule = [at.rule EXCEPT ![field] =
                            <<[subnet_address |-> Masked(address, read), cidr_prefix_length |-> read]>>]
    <2>1. Shape(at) /\ n \in Seq(Uint8) /\ field \in DOMAIN EmptyRule
      BY <1>1, <1>14, <1>15
    <2> DEFINE q == decode_prefix(at, n, field)
    <2>2. /\ Shape(q) /\ q.length = at.length
          /\ bad => q.at = "refused"
          /\ ~bad => /\ q.at = at.at /\ q.cursor = at.cursor + 2 + few
                     /\ q.rule = [at.rule EXCEPT ![field] =
                             <<[subnet_address |-> Masked(address, read), cidr_prefix_length |-> read]>>]
      BY <2>1, PrefixStep
    <2>3. r = q
      BY <1>13
    <2> HIDE DEF q, bad, read, few, address
    <2> QED BY <2>2, <2>3
  <1>18. read = length /\ few = bytes
    <2>1. at.cursor + 1 = b + 2
      BY <1>7, <1>14
    <2>2. read = length
      BY <1>4, <1>10, <1>11, <2>1 DEF Octet
    <2> QED BY <2>2 DEF bytes
  <1>19. Masked(address, length) = m
    <2>1. address = [i \in 1 .. 4 |-> IF i <= bytes THEN m[i] ELSE 0]
      <3> SUFFICES ASSUME NEW i \in 1 .. 4, i <= bytes PROVE Octet(n, at.cursor + 1 + i) = m[i]
        BY <1>18
      <3>1. at.cursor + 1 + i = b + 2 + i /\ i \in 1 .. bytes
        BY <1>6, <1>7, <1>14
      <3>2. b + 2 + i \in DOMAIN n /\ n[b + 2 + i] = m[i]
        BY <1>4, <1>10, <1>11, <3>1
      <3> QED BY <3>1, <3>2 DEF Octet
    <2> HIDE DEF address
    <2> QED BY <1>6, <2>1
  <1>20. Left(at) = L + 1 - (b + 1)
    BY <1>14 DEF Left
  <1> HIDE DEF read, few, address
  <1>21. CASE bad
    <2>1. Left(at) < 2 \/ Left(at) < 2 + bytes
      BY <1>5, <1>16, <1>18, <1>21
    <2>2. L < end
      BY <1>4, <1>6, <1>7, <1>8, <1>20, <2>1
    <2>3. r.at = "refused" /\ r.length = L
      BY <1>14, <1>17, <1>21
    <2>4. Reads(r, rule, e, action)
      BY <1>8, <2>2, <2>3 DEF Reads, end
    <2> QED BY <2>4 DEF r
  <1>22. CASE ~bad
    <2> DEFINE value == <<[subnet_address |-> m, cidr_prefix_length |-> length]>>
    <2>1. r.at = "type" /\ r.cursor = b + 1 + 2 + bytes /\ r.rule = [d.rule EXCEPT ![field] = value]
      BY <1>14, <1>17, <1>18, <1>19, <1>22
    <2>2. ~(Left(at) < 2 + bytes)
      BY <1>18, <1>22
    <2>3. r.cursor = e[j] + 1 /\ r.cursor <= L + 1
      BY <1>4, <1>6, <1>7, <1>8, <1>20, <2>1, <2>2
    <2>4. AnnouncedField(rule, field) = value
      <3>1. rule[field] = <<prefix>>
        BY <1>4 DEF list
      <3> QED BY <1>4, <1>15, <3>1, AnnouncedPrefix DEF m, length
    <2> HIDE DEF value
    <2>5. field \in DOMAIN d.rule
      BY <1>15 DEF Shape
    <2>6. /\ r.rule[PartField[j]] = AnnouncedField(rule, PartField[j])
          /\ \A i \in 1 .. 8 : i # j => r.rule[PartField[i]] = d.rule[PartField[i]]
      <3>1. r.rule[field] = value
        BY <2>1, <2>5
      <3>2. \A i \in 1 .. 8 : i # j => PartField[i] # field
        BY <1>2, FieldsApart DEF field
      <3>3. \A g : g # field => r.rule[g] = d.rule[g] \/ g \notin DOMAIN d.rule
        BY <2>1
      <3>4. \A i \in 1 .. 8 : PartField[i] \in DOMAIN d.rule
        <4>1. \A i \in 1 .. 8 : PartField[i] \in DOMAIN EmptyRule
          BY PartsAreFields
        <4> QED BY <4>1 DEF Shape
      <3> QED BY <2>4, <3>1, <3>2, <3>3, <3>4 DEF field
    <2>7. FieldsRead(r.rule, rule, e, e[j] + 1)
      <3>1. FieldsRead(d.rule, rule, e, e[j - 1] + 1)
        BY <1>9 DEF b
      <3> QED BY <1>2, <2>6, <3>1, FieldsAdvance
    <2>8. AtType(r, rule, e)
      <3>1. r.length = L
        BY <1>14, <1>17
      <3> QED BY <1>2, <2>1, <2>3, <2>7, <3>1 DEF AtType
    <2>9. Reads(r, rule, e, action)
      <3>1. r.length <= e[8]
        BY <1>8, <1>14, <1>17 DEF end
      <3> QED BY <2>8, <3>1 DEF Reads
    <2> QED BY <2>9 DEF r
  <1> QED BY <1>21, <1>22

\* The octets of the value behind the first i values of a list.
ValuePlaced(rule, n, l, e, j, i) ==
    LET list == rule[PartField[j]]
        w == PartWidth[j]
        c == e[j - 1] + 2 + i * (1 + w)
    IN  /\ list \in Seq(PartValues(j)) /\ list # << >> /\ l[j] # 0
        /\ w \in {1, 2} /\ c \in Nat /\ c + w <= e[j] /\ e[j] <= e[8] /\ e[j] \in Nat /\ e[8] \in Nat
        /\ i + 1 = Len(list) => c + w = e[j]
        /\ c \in DOMAIN n /\ n[c] = PartOperator[j] + (IF i + 1 = Len(list) THEN 128 ELSE 0)
        /\ \A x \in 1 .. w : c + x \in DOMAIN n /\ n[c + x] = SentOctets(j, list[i + 1])[x]
        /\ c + 1 + w = e[j - 1] + 2 + (i + 1) * (1 + w)

\* The octets of one value lie within its component.
LEMMA ValuePlace ==
    ASSUME NEW rule, NEW n, NEW l, NEW e, Layout(rule, n, l, e), NEW j \in 3 .. 8, NEW i \in Nat,
           i < Len(rule[PartField[j]])
    PROVE  ValuePlaced(rule, n, l, e, j, i)
  <1> DEFINE list == rule[PartField[j]]
             w == PartWidth[j]
             b == e[j - 1]
             turn == 1 + w
             c == b + 2 + i * turn
             size == l[j]
             N == Len(list)
             end == e[j]
             whole == e[8]
  <1>1. /\ l \in [1 .. 8 -> Nat] /\ e \in [0 .. 8 -> Nat] /\ n \in Seq(Uint8) /\ Len(n) = whole /\ Ends(e, l)
        /\ ListAt(n, b, size, j, list)
    BY Zenon DEF Layout
  <1>2. j \in 1 .. 8 /\ j - 1 \in 0 .. 8 /\ j \in 0 .. 8 /\ 8 \in 0 .. 8
    OBVIOUS
  <1>3. list \in Seq(PartValues(j)) /\ N \in Nat
    <2>1. list \in Seq(PartValues(j))
      BY <1>1, Zenon DEF ListAt
    <2> HIDE DEF list
    <2> QED BY <2>1
  <1>4. list # << >>
    <2>1. Len(<< >>) = 0
      OBVIOUS
    <2> HIDE DEF list
    <2>2. i < Len(list)
      BY DEF list
    <2> QED BY <2>1, <2>2
  <1>5. w \in {1, 2}
    <2>1. j = 3 \/ j = 4 \/ j = 5 \/ j = 6 \/ j = 7 \/ j = 8
      OBVIOUS
    <2> QED BY <2>1 DEF PartWidth
  <1>6. end = b + size /\ end <= whole /\ b \in Nat /\ whole \in Nat /\ end \in Nat
    <2>1. e[j] = e[j - 1] + l[j]
      BY <1>1, <1>2 DEF Ends
    <2>2. e[j] <= e[8]
      BY <1>1, <1>2, EndsOrdered
    <2> QED BY <1>1, <1>2, <2>1, <2>2
  <1>7. i < N
    OBVIOUS
  <1> DEFINE y == i + 1
  <1> HIDE DEF list, w, b, size, end, whole, N, y
  <1>8. /\ size = 1 + N * turn
        /\ \A z \in 1 .. N :
               /\ n[b + 2 + (z - 1) * turn] = PartOperator[j] + (IF z = N THEN 128 ELSE 0)
               /\ \A x \in 1 .. w : n[b + 2 + (z - 1) * turn + x] = SentOctets(j, list[z])[x]
    BY <1>1, <1>4, Zenon DEF ListAt, N, w
  <1>9. y \in 1 .. N /\ y - 1 = i
    BY <1>3, <1>7 DEF y
  <1>10. /\ n[c] = PartOperator[j] + (IF y = N THEN 128 ELSE 0)
         /\ \A x \in 1 .. w : n[c + x] = SentOctets(j, list[y])[x]
    BY <1>8, <1>9, Zenon
  <1>11. /\ c \in Nat /\ 1 <= c /\ c + w <= end /\ (y = N => c + w = end) /\ c + 1 + w = b + 2 + y * (1 + w)
         /\ size # 0
    <2>1. y = i + 1
      BY DEF y
    <2>2. CASE w = 1
      BY <1>3, <1>6, <1>7, <1>8, <2>1, <2>2
    <2>3. CASE w = 2
      BY <1>3, <1>6, <1>7, <1>8, <2>1, <2>3
    <2> QED BY <1>5, <2>2, <2>3
  <1> HIDE DEF c
  <1>12. DOMAIN n = 1 .. whole
    <2>1. DOMAIN n = 1 .. Len(n)
      BY <1>1
    <2> QED BY <1>1, <2>1, Zenon
  <1>13. c \in DOMAIN n /\ \A x \in 1 .. w : c + x \in DOMAIN n
    BY <1>5, <1>6, <1>11, <1>12
  <1>14. /\ list \in Seq(PartValues(j)) /\ list # << >> /\ size # 0
         /\ w \in {1, 2} /\ c \in Nat /\ c + w <= end /\ end <= whole /\ end \in Nat /\ whole \in Nat
         /\ y = N => c + w = end
         /\ c \in DOMAIN n /\ n[c] = PartOperator[j] + (IF y = N THEN 128 ELSE 0)
         /\ \A x \in 1 .. w : c + x \in DOMAIN n /\ n[c + x] = SentOctets(j, list[y])[x]
         /\ c + 1 + w = b + 2 + y * (1 + w)
    BY <1>3, <1>4, <1>5, <1>6, <1>10, <1>11, <1>13, Zenon
  <1> QED BY <1>14, Zenon DEF ValuePlaced, list, w, b, size, end, whole, N, y, c

\* One more value of a list is among the items.
LEMMA ItemsGrow ==
    ASSUME NEW j \in 3 .. 8, NEW list \in Seq(PartValues(j)), NEW i \in Nat, i < Len(list),
           NEW items, ItemsOf(items, j, list, i), NEW item, item = ItemOf(j, list[i + 1])
    PROVE  ItemsOf(Append(items, item), j, list, i + 1) /\ Len(Append(items, item)) = i + 1
  <1> DEFINE T == {ItemOf(j, v) : v \in PartValues(j)}
             more == Append(items, item)
             N == Len(list)
  <1>1. items \in Seq(T) /\ Len(items) = i /\ \A x \in 1 .. i : items[x] = ItemOf(j, list[x])
    BY DEF ItemsOf
  <1>2. N \in Nat /\ i + 1 \in 1 .. N
    OBVIOUS
  <1>3. list[i + 1] \in PartValues(j)
    BY <1>2
  <1>4. item \in T
    BY <1>3
  <1> HIDE DEF T, N
  <1>5. /\ more \in Seq(T) /\ Len(more) = i + 1 /\ more[i + 1] = item
        /\ \A x \in 1 .. i : more[x] = items[x]
    BY <1>1, <1>4
  <1>6. \A x \in 1 .. i + 1 : x \in 1 .. i \/ x = i + 1
    OBVIOUS
  <1>7. \A x \in 1 .. i + 1 : more[x] = ItemOf(j, list[x])
    BY <1>1, <1>5, <1>6
  <1> QED BY <1>5, <1>7 DEF ItemsOf, T

\* Every list has at most as many values as the decoder reads.
Few(rule) == \A f \in NlriFields : Len(rule[f]) <= MaxValues

\* A component that is there has octets.
LEMMA PartInside ==
    ASSUME NEW rule, NEW n, NEW l, NEW e, Layout(rule, n, l, e), NEW j \in 1 .. 8, l[j] # 0
    PROVE  e[j - 1] \in Nat /\ e[j] \in Nat /\ ~(e[j] < e[j - 1] + 1)
  <1>1. l \in [1 .. 8 -> Nat] /\ e \in [0 .. 8 -> Nat] /\ e[j] = e[j - 1] + l[j]
    BY DEF Layout, Ends
  <1>2. j - 1 \in 0 .. 8 /\ j \in 0 .. 8
    OBVIOUS
  <1> QED BY <1>1, <1>2

\* A value is read as it was announced, or its length was cut; the last one ends the list.
LEMMA ValueReads ==
    ASSUME NEW rule, NEW n, NEW l, NEW e, Layout(rule, n, l, e), NEW action, Few(rule),
           NEW d, Shape(d), d.length <= e[8], NEW j \in 3 .. 8, NEW i \in Nat, ValueAt(d, rule, e, j, i)
    PROVE  Reads(DecodeValue(d, n), rule, e, action)
  <1> DEFINE r == DecodeValue(d, n)
             field == PartField[j]
             list == rule[field]
             w == PartWidth[j]
             c == e[j - 1] + 2 + i * (1 + w)
             b == e[j - 1]
             N == Len(list)
             y == i + 1
             v == list[y]
             end == e[j]
             whole == e[8]
             L == d.length
             last == IF y = N THEN 128 ELSE 0
  <1>1. /\ d.at = "value" /\ d.type = PartType[j] /\ i < N /\ d.cursor = c
        /\ ItemsOf(d.items, j, list, i) /\ FieldsRead(d.rule, rule, e, b + 1)
    BY Zenon DEF ValueAt
  <1>2. j \in 1 .. 8
    OBVIOUS
  <1>3. n \in Seq(Uint8)
    BY Zenon DEF Layout
  <1>4. /\ list \in Seq(PartValues(j)) /\ list # << >> /\ l[j] # 0
        /\ w \in {1, 2} /\ c \in Nat /\ c + w <= end /\ end <= whole /\ end \in Nat /\ whole \in Nat
        /\ y = N => c + w = end
        /\ c \in DOMAIN n /\ n[c] = PartOperator[j] + (IF y = N THEN 128 ELSE 0)
        /\ \A x \in 1 .. w : c + x \in DOMAIN n /\ n[c + x] = SentOctets(j, v)[x]
        /\ c + 1 + w = b + 2 + y * (1 + w)
    <2>1. i < Len(rule[PartField[j]])
      BY <1>1, Zenon
    <2>2. /\ list \in Seq(PartValues(j)) /\ list # << >> /\ l[j] # 0
          /\ w \in {1, 2} /\ c \in Nat /\ c + w <= end /\ end <= whole /\ end \in Nat /\ whole \in Nat
          /\ i + 1 = Len(list) => c + w = end
          /\ c \in DOMAIN n /\ n[c] = PartOperator[j] + (IF i + 1 = Len(list) THEN 128 ELSE 0)
          /\ \A x \in 1 .. w : c + x \in DOMAIN n /\ n[c + x] = SentOctets(j, list[i + 1])[x]
          /\ c + 1 + w = b + 2 + (i + 1) * (1 + w)
      <3>1. ValuePlaced(rule, n, l, e, j, i)
        BY <2>1, ValuePlace
      <3> QED BY <3>1, Zenon DEF ValuePlaced
    <2> HIDE DEF list, w, c, b, end, whole
    <2> QED BY <2>2, Zenon DEF y, N, v
  <1>5. field \in NlriFields /\ field \in DOMAIN EmptyRule
    <2>1. j = 3 \/ j = 4 \/ j = 5 \/ j = 6 \/ j = 7 \/ j = 8
      OBVIOUS
    <2>2. field \in NlriFields
      BY <2>1 DEF PartField, NlriFields
    <2> QED BY <1>2, <2>2, PartsAreFields
  <1>6. N <= MaxValues
    BY <1>5 DEF Few
  <1>7. L \in Nat /\ L <= whole /\ MaxValues \in Nat
    BY CodecAssumption DEF Shape
  <1>8. j = 6 => {} \notin ToSet(list)
    <2>1. j = 6 => field = "tcp_flags"
      BY DEF PartField
    <2> HIDE DEF field
    <2>2. {} \notin ToSet(rule.tcp_flags)
      BY Zenon DEF Layout
    <2> QED BY <2>1, <2>2
  <1>9. N \in Nat
    <2> HIDE DEF list
    <2> QED BY <1>4
  <1>10. v \in PartValues(j)
    <2>1. y \in 1 .. N
      <3> HIDE DEF N
      <3> QED BY <1>1, <1>9
    <2> HIDE DEF list, y
    <2> QED BY <1>4, <2>1
  <1> HIDE DEF r, field, list, w, c, b, N, v, end, whole, L
  <1> DEFINE operator == Octet(n, d.cursor)
             width == 2 ^ ((operator \div TwoBytes) % 4)
             item == ItemRead(n, d.cursor, width)
             items == Append(d.items, item)
             bad == \/ Left(d) < 1 \/ Has(operator, LessThan) \/ Has(operator, GreaterThan)
                    \/ Has(operator, AndBit) \/ width > 2 \/ Left(d) < 1 + width
             ends == Has(operator, EndOfList) \/ Len(items) = MaxValues
             readable == \A x \in DOMAIN items : ItemReadable(d.type, items[x])
             added == AddedValues(d.type, items)
  <1>11. /\ Shape(r) /\ r.length = L
         /\ bad => r.at = "refused"
         /\ ~bad /\ ~ends =>
                /\ r.at = d.at /\ r.cursor = d.cursor + 1 + width /\ r.type = d.type
                /\ r.items = items /\ r.rule = d.rule
         /\ ~bad /\ ends /\ readable =>
                /\ r.at = "type" /\ r.cursor = d.cursor + 1 + width
                /\ r.rule = [d.rule EXCEPT ![FieldOf(d.type)] = @ \o added]
    BY <1>3, ValueStep DEF r, L
  <1>12. last \in {0, 128} /\ (last = 128 <=> y = N)
    OBVIOUS
  <1>13. operator = PartOperator[j] + last
    BY <1>1, <1>4 DEF Octet
  <1> HIDE DEF operator, last
  <1>14. /\ ~Has(operator, LessThan) /\ ~Has(operator, GreaterThan) /\ ~Has(operator, AndBit)
         /\ width = w /\ (Has(operator, EndOfList) <=> y = N)
    <2>1. /\ ~Has(operator, LessThan) /\ ~Has(operator, GreaterThan) /\ ~Has(operator, AndBit)
          /\ width = PartWidth[j] /\ (Has(operator, EndOfList) <=> last = 128)
      BY <1>12, <1>13, OperatorOctet
    <2> QED BY <1>12, <2>1 DEF w
  <1> HIDE DEF width
  <1>15. item = ItemOf(j, v)
    <2>1. \A x \in 1 .. PartWidth[j] : c + x \in DOMAIN n /\ n[c + x] = SentOctets(j, v)[x]
      BY <1>4, Zenon DEF w
    <2>2. ItemRead(n, c, PartWidth[j]) = ItemOf(j, v)
      BY <1>3, <1>4, <1>10, <2>1, ItemReadBack
    <2> QED BY <1>1, <1>14, <2>2 DEF w
  <1> HIDE DEF item
  <1>16. ItemsOf(items, j, list, y) /\ Len(items) = y
    <2>1. i < Len(list) /\ item = ItemOf(j, list[i + 1])
      BY <1>1, <1>15 DEF v, N
    <2>2. list \in Seq(PartValues(j)) /\ ItemsOf(d.items, j, list, i)
      BY <1>1, <1>4
    <2> QED BY <2>1, <2>2, ItemsGrow
  <1> HIDE DEF items
  <1>17. ends <=> y = N
    <2>1. y = MaxValues => y = N
      BY <1>1, <1>6, <1>7, <1>9
    <2> QED BY <1>14, <1>16, <2>1
  <1>18. bad <=> L + 1 - c < 1 + w
    <2>1. Left(d) = L + 1 - c
      BY <1>1 DEF Left, L
    <2> QED BY <1>4, <1>7, <1>14, <2>1
  <1>19. d.cursor + 1 + width = c + 1 + w
    BY <1>1, <1>14
  <1> HIDE DEF bad, ends, readable
  <1>20. r.length <= e[8]
    BY <1>7, <1>11 DEF whole
  <1>21. ASSUME bad PROVE Reads(r, rule, e, action)
    <2>1. L < whole
      BY <1>4, <1>7, <1>18, <1>21
    <2>2. r.at = "refused" /\ r.length < e[8]
      BY <1>11, <1>21, <2>1 DEF whole
    <2> QED BY <1>20, <2>2 DEF Reads
  <1>22. ASSUME ~bad, ~ends PROVE Reads(r, rule, e, action)
    <2>1. /\ r.at = "value" /\ r.cursor = b + 2 + y * (1 + w) /\ r.type = PartType[j]
          /\ r.items = items /\ r.rule = d.rule
      BY <1>1, <1>4, <1>11, <1>19, <1>22
    <2>2. y < N /\ y \in Nat
      BY <1>1, <1>9, <1>17, <1>22
    <2> HIDE DEF y
    <2>3. ValueAt(r, rule, e, j, y)
      BY <1>1, <1>16, <2>1, <2>2, Zenon DEF ValueAt, list, field, N, b, w
    <2>4. AtValue(r, rule, e)
      BY <2>2, <2>3 DEF AtValue
    <2> QED BY <1>20, <2>4 DEF Reads
  <1>23. ASSUME ~bad, ends PROVE Reads(r, rule, e, action)
    <2>1. y = N
      BY <1>17, <1>23
    <2>2. /\ \A x \in DOMAIN items : ItemReadable(PartType[j], items[x])
          /\ AddedValues(PartType[j], items) = list
          /\ FieldOf(PartType[j]) = PartField[j]
      <3>1. ItemsOf(items, j, list, Len(list))
        BY <1>16, <2>1 DEF N
      <3> QED BY <1>4, <1>8, <3>1, ListReadBack
    <2>3. readable
      BY <1>1, <2>2 DEF readable
    <2>4. added = list /\ FieldOf(d.type) = field
      BY <1>1, <2>2 DEF field
    <2> HIDE DEF added
    <2>5. r.at = "type" /\ r.cursor = c + 1 + w /\ r.rule = [d.rule EXCEPT ![field] = @ \o list]
      BY <1>11, <1>19, <1>23, <2>3, <2>4
    <2>6. r.cursor = end + 1 /\ r.cursor <= L + 1
      <3>1. c + w = end
        BY <1>4, <2>1
      <3>2. ~(L + 1 - c < 1 + w)
        BY <1>18, <1>23
      <3> QED BY <1>4, <1>7, <2>5, <3>1, <3>2
    <2>7. d.rule[field] = << >>
      <3>1. ~(end < b + 1)
        BY <1>2, <1>4, PartInside DEF b, end
      <3> QED BY <1>1, <1>2, <3>1 DEF FieldsRead, field, end
    <2>8. field \in DOMAIN d.rule
      BY <1>5 DEF Shape
    <2>9. r.rule[field] = list
      <3>1. r.rule[field] = d.rule[field] \o list
        BY <2>5, <2>8
      <3>2. << >> \o list = list
        BY <1>4
      <3> QED BY <2>7, <3>1, <3>2
    <2>10. AnnouncedField(rule, field) = list
      <3>1. field \notin SubnetFields
        <4>1. j = 3 \/ j = 4 \/ j = 5 \/ j = 6 \/ j = 7 \/ j = 8
          OBVIOUS
        <4> QED BY <4>1 DEF PartField, field, SubnetFields
      <3> QED BY <3>1 DEF AnnouncedField, list
    <2>11. /\ r.rule[PartField[j]] = AnnouncedField(rule, PartField[j])
           /\ \A x \in 1 .. 8 : x # j => r.rule[PartField[x]] = d.rule[PartField[x]]
      <3>1. \A x \in 1 .. 8 : x # j => PartField[x] # field
        BY <1>2, FieldsApart DEF field
      <3>2. \A g : g # field => r.rule[g] = d.rule[g] \/ g \notin DOMAIN d.rule
        BY <2>5
      <3>3. \A x \in 1 .. 8 : PartField[x] \in DOMAIN d.rule
        <4>1. \A x \in 1 .. 8 : PartField[x] \in DOMAIN EmptyRule
          BY PartsAreFields
        <4> QED BY <4>1 DEF Shape
      <3> QED BY <2>9, <2>10, <3>1, <3>2, <3>3 DEF field
    <2>12. FieldsRead(r.rule, rule, e, e[j] + 1)
      <3>1. FieldsRead(d.rule, rule, e, e[j - 1] + 1)
        BY <1>1 DEF b
      <3> QED BY <1>2, <1>4, <2>11, <3>1, FieldsAdvance
    <2>13. AtType(r, rule, e)
      <3>1. j \in 0 .. 8
        OBVIOUS
      <3>2. r.cursor = e[j] + 1 /\ r.cursor <= r.length + 1
        BY <1>11, <2>6 DEF end
      <3> QED BY <2>5, <2>12, <3>1, <3>2 DEF AtType
    <2> QED BY <1>20, <2>13 DEF Reads
  <1>24. Reads(r, rule, e, action)
    BY <1>21, <1>22, <1>23
  <1> QED BY <1>24 DEF r

\* A component begins and is read as it was announced, or its length was cut.
LEMMA TypeReads ==
    ASSUME NEW rule, NEW n, NEW l, NEW e, Layout(rule, n, l, e), NEW action,
           NEW d, Shape(d), d.length <= e[8], AtType(d, rule, e), d.cursor <= d.length
    PROVE  Reads(DecodeType(d, n), rule, e, action)
  <1>1. d.at = "type" /\ FieldsRead(d.rule, rule, e, d.cursor)
    BY DEF AtType
  <1>2. PICK k \in 0 .. 8 : d.cursor = e[k] + 1
    BY DEF AtType
  <1>3. e \in [0 .. 8 -> Nat] /\ 8 \in 0 .. 8
    BY DEF Layout
  <1>4. e[k] < e[8]
    <2>1. e[k] \in Nat /\ e[8] \in Nat /\ d.cursor \in Nat /\ d.length \in Nat
      BY <1>3 DEF Shape
    <2> QED BY <1>2, <2>1
  <1>5. PICK j \in 1 .. 8 : e[j - 1] = e[k] /\ l[j] # 0
    BY <1>4, NextPart
  <1>6. d.cursor = e[j - 1] + 1
    BY <1>2, <1>5
  <1>7. j \in {1, 2} \/ j \in 3 .. 8
    OBVIOUS
  <1>8. CASE j \in {1, 2}
    BY <1>1, <1>5, <1>6, <1>8, PrefixReads
  <1>9. CASE j \in 3 .. 8
    BY <1>1, <1>5, <1>6, <1>9, ListBegins
  <1> QED BY <1>7, <1>8, <1>9

Ended(d, action, r) == r = [d EXCEPT !.at = "done", !.rule.action = action]

\* The end of the NLRI: the action comes from the community.
LEMMA EndReads ==
    ASSUME NEW d, Shape(d), NEW action, NEW r, Ended(d, action, r)
    PROVE  /\ Shape(r) /\ r.at = "done" /\ r.length = d.length /\ r.rule.action = action
           /\ \A f \in DOMAIN EmptyRule : f # "action" => r.rule[f] = d.rule[f]
  <1>1. /\ DOMAIN d = {"at", "cursor", "length", "type", "items", "rule", "touched"}
        /\ DOMAIN d.rule = DOMAIN EmptyRule
        /\ d.cursor \in Nat /\ d.length \in Nat /\ d.touched \in Nat /\ d.touched <= d.length
    BY DEF Shape
  <1>2. /\ DOMAIN r = DOMAIN d /\ r.at = "done" /\ r.cursor = d.cursor /\ r.length = d.length
        /\ r.touched = d.touched /\ r.rule = [d.rule EXCEPT !.action = action]
    BY <1>1 DEF Ended
  <1>3. "action" \in DOMAIN EmptyRule
    BY RuleDomain
  <1>4. /\ DOMAIN r.rule = DOMAIN EmptyRule /\ r.rule.action = action
        /\ \A f \in DOMAIN EmptyRule : f # "action" => r.rule[f] = d.rule[f]
    BY <1>1, <1>2, <1>3
  <1> QED BY <1>1, <1>2, <1>4 DEF Shape

\* A decoder that has come to the end of what it was given has read the fields that end there.
LEMMA DoneReads ==
    ASSUME NEW rule, NEW n, NEW l, NEW e, Layout(rule, n, l, e), NEW action,
           NEW d, Shape(d), d.length <= e[8], AtType(d, rule, e), d.cursor > d.length,
           NEW r, Ended(d, action, r)
    PROVE  Reads(r, rule, e, action)
  <1>1. d.cursor <= d.length + 1 /\ FieldsRead(d.rule, rule, e, d.cursor)
    BY DEF AtType
  <1>2. d.cursor = d.length + 1
    <2>1. d.cursor \in Nat /\ d.length \in Nat
      BY DEF Shape
    <2> QED BY <1>1, <2>1
  <1>3. /\ r.at = "done" /\ r.length = d.length /\ r.rule.action = action
        /\ \A f \in DOMAIN EmptyRule : f # "action" => r.rule[f] = d.rule[f]
    BY EndReads
  <1>4. \A i \in 1 .. 8 : PartField[i] \in DOMAIN EmptyRule /\ PartField[i] # "action"
    <2> SUFFICES ASSUME NEW i \in 1 .. 8 PROVE PartField[i] \in DOMAIN EmptyRule /\ PartField[i] # "action"
      OBVIOUS
    <2>1. i = 1 \/ i = 2 \/ i = 3 \/ i = 4 \/ i = 5 \/ i = 6 \/ i = 7 \/ i = 8
      OBVIOUS
    <2>2. PartField[i] # "action"
      BY <2>1 DEF PartField
    <2> QED BY <2>2, PartsAreFields
  <1>5. FieldsRead(r.rule, rule, e, r.length + 1)
    BY <1>1, <1>2, <1>3, <1>4 DEF FieldsRead
  <1> QED BY <1>3, <1>5 DEF Reads

\* Nothing of a rule has been read before the first octet.
LEMMA StartReads ==
    ASSUME NEW rule, NEW n, NEW l, NEW e, Layout(rule, n, l, e), NEW action,
           NEW length \in Nat, length <= e[8],
           NEW r, r = [Idle EXCEPT !.at = "type", !.length = length]
    PROVE  Shape(r) /\ Reads(r, rule, e, action)
  <1>1. /\ DOMAIN r = {"at", "cursor", "length", "type", "items", "rule", "touched"}
        /\ r.at = "type" /\ r.cursor = 1 /\ r.length = length /\ r.rule = EmptyRule /\ r.touched = 0
    BY DEF Idle
  <1>2. Shape(r)
    BY <1>1 DEF Shape
  <1>3. \A j \in 1 .. 8 : EmptyRule[PartField[j]] = << >>
    <2> SUFFICES ASSUME NEW j \in 1 .. 8 PROVE EmptyRule[PartField[j]] = << >>
      OBVIOUS
    <2>1. j = 1 \/ j = 2 \/ j = 3 \/ j = 4 \/ j = 5 \/ j = 6 \/ j = 7 \/ j = 8
      OBVIOUS
    <2>2. PartField[j] \in {"destination_subnet_ipv4", "source_subnet_ipv4", "protocols", "destination_ports",
                            "source_ports", "tcp_flags", "packet_lengths", "fragmentation_flags"}
      BY <2>1 DEF PartField
    <2>3. \A f \in {"destination_subnet_ipv4", "source_subnet_ipv4", "protocols", "destination_ports",
                    "source_ports", "tcp_flags", "packet_lengths", "fragmentation_flags"} : EmptyRule[f] = << >>
      BY DEF EmptyRule, SubnetFields, VectorFields
    <2> QED BY <2>2, <2>3, Zenon
  <1>4. /\ l \in [1 .. 8 -> Nat] /\ e \in [0 .. 8 -> Nat] /\ e[0] = 0
        /\ \A j \in 1 .. 8 : e[j] = e[j - 1] + l[j]
    BY DEF Layout, Ends
  <1>5. ASSUME NEW j \in 1 .. 8, e[j] < 1 PROVE AnnouncedField(rule, PartField[j]) = << >>
    <2>1. e[j - 1] \in Nat /\ l[j] \in Nat /\ e[j] = e[j - 1] + l[j]
      <3>1. j - 1 \in 0 .. 8
        OBVIOUS
      <3> QED BY <1>4, <3>1
    <2>2. l[j] = 0
      BY <1>5, <2>1
    <2>3. rule[PartField[j]] = << >>
      BY <2>2, LayoutEmpty
    <2> QED BY <2>3, AnnouncedEmpty
  <1>6. FieldsRead(r.rule, rule, e, 1)
    BY <1>1, <1>3, <1>5 DEF FieldsRead
  <1>7. AtType(r, rule, e)
    <2>1. 0 \in 0 .. 8 /\ 1 = e[0] + 1 /\ 1 <= length + 1
      BY <1>4
    <2> QED BY <1>1, <1>6, <2>1 DEF AtType
  <1> QED BY <1>1, <1>2, <1>7 DEF Reads

-----------------------------------------------------------------------------
(* The decoder from its first octet to its end.                            *)

\* A rule of ours, as it was encoded.
Announced(x) ==
    LET n == encode_bgp_flow_spec_elements_as_mp_nlri(x.rule)
    IN  /\ WellTyped(x.rule) /\ n # Refused /\ Tail(x.nlri) = n
        /\ Head(x.nlri) \in Nat /\ Head(x.nlri) <= Len(n) /\ Len(x.nlri) - 1 = Len(n)
        /\ decode_community(x.community) = AnnouncedAction(x.rule, x.community)

Encoding(x) ==
    \/ x = NotEncoded
    \/ /\ x.nlri \in Seq(Uint8) /\ x.nlri # << >>
       /\ x.rule # Refused => Announced(x)

ReadsRule(d, x) ==
    \E l, e : Layout(x.rule, Tail(x.nlri), l, e) /\ Reads(d, x.rule, e, AnnouncedAction(x.rule, x.community))

Decoding(d, x) ==
    \/ d = Idle
    \/ /\ x # NotEncoded /\ Shape(d)
       /\ x.rule # Refused /\ Few(x.rule) => ReadsRule(d, x)

\* What is encoded is a rule of ours or somebody's octets, and the decoder reads that rule.
CodecInv == Encoding(encoded) /\ Decoding(decoder, encoded)

\* An announcement has the NLRI of its rule and an action a peer reads.
LEMMA RuleEncoded ==
    ASSUME NEW rule, WellTyped(rule), NEW mp, mp = encode_bgp_flow_spec_elements_into_bgp_mp_attribute(rule),
           mp # Refused, NEW community, community # Refused,
           \/ community = build_attributes_for_gobgp_flowspec_announce(rule)
           \/ community = build_attributes_for_flowspec_announce(rule),
           NEW x, x = [rule |-> rule, nlri |-> mp, community |-> community]
    PROVE  Encoding(x)
  <1> DEFINE n == encode_bgp_flow_spec_elements_as_mp_nlri(rule)
             a == Len(n) % 256
  <1>1. n # Refused /\ mp = <<a>> \o n
    BY DEF encode_bgp_flow_spec_elements_into_bgp_mp_attribute
  <1>2. n \in Seq(Uint8)
    <2>1. \E l \in [1 .. 8 -> Nat] : \E e \in [0 .. 8 -> Nat] : Layout(rule, n, l, e)
      BY <1>1, LayoutExists
    <2> HIDE DEF n
    <2> QED BY <2>1 DEF Layout
  <1> HIDE DEF n
  <1> DEFINE k == Len(n)
  <1>3. k \in Nat /\ a = k % 256
    BY <1>2
  <1> HIDE DEF k
  <1>4. a \in 0 .. 255 /\ a <= k
    <2> HIDE DEF a
    <2> QED BY <1>3
  <1> HIDE DEF a
  <1>5. a \in Uint8
    BY <1>4 DEF Uint8
  <1>6. /\ mp \in Seq(Uint8) /\ Len(mp) = 1 + Len(n) /\ mp # << >> /\ Head(mp) = a /\ Tail(mp) = n
    BY <1>1, <1>2, <1>5, LengthOctet
  <1>7. Head(mp) \in Nat /\ Head(mp) <= Len(n) /\ Len(mp) - 1 = Len(n)
    <2>1. Head(mp) \in Nat /\ Head(mp) <= k
      BY <1>3, <1>4, <1>6
    <2>2. Len(mp) = 1 + k
      BY <1>6 DEF k
    <2>3. Len(mp) - 1 = k
      BY <1>3, <2>2
    <2> QED BY <2>1, <2>3 DEF k
  <1>8. decode_community(community) = AnnouncedAction(rule, community)
    BY ActionReadsBack
  <1>9. x.rule = rule /\ x.nlri = mp /\ x.community = community
    OBVIOUS
  <1>10. Announced(x)
    BY <1>1, <1>6, <1>7, <1>8, <1>9, Zenon DEF Announced, n
  <1> QED BY <1>6, <1>9, <1>10 DEF Encoding

\* So is a path of a capture.
LEMMA PathEncoded ==
    ASSUME NEW path, MatchPath(path),
           NEW x, x = [rule |-> path.rule, nlri |-> path.nlri, community |-> path.community]
    PROVE  Encoding(x)
  <1>1. PICK m : \E action \in ConfiguredActions :
            Match(m) /\ path = AnnounceFlowSpecIPv4(RuleFor(m[1], m[2], action))
    BY DEF MatchPath
  <1>2. PICK action \in ConfiguredActions :
            Match(m) /\ path = AnnounceFlowSpecIPv4(RuleFor(m[1], m[2], action))
    BY <1>1
  <1> DEFINE rule == RuleFor(m[1], m[2], action)
  <1>3. WellTyped(rule)
    BY <1>2, MatchWellTyped
  <1>4. PathSays(path, rule, encode_bgp_flow_spec_elements_as_mp_nlri(rule))
    BY <1>2, PathOfMatch
  <1>5. path = AnnounceFlowSpecIPv4(rule)
    BY <1>2
  <1> HIDE DEF rule
  <1>6. Refused \notin {path.key, path.nlri, path.community}
    BY <1>4, PathComplete
  <1>7. /\ path.rule = rule /\ path.nlri = encode_bgp_flow_spec_elements_into_bgp_mp_attribute(rule)
        /\ path.community = build_attributes_for_gobgp_flowspec_announce(rule)
    BY <1>5 DEF AnnounceFlowSpecIPv4
  <1>8. path.nlri # Refused /\ path.community # Refused
    BY <1>6
  <1>9. x = [rule |-> rule, nlri |-> path.nlri, community |-> path.community]
    BY <1>7
  <1> QED BY <1>3, <1>7, <1>8, <1>9, RuleEncoded

\* The octets of somebody else are octets.
LEMMA ForeignEncoded ==
    ASSUME NEW mp \in Foreign, NEW x, x = [rule |-> Refused, nlri |-> mp, community |-> NoBuffer]
    PROVE  Encoding(x)
  <1>1. mp \in Seq(Uint8) /\ mp # << >>
    BY CodecAssumption
  <1>2. x.rule = Refused /\ x.nlri = mp
    OBVIOUS
  <1> QED BY <1>1, <1>2 DEF Encoding

\* An NLRI that is encoded is octets, and so is what is decoded of it.
LEMMA EncodedOctets ==
    ASSUME NEW x, Encoding(x), x # NotEncoded
    PROVE  x.nlri \in Seq(Uint8) /\ Tail(x.nlri) \in Seq(Uint8) /\ Head(x.nlri) \in Nat
  <1>1. x.nlri \in Seq(Uint8) /\ x.nlri # << >>
    BY DEF Encoding
  <1> DEFINE s == x.nlri
  <1>2. s \in Seq(Uint8) /\ s # << >>
    BY <1>1
  <1> HIDE DEF s
  <1>3. Tail(s) \in Seq(Uint8) /\ Head(s) \in Uint8
    <2> DEFINE T == Uint8
    <2>1. s \in Seq(T) /\ s # << >>
      BY <1>2
    <2> HIDE DEF T
    <2>2. Len(s) \in Nat /\ Len(s) # 0 /\ \A i \in 1 .. Len(s) : s[i] \in T
      BY <2>1
    <2>3. Head(s) \in T
      BY <2>1, <2>2
    <2>4. Tail(s) \in Seq(T)
      BY <2>1, <2>2
    <2> QED BY <2>3, <2>4 DEF T
  <1>4. Head(s) \in Nat
    <2> DEFINE h == Head(s)
    <2>1. h \in Uint8
      BY <1>3
    <2> HIDE DEF h
    <2>2. h \in Nat
      BY <2>1 DEF Uint8
    <2> QED BY <2>2 DEF h
  <1> QED BY <1>2, <1>3, <1>4 DEF s

\* The decoder begins.
LEMMA StartDecodes ==
    ASSUME NEW x, Encoding(x), x # NotEncoded, NEW length \in 0 .. Head(x.nlri),
           NEW r, r = [Idle EXCEPT !.at = "type", !.length = length]
    PROVE  Decoding(r, x)
  <1>1. Head(x.nlri) \in Nat
    BY EncodedOctets
  <1>2. length \in Nat /\ length <= Head(x.nlri)
    BY <1>1
  <1>3. Shape(r)
    <2>1. /\ DOMAIN r = {"at", "cursor", "length", "type", "items", "rule", "touched"}
          /\ r.cursor = 1 /\ r.length = length /\ r.rule = EmptyRule /\ r.touched = 0
      BY DEF Idle
    <2> QED BY <1>2, <2>1 DEF Shape
  <1>4. ASSUME x.rule # Refused PROVE ReadsRule(r, x)
    <2> DEFINE rule == x.rule
               n == encode_bgp_flow_spec_elements_as_mp_nlri(rule)
               action == AnnouncedAction(rule, x.community)
    <2>1. Announced(x)
      BY <1>4 DEF Encoding
    <2>2. WellTyped(rule) /\ n # Refused /\ Tail(x.nlri) = n /\ Head(x.nlri) <= Len(n)
      BY <2>1, Zenon DEF Announced
    <2>3. PICK l : \E e \in [0 .. 8 -> Nat] : Layout(rule, n, l, e)
      BY <2>2, LayoutExists
    <2>4. PICK e : Layout(rule, n, l, e)
      BY <2>3
    <2> HIDE DEF n, rule, action
    <2>5. length <= e[8]
      <3>1. Len(n) = e[8] /\ n \in Seq(Uint8)
        BY <2>4, Zenon DEF Layout
      <3> DEFINE k == Len(n)
      <3>2. k \in Nat
        BY <3>1
      <3>3. Head(x.nlri) <= k
        BY <2>2
      <3> HIDE DEF k
      <3>4. length <= k
        BY <1>1, <1>2, <3>2, <3>3
      <3> QED BY <3>1, <3>4 DEF k
    <2>6. Reads(r, rule, e, action)
      BY <1>2, <2>4, <2>5, StartReads
    <2>7. Layout(rule, Tail(x.nlri), l, e)
      BY <2>2, <2>4
    <2> QED BY <2>6, <2>7 DEF ReadsRule, rule, action
  <1> QED BY <1>3, <1>4 DEF Decoding

\* A component is read, or its values begin.
LEMMA ComponentDecodes ==
    ASSUME NEW x, Encoding(x), NEW d, Decoding(d, x), d.at = "type", d.cursor <= d.length,
           NEW n, n = Tail(x.nlri)
    PROVE  Decoding(DecodeType(d, n), x)
  <1> DEFINE r == DecodeType(d, n)
  <1>1. d # Idle
    BY DEF Idle
  <1>2. x # NotEncoded /\ Shape(d) /\ (x.rule # Refused /\ Few(x.rule) => ReadsRule(d, x))
    BY <1>1 DEF Decoding
  <1>3. n \in Seq(Uint8)
    BY <1>2, EncodedOctets
  <1>4. Shape(r)
    BY <1>2, <1>3, TypeStep
  <1>5. ASSUME ReadsRule(d, x) PROVE ReadsRule(r, x)
    <2> DEFINE rule == x.rule
               action == AnnouncedAction(rule, x.community)
    <2>1. PICK l, e : Layout(rule, n, l, e) /\ Reads(d, rule, e, action)
      BY <1>5 DEF ReadsRule
    <2>2. d.length <= e[8] /\ AtType(d, rule, e)
      BY <2>1 DEF Reads, AtValue, ValueAt
    <2> HIDE DEF rule, action
    <2>3. Reads(r, rule, e, action)
      BY <1>2, <2>1, <2>2, TypeReads
    <2> QED BY <2>1, <2>3 DEF ReadsRule, rule, action
  <1> QED BY <1>2, <1>4, <1>5 DEF Decoding

\* A value is read.
LEMMA ValueDecodes ==
    ASSUME NEW x, Encoding(x), NEW d, Decoding(d, x), d.at = "value", NEW n, n = Tail(x.nlri)
    PROVE  Decoding(DecodeValue(d, n), x)
  <1> DEFINE r == DecodeValue(d, n)
  <1>1. d # Idle
    BY DEF Idle
  <1>2. x # NotEncoded /\ Shape(d) /\ (x.rule # Refused /\ Few(x.rule) => ReadsRule(d, x))
    BY <1>1 DEF Decoding
  <1>3. n \in Seq(Uint8)
    BY <1>2, EncodedOctets
  <1>4. Shape(r)
    BY <1>2, <1>3, ValueStep
  <1>5. ASSUME Few(x.rule), ReadsRule(d, x) PROVE ReadsRule(r, x)
    <2> DEFINE rule == x.rule
               action == AnnouncedAction(rule, x.community)
    <2>1. PICK l, e : Layout(rule, n, l, e) /\ Reads(d, rule, e, action)
      BY <1>5 DEF ReadsRule
    <2>2. d.length <= e[8] /\ AtValue(d, rule, e)
      BY <2>1 DEF Reads, AtType
    <2>3. PICK j \in 3 .. 8 : \E i \in Nat : ValueAt(d, rule, e, j, i)
      BY <2>2 DEF AtValue
    <2>4. PICK i \in Nat : ValueAt(d, rule, e, j, i)
      BY <2>3
    <2>5. Few(rule)
      BY <1>5
    <2> HIDE DEF rule, action
    <2>6. Reads(r, rule, e, action)
      BY <1>2, <2>1, <2>2, <2>4, <2>5, ValueReads
    <2> QED BY <2>1, <2>6 DEF ReadsRule, rule, action
  <1> QED BY <1>2, <1>4, <1>5 DEF Decoding

\* The end is reached.
LEMMA EndDecodes ==
    ASSUME NEW x, Encoding(x), NEW d, Decoding(d, x), d.at = "type", d.cursor > d.length,
           NEW r, Ended(d, decode_community(x.community), r)
    PROVE  Decoding(r, x)
  <1>1. d # Idle
    BY DEF Idle
  <1>2. x # NotEncoded /\ Shape(d) /\ (x.rule # Refused /\ Few(x.rule) => ReadsRule(d, x))
    BY <1>1 DEF Decoding
  <1>3. Shape(r)
    BY <1>2, EndReads
  <1>4. ASSUME x.rule # Refused, ReadsRule(d, x) PROVE ReadsRule(r, x)
    <2> DEFINE rule == x.rule
               action == AnnouncedAction(rule, x.community)
    <2>1. PICK l, e : Layout(rule, Tail(x.nlri), l, e) /\ Reads(d, rule, e, action)
      BY <1>4 DEF ReadsRule
    <2>2. d.length <= e[8] /\ AtType(d, rule, e)
      BY <2>1 DEF Reads, AtValue, ValueAt
    <2>3. decode_community(x.community) = action
      BY <1>2, <1>4, Zenon DEF Encoding, Announced
    <2>4. Ended(d, action, r)
      BY <2>3
    <2> HIDE DEF rule, action
    <2>5. Reads(r, rule, e, action)
      BY <1>2, <2>1, <2>2, <2>4, DoneReads
    <2> QED BY <2>1, <2>5 DEF ReadsRule, rule, action
  <1> QED BY <1>2, <1>3, <1>4 DEF Decoding

\* Both hold in every state.
LEMMA CodecInvariant == RulesSpec => []CodecInv
  <1>1. RulesInit => CodecInv
    BY DEF RulesInit, CodecInit, CodecInv, Encoding, Decoding
  <1>2. PathsInv /\ CodecInv /\ [RulesNext]_rulesVars => CodecInv'
    <2> SUFFICES ASSUME PathsInv, CodecInv, [RulesNext]_rulesVars PROVE CodecInv'
      OBVIOUS
    <2>1. Encoding(encoded) /\ Decoding(decoder, encoded)
      BY DEF CodecInv
    <2>2. ASSUME UNCHANGED <<encoded, decoder>> PROVE CodecInv'
      <3>1. Encoding(encoded') /\ Decoding(decoder', encoded')
        BY <2>1, <2>2
      <3> QED BY <3>1 DEF CodecInv
    <2>3. ASSUME encoded = NotEncoded, decoder' = decoder, Encoding(encoded') PROVE CodecInv'
      <3>1. decoder = Idle
        BY <2>1, <2>3 DEF Decoding
      <3>2. Decoding(decoder', encoded')
        BY <2>3, <3>1 DEF Decoding
      <3> QED BY <2>3, <3>2 DEF CodecInv
    <2>4. ASSUME encoded' = encoded, Decoding(decoder', encoded) PROVE CodecInv'
      <3>1. Encoding(encoded') /\ Decoding(decoder', encoded')
        BY <2>1, <2>4
      <3> QED BY <3>1 DEF CodecInv
    <2>5. ASSUME NEW path \in paths, Deliver(path) PROVE CodecInv'
      <3>1. /\ encoded = NotEncoded /\ decoder' = decoder
            /\ encoded' = [rule |-> path.rule, nlri |-> path.nlri, community |-> path.community]
        BY <2>5 DEF Deliver
      <3>2. MatchPath(path)
        BY DEF PathsInv
      <3>3. Encoding(encoded')
        BY <3>1, <3>2, PathEncoded
      <3> QED BY <2>3, <3>1, <3>3
    <2>6. ASSUME NEW rule \in Rules, Encode(rule) PROVE CodecInv'
      <3> DEFINE mp == encode_bgp_flow_spec_elements_into_bgp_mp_attribute(rule)
                 community == build_attributes_for_flowspec_announce(rule)
      <3>1. /\ encoded = NotEncoded /\ decoder' = decoder /\ mp # Refused /\ community # Refused
            /\ encoded' = [rule |-> rule, nlri |-> mp, community |-> community]
        BY <2>6 DEF Encode
      <3>2. WellTyped(rule)
        BY CodecAssumption
      <3>3. Encoding(encoded')
        BY <3>1, <3>2, RuleEncoded
      <3> QED BY <2>3, <3>1, <3>3
    <2>7. ASSUME NEW mp \in Foreign, Receive(mp) PROVE CodecInv'
      <3>1. /\ encoded = NotEncoded /\ decoder' = decoder
            /\ encoded' = [rule |-> Refused, nlri |-> mp, community |-> NoBuffer]
        BY <2>7 DEF Receive, Deliver
      <3>2. Encoding(encoded')
        BY <3>1, ForeignEncoded
      <3> QED BY <2>3, <3>1, <3>2
    <2>8. ASSUME encoded # NotEncoded, NEW length \in 0 .. Head(encoded.nlri), StartDecoding(length)
          PROVE  CodecInv'
      <3>1. decoder' = [Idle EXCEPT !.at = "type", !.length = length] /\ encoded' = encoded
        BY <2>8 DEF StartDecoding
      <3>2. Decoding(decoder', encoded)
        BY <2>1, <2>8, <3>1, StartDecodes
      <3> QED BY <2>4, <3>1, <3>2
    <2>9. ASSUME decode_component PROVE CodecInv'
      <3> DEFINE n == Tail(encoded.nlri)
      <3>1. /\ decoder.at = "type" /\ decoder.cursor <= decoder.length
            /\ decoder' = DecodeType(decoder, n) /\ encoded' = encoded
        BY <2>9 DEF decode_component
      <3>2. Decoding(DecodeType(decoder, n), encoded)
        BY <2>1, <3>1, ComponentDecodes
      <3> QED BY <2>4, <3>1, <3>2
    <2>10. ASSUME decode_value PROVE CodecInv'
      <3> DEFINE n == Tail(encoded.nlri)
      <3>1. decoder.at = "value" /\ decoder' = DecodeValue(decoder, n) /\ encoded' = encoded
        BY <2>10 DEF decode_value
      <3>2. Decoding(DecodeValue(decoder, n), encoded)
        BY <2>1, <3>1, ValueDecodes
      <3> QED BY <2>4, <3>1, <3>2
    <2>11. ASSUME decode_end PROVE CodecInv'
      <3>1. /\ decoder.at = "type" /\ decoder.cursor > decoder.length /\ encoded' = encoded
            /\ Ended(decoder, decode_community(encoded.community), decoder')
        BY <2>11 DEF decode_end, Ended
      <3>2. Decoding(decoder', encoded)
        BY <2>1, <3>1, EndDecodes
      <3> QED BY <2>4, <3>1, <3>2
    <2>12. CASE CaptureNext
      <3>1. ASSUME NEW packet \in Packets, UNCHANGED <<classified, codecVars>> PROVE CodecInv'
        BY <2>2, <3>1 DEF codecVars
      <3>2. CASE ClassifyCapture
        BY <2>2, <3>2 DEF ClassifyCapture, codecVars
      <3>3. CASE AnnounceCapture
        BY <2>2, <3>3 DEF AnnounceCapture
      <3> QED BY <2>5, <2>12, <3>1, <3>2, <3>3 DEF CaptureNext
    <2>13. CASE CodecNext
      BY <2>6, <2>7, <2>8, <2>9, <2>10, <2>11, <2>13 DEF CodecNext, Decode
    <2>14. CASE UNCHANGED codecVars
      BY <2>2, <2>14 DEF codecVars
    <2> QED BY <2>12, <2>13, <2>14 DEF RulesNext, rulesVars
  <1> QED BY <1>1, <1>2, PathsInvariant, PTL DEF RulesSpec

(***************************************************************************)
(* What a peer decodes of an announcement is the rule that was announced,  *)
(* for every rule, every place where its length octet is cut and all       *)
(* octets of other speakers, over encode_bgp_flow_spec_elements_as_mp_nlri *)
(* and flow_spec_decode_nlri_value.                                        *)
(***************************************************************************)
THEOREM PeerReadsTheRule == RulesSpec => []AnnouncedRuleReadsBack
  <1>1. CodecInv => AnnouncedRuleReadsBack
    <2> SUFFICES ASSUME CodecInv PROVE AnnouncedRuleReadsBack
      OBVIOUS
    <2>1. Encoding(encoded) /\ Decoding(decoder, encoded)
      BY DEF CodecInv
    <2>2. decoder.touched <= decoder.length
      <3>1. Idle.touched = 0 /\ Idle.length = 0
        BY DEF Idle
      <3>2. decoder = Idle \/ Shape(decoder)
        BY <2>1 DEF Decoding
      <3>3. CASE decoder = Idle
        <4>1. decoder.touched = 0 /\ decoder.length = 0
          BY <3>1, <3>3
        <4> QED BY <4>1
      <3>4. CASE Shape(decoder)
        BY <3>4 DEF Shape
      <3> QED BY <3>2, <3>3, <3>4
    <2>3. ASSUME encoded # NotEncoded, encoded.rule # Refused, decoder.at \in {"done", "refused"},
                 \A f \in NlriFields : Len(encoded.rule[f]) <= MaxValues
          PROVE  LET whole == decoder.length = Len(encoded.nlri) - 1
                     read  == {f \in NlriFields : decoder.rule[f] # << >>}
                 IN  /\ whole => decoder.at = "done"
                     /\ decoder.at = "done" =>
                            /\ \A f \in IF whole THEN NlriFields ELSE read :
                                   decoder.rule[f] = AnnouncedField(encoded.rule, f)
                            /\ decoder.rule.action = AnnouncedAction(encoded.rule, encoded.community)
      <3> DEFINE rule == encoded.rule
                 d == decoder
                 action == AnnouncedAction(rule, encoded.community)
                 n == encode_bgp_flow_spec_elements_as_mp_nlri(rule)
                 whole == d.length = Len(encoded.nlri) - 1
      <3>1. decoder # Idle
        BY <2>3 DEF Idle
      <3>2. Few(rule)
        BY <2>3 DEF Few
      <3>3. Shape(d) /\ ReadsRule(d, encoded)
        BY <2>1, <2>3, <3>1, <3>2 DEF Decoding
      <3>4. PICK l, e : Layout(rule, Tail(encoded.nlri), l, e) /\ Reads(d, rule, e, action)
        BY <3>3 DEF ReadsRule
      <3>5. Announced(encoded)
        BY <2>1, <2>3 DEF Encoding
      <3>6. Tail(encoded.nlri) = n /\ Len(encoded.nlri) - 1 = Len(n)
        BY <3>5, Zenon DEF Announced
      <3>7. Layout(rule, n, l, e)
        BY <3>4, <3>6
      <3>8. Len(n) = e[8]
        BY <3>7, Zenon DEF Layout
      <3>9. whole <=> d.length = e[8]
        BY <3>6, <3>8
      <3>10. d.length \in Nat
        BY <3>3 DEF Shape
      <3>11. d.at = "refused" => d.length < e[8]
        BY <3>4 DEF Reads, AtType, AtValue, ValueAt
      <3>12. d.at = "done" => FieldsRead(d.rule, rule, e, d.length + 1) /\ d.rule.action = action
        BY <3>4 DEF Reads, AtType, AtValue, ValueAt
      <3>13. /\ l \in [1 .. 8 -> Nat] /\ e \in [0 .. 8 -> Nat]
             /\ \A j \in 1 .. 8 : e[j] <= e[8]
        <4>1. l \in [1 .. 8 -> Nat] /\ e \in [0 .. 8 -> Nat] /\ Ends(e, l)
          BY <3>7, Zenon DEF Layout
        <4>2. 8 \in 0 .. 8 /\ \A j \in 1 .. 8 : j \in 0 .. 8
          OBVIOUS
        <4> QED BY <4>1, <4>2, EndsOrdered
      <3>14. \A f \in NlriFields : \E j \in 1 .. 8 : f = PartField[j]
        <4> SUFFICES ASSUME NEW f \in NlriFields PROVE \E j \in 1 .. 8 : f = PartField[j]
          OBVIOUS
        <4>1. \A j \in {1, 2, 3, 4, 5, 6, 7, 8} : j \in 1 .. 8
          OBVIOUS
        <4>2. \E j \in {1, 2, 3, 4, 5, 6, 7, 8} : f = PartField[j]
          BY DEF NlriFields, PartField
        <4> QED BY <4>1, <4>2
      <3>15. ASSUME whole PROVE d.at = "done"
        <4>1. e[8] \in Nat
          BY <3>13
        <4>2. ~(d.length < e[8])
          BY <3>9, <3>10, <3>15, <4>1
        <4> QED BY <2>3, <3>11, <4>2
      <3>16. ASSUME d.at = "done", NEW f \in NlriFields, whole \/ d.rule[f] # << >>
             PROVE  d.rule[f] = AnnouncedField(rule, f)
        <4>1. PICK j \in 1 .. 8 : f = PartField[j]
          BY <3>14
        <4>2. d.rule[f] = IF e[j] < d.length + 1 THEN AnnouncedField(rule, f) ELSE << >>
          BY <3>12, <3>16, <4>1 DEF FieldsRead
        <4>3. whole => e[j] < d.length + 1
          <5>1. e[j] \in Nat /\ e[8] \in Nat /\ e[j] <= e[8]
            BY <3>13
          <5> QED BY <3>9, <3>10, <5>1
        <4> QED BY <3>16, <4>2, <4>3
      <3> HIDE DEF whole, rule, action
      <3>17. /\ whole => d.at = "done"
             /\ d.at = "done" =>
                    /\ \A f \in IF whole THEN NlriFields ELSE {f \in NlriFields : d.rule[f] # << >>} :
                           d.rule[f] = AnnouncedField(rule, f)
                    /\ d.rule.action = action
        BY <3>12, <3>15, <3>16
      <3> QED BY <3>17 DEF whole, rule, action
    <2> QED BY <2>2, <2>3, Zenon DEF AnnouncedRuleReadsBack
  <1> QED BY <1>1, CodecInvariant, PTL
=============================================================================
