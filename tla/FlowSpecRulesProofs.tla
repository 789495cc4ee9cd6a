------------------------ MODULE FlowSpecRulesProofs ------------------------
(***************************************************************************)
(* Theorems about FlowSpecRules: the arithmetic and the decisions of the   *)
(* port classifier for every capture, and the whitelist for every file and *)
(* every packet.                                                           *)
(***************************************************************************)
EXTENDS FlowSpecRules, FiniteSetTheorems, WellFoundedInduction, TLAPS

-----------------------------------------------------------------------------
(* The share arithmetic.                                                   *)

(***************************************************************************)
(* The code's way of comparing, with the two products h * p and r * p of   *)
(* hundreds and remainder as numbers of their own: the provers then only   *)
(* see linear arithmetic.                                                  *)
(***************************************************************************)
LEMMA CeilingCompare ==
    ASSUME NEW n \in Nat, NEW hp \in Nat, NEW rp \in Nat
    PROVE  n >= hp + (rp + 99) \div 100 <=> n * 100 >= 100 * hp + rp
  <1> DEFINE c == (rp + 99) \div 100
  <1>1. c \in Nat /\ 100 * c <= rp + 99 /\ rp + 99 < 100 * c + 100
    BY SMT
  <1>2. n >= hp + c <=> n * 100 >= 100 * hp + rp
    <2> HIDE DEF c
    <2>1. n >= hp + c => n * 100 >= 100 * hp + rp
      BY <1>1
    <2>2. ~(n >= hp + c) => n + 1 <= hp + c
      BY <1>1
    <2> QED BY <1>1, <2>1, <2>2
  <1> QED BY <1>2

\* A weight split into hundreds and a remainder, and its product with a percentage.
LEMMA SplitProduct ==
    ASSUME NEW d \in Nat, NEW p \in Nat
    PROVE  /\ d \div 100 \in Nat
           /\ d % 100 \in 0..99
           /\ d = 100 * (d \div 100) + (d % 100)
           /\ d * p = 100 * ((d \div 100) * p) + (d % 100) * p
  <1> DEFINE h == d \div 100
             r == d % 100
  <1>1. h \in Nat /\ r \in 0..99 /\ d = 100 * h + r
    BY SMT
  <1>2. d * p = 100 * (h * p) + r * p
    <2> HIDE DEF h, r
    <2>1. d * p = (100 * h + r) * p
      BY <1>1
    <2>2. (100 * h + r) * p = 100 * (h * p) + r * p
      BY <1>1, SMT
    <2> QED BY <2>1, <2>2
  <1> QED BY <1>1, <1>2

(***************************************************************************)
(* The comment on meets_dominance_percent says that it "is equivalent to   *)
(* numerator * 100 >= denominator * percent".  It is, for every weight and *)
(* every percentage, as long as the denominator is not zero.               *)
(***************************************************************************)
THEOREM DominanceExact ==
    ASSUME NEW n \in Nat, NEW d \in Nat \ {0}, NEW p \in Nat
    PROVE  meets_dominance_percent(n, d, p) <=> n * 100 >= d * p
  <1> DEFINE hp == (d \div 100) * p
             rp == (d % 100) * p
  <1>1. hp \in Nat /\ rp \in Nat
    <2>1. d \div 100 \in Nat /\ d % 100 \in Nat
      BY SplitProduct
    <2> QED BY <2>1, SMT
  <1>2. d * p = 100 * hp + rp
    BY SplitProduct
  <1>3. n >= hp + (rp + 99) \div 100 <=> n * 100 >= 100 * hp + rp
    <2> HIDE DEF hp, rp
    <2> QED BY <1>1, CeilingCompare
  <1>4. n >= hp + (rp + 99) \div 100 <=> n * 100 >= d * p
    BY <1>2, <1>3
  <1> QED BY <1>4 DEF meets_dominance_percent, threshold

(***************************************************************************)
(* "But avoids overflowing a 64-bit weighted counter": for a percentage    *)
(* (the options are at most 100) both products and the threshold they add  *)
(* up to are at most the denominator, or below 10000 for the remainder's   *)
(* product, so none of them wraps.                                         *)
(***************************************************************************)
THEOREM ThresholdFits ==
    ASSUME NEW d \in Weights, NEW p \in 0..100
    PROVE  /\ (d \div 100) * p <= MaxWeight
           /\ (d % 100) * p + 99 < 10000
           /\ threshold(d, p) <= d
  <1> DEFINE h == d \div 100
             r == d % 100
  <1>0. d \in Nat /\ d <= MaxWeight /\ MaxWeight \in Nat
    BY DominanceAssumption DEF Weights
  <1>1. h \in Nat /\ r \in 0..99 /\ d = 100 * h + r
    BY <1>0, SplitProduct
  <1>2. h * p \in Nat /\ r * p \in Nat /\ h * p <= h * 100 /\ r * p <= r * 100
    <2> HIDE DEF h, r
    <2>1. \A x \in Nat : x * p \in Nat /\ x * p <= x * 100
      BY SMT
    <2> QED BY <1>1, <2>1
  <1>3. (r * p + 99) \div 100 <= r /\ (r * p + 99) \div 100 \in Nat
    <2> DEFINE rp == r * p
    <2>1. rp \in Nat /\ rp <= 100 * r /\ r \in Nat
      <3> HIDE DEF h, r
      <3> QED BY <1>1, <1>2
    <2>2. (rp + 99) \div 100 <= r /\ (rp + 99) \div 100 \in Nat
      <3> HIDE DEF rp, r
      <3> QED BY <2>1, SMT
    <2> QED BY <2>2
  <1>4. h * p <= d /\ r * p + 99 < 10000 /\ h * p + (r * p + 99) \div 100 <= d
    <2> DEFINE hp == h * p
               rp == r * p
               c == (rp + 99) \div 100
    <2>1. hp \in Nat /\ rp \in Nat /\ hp <= h * 100 /\ rp <= r * 100 /\ c \in Nat /\ c <= r
      BY <1>2, <1>3
    <2> HIDE DEF hp, rp, c, h, r
    <2>2. hp <= d /\ rp + 99 < 10000 /\ hp + c <= d
      BY <1>0, <1>1, <2>1
    <2> QED BY <2>2 DEF hp, rp, c
  <1>5. threshold(d, p) <= d
    BY <1>4 DEF threshold
  <1> QED BY <1>0, <1>1, <1>4, <1>5

-----------------------------------------------------------------------------
(* Induction and folds.                                                    *)

\* A set of numbers has a least element.
LEMMA LeastNumber ==
    ASSUME NEW T \in SUBSET Nat, T # {}
    PROVE  \E m \in T : \A n \in T : m <= n
  <1>1. IsWellFoundedOn({ss \in Nat \X Nat : ss[1] < ss[2]}, Nat)
    BY NatLessThanWellFounded DEF OpToRel
  <1>2. PICK m \in T : \A n \in T : <<n, m>> \notin {ss \in Nat \X Nat : ss[1] < ss[2]}
    BY <1>1, WFMin
  <1>3. ASSUME NEW n \in T, n < m
        PROVE  FALSE
    <2>1. <<n, m>> \in Nat \X Nat /\ <<n, m>>[1] < <<n, m>>[2]
      BY <1>3
    <2> QED BY <1>2, <2>1
  <1>4. \A n \in T : m <= n
    BY <1>3
  <1> QED BY <1>4

\* Induction over the numbers, for a set of numbers.
LEMMA NumberInduction ==
    ASSUME NEW T, 0 \in T, \A n \in Nat : n \in T => n + 1 \in T
    PROVE  Nat \subseteq T
  <1> SUFFICES ASSUME Nat \ T # {} PROVE FALSE
    OBVIOUS
  <1>1. PICK m \in Nat \ T : \A n \in Nat \ T : m <= n
    BY LeastNumber
  <1>2. m # 0 /\ m - 1 \in Nat /\ m - 1 \notin Nat \ T
    BY <1>1
  <1> QED BY <1>1, <1>2

\* Induction over the subsets of a finite set.
ClosedUnder(S, T) == \A s \in SUBSET S : (\A x \in s : s \ {x} \in T) => s \in T

(***************************************************************************)
(* Induction over the elements of a finite set: a family of sets that has  *)
(* the empty one and grows by elements has the whole set.                  *)
(***************************************************************************)
LEMMA SubsetInduction ==
    ASSUME NEW S, IsFiniteSet(S), NEW T, ClosedUnder(S, T)
    PROVE  SUBSET S \subseteq T
  <1> DEFINE Rest == {s \in SUBSET S : s \notin T}
             Sizes == {Cardinality(s) : s \in Rest}
  <1> SUFFICES ASSUME Rest # {} PROVE FALSE
    OBVIOUS
  <1>1. \A s \in SUBSET S : IsFiniteSet(s) /\ Cardinality(s) \in Nat
    BY FS_Subset, FS_CardinalityType
  <1>2. Sizes \in SUBSET Nat /\ Sizes # {}
    BY <1>1
  <1>3. PICK m \in Sizes : \A n \in Sizes : m <= n
    BY <1>2, LeastNumber
  <1>4. PICK s \in Rest : m = Cardinality(s)
    BY <1>3
  <1>5. ASSUME NEW x \in s PROVE s \ {x} \in T
    <2>1. Cardinality(s \ {x}) = Cardinality(s) - 1 /\ s \ {x} \in SUBSET S
      BY <1>1, <1>4, FS_RemoveElement
    <2>2. s \ {x} \notin Rest
      <3> SUFFICES ASSUME s \ {x} \in Rest PROVE FALSE
        OBVIOUS
      <3>1. Cardinality(s \ {x}) \in Sizes
        OBVIOUS
      <3>2. m <= Cardinality(s \ {x}) /\ m \in Nat
        BY <1>2, <1>3, <3>1
      <3> QED BY <1>4, <2>1, <3>2
    <2> QED BY <2>1, <2>2
  <1> QED BY <1>4, <1>5 DEF ClosedUnder

\* A fold over the subsets of S: F picks the element, G is the step.
Picks(F, S) == \A s \in SUBSET S : s # {} => F[s] \in s
StepsIn(G, S, C) == \A x \in S : \A c \in C : G[x][c] \in C
IsFold(g, S, base, F, G) == \A s \in SUBSET S : g[s] = IF s = {} THEN base ELSE G[F[s]][g[s \ {F[s]}]]

\* The function that a fold is defined by exists.
LEMMA FoldExists ==
    ASSUME NEW S, IsFiniteSet(S), NEW C, NEW base \in C, NEW F, Picks(F, S), NEW G, StepsIn(G, S, C)
    PROVE  \E g \in [SUBSET S -> C] : IsFold(g, S, base, F, G)
  <1> USE DEF Picks, StepsIn, IsFold
  <1> DEFINE step(g, s) == IF s = {} THEN base ELSE G[F[s]][g[s \ {F[s]}]]
             T == {n \in Nat : \E g \in [SUBSET S -> C] :
                       \A s \in SUBSET S : Cardinality(s) <= n => g[s] = step(g, s)}
  <1>1. \A s \in SUBSET S : IsFiniteSet(s) /\ Cardinality(s) \in Nat
    BY FS_Subset, FS_CardinalityType
  <1>2. \A s \in SUBSET S : s # {} => /\ s \ {F[s]} \in SUBSET S
                                      /\ Cardinality(s \ {F[s]}) = Cardinality(s) - 1
    BY <1>1, FS_RemoveElement
  <1>3. ASSUME NEW g \in [SUBSET S -> C], NEW s \in SUBSET S
        PROVE  step(g, s) \in C
    <2>1. CASE s = {}
      BY <2>1
    <2>2. CASE s # {}
      <3>1. F[s] \in S /\ g[s \ {F[s]}] \in C
        BY <1>2, <2>2
      <3> QED BY <2>2, <3>1
    <2> QED BY <2>1, <2>2
  <1>4. 0 \in T
    <2> DEFINE g == [s \in SUBSET S |-> base]
    <2>1. g \in [SUBSET S -> C]
      OBVIOUS
    <2>2. ASSUME NEW s \in SUBSET S, Cardinality(s) <= 0 PROVE g[s] = step(g, s)
      <3>1. s = {}
        BY <1>1, <2>2, FS_EmptySet
      <3> QED BY <3>1
    <2> HIDE DEF g
    <2> QED BY <2>1, <2>2
  <1>5. ASSUME NEW n \in Nat, n \in T PROVE n + 1 \in T
    <2>1. PICK g \in [SUBSET S -> C] : \A s \in SUBSET S : Cardinality(s) <= n => g[s] = step(g, s)
      BY <1>5
    <2> DEFINE h == [s \in SUBSET S |-> IF Cardinality(s) <= n THEN g[s] ELSE step(g, s)]
    <2> HIDE DEF step
    <2>2. h \in [SUBSET S -> C]
      BY <1>3
    <2>3. \A s \in SUBSET S : Cardinality(s) <= n + 1 => h[s] = step(g, s)
      BY <2>1
    <2>4. ASSUME NEW s \in SUBSET S, Cardinality(s) <= n + 1 PROVE step(g, s) = step(h, s)
      <3>1. CASE s = {}
        BY <3>1 DEF step
      <3>2. CASE s # {}
        <4>1. s \ {F[s]} \in SUBSET S /\ Cardinality(s \ {F[s]}) <= n
          BY <1>1, <1>2, <2>4, <3>2
        <4>2. h[s \ {F[s]}] = g[s \ {F[s]}]
          BY <4>1
        <4> HIDE DEF h
        <4> QED BY <4>2 DEF step
      <3> QED BY <3>1, <3>2
    <2> HIDE DEF h
    <2>5. \A s \in SUBSET S : Cardinality(s) <= n + 1 => h[s] = step(h, s)
      BY <2>3, <2>4
    <2> QED BY <2>2, <2>5
  <1> HIDE DEF T
  <1>6. Cardinality(S) \in T
    BY <1>1, <1>4, <1>5, NumberInduction
  <1>7. \A s \in SUBSET S : Cardinality(s) <= Cardinality(S)
    BY FS_Subset
  <1> QED BY <1>6, <1>7 DEF T

\* The largest element of a finite set of numbers.
LEMMA MaxMember ==
    ASSUME NEW S \in SUBSET Int, IsFiniteSet(S), S # {}
    PROVE  Max(S) \in S /\ \A y \in S : Max(S) >= y
  <1> DEFINE T == {s \in SUBSET S : s # {} => \E x \in s : \A y \in s : x >= y}
  <1>1. ASSUME NEW s \in SUBSET S, \A x \in s : s \ {x} \in T
        PROVE  s \in T
    <2> SUFFICES ASSUME s # {} PROVE \E x \in s : \A y \in s : x >= y
      OBVIOUS
    <2>1. PICK x \in s : TRUE
      OBVIOUS
    <2>2. CASE s \ {x} = {}
      BY <2>1, <2>2
    <2>3. CASE s \ {x} # {}
      <3>1. PICK z \in s \ {x} : \A y \in s \ {x} : z >= y
        BY <1>1, <2>1, <2>3
      <3> QED BY <2>1, <3>1
    <2> QED BY <2>2, <2>3
  <1>0. ClosedUnder(S, T)
    BY <1>1 DEF ClosedUnder
  <1> HIDE DEF T
  <1>2. S \in T
    BY <1>0, SubsetInduction
  <1>3. \E x \in S : \A y \in S : x >= y
    BY <1>2 DEF T
  <1> QED BY <1>3 DEF Max

-----------------------------------------------------------------------------
(* Sums of weights.                                                        *)

\* g is the sum of w over the subsets of D.
IsSum(g, D, w) ==
    /\ g \in [SUBSET D -> Nat] /\ g[{}] = 0
    /\ \A I \in SUBSET D : \A x \in I : g[I] = w[x] + g[I \ {x}]

\* The order in which MapThenSumSet takes the elements does not matter.
LEMMA SumsExist ==
    ASSUME NEW D, IsFiniteSet(D), NEW w \in [D -> Nat]
    PROVE  \E g : IsSum(g, D, w)
  <1> DEFINE F == [s \in SUBSET D |-> CHOOSE x \in s : TRUE]
             G == [x \in D |-> [c \in Nat |-> w[x] + c]]
  <1>1. \A s \in SUBSET D : s # {} => F[s] \in s /\ F[s] = CHOOSE x \in s : TRUE
    OBVIOUS
  <1>2. \A x \in D : \A c \in Nat : G[x][c] \in Nat /\ G[x][c] = w[x] + c
    OBVIOUS
  <1> HIDE DEF F, G
  <1>3. PICK g \in [SUBSET D -> Nat] : IsFold(g, D, 0, F, G)
    <2>1. Picks(F, D) /\ StepsIn(G, D, Nat)
      BY <1>1, <1>2 DEF Picks, StepsIn
    <2> QED BY <2>1, FoldExists
  <1>4. g[{}] = 0
    BY <1>3 DEF IsFold
  <1>5. \A s \in SUBSET D : s # {} => F[s] \in s /\ g[s] = w[F[s]] + g[s \ {F[s]}]
    BY <1>1, <1>2, <1>3 DEF IsFold
  <1>6. \A I \in SUBSET D : \A x \in I : g[I] = w[x] + g[I \ {x}]
    <2> DEFINE T == {I \in SUBSET D : \A x \in I : g[I] = w[x] + g[I \ {x}]}
    <2>1. ASSUME NEW I \in SUBSET D, \A y \in I : I \ {y} \in T, NEW x \in I
          PROVE  g[I] = w[x] + g[I \ {x}]
      <3> DEFINE c == F[I]
      <3>1. c \in I /\ g[I] = w[c] + g[I \ {c}]
        BY <1>5
      <3>2. CASE x = c
        BY <3>1, <3>2
      <3>3. CASE x # c
        <4>1. g[I \ {c}] = w[x] + g[(I \ {c}) \ {x}]
          BY <2>1, <3>1, <3>3
        <4>2. g[I \ {x}] = w[c] + g[(I \ {x}) \ {c}]
          BY <2>1, <3>1, <3>3
        <4>3. (I \ {c}) \ {x} = (I \ {x}) \ {c} /\ (I \ {c}) \ {x} \in SUBSET D
          OBVIOUS
        <4>4. w[x] \in Nat /\ w[c] \in Nat /\ g[(I \ {c}) \ {x}] \in Nat
          BY <3>1, <4>3
        <4> DEFINE r == g[(I \ {c}) \ {x}]
        <4>5. g[I] = w[c] + (w[x] + r) /\ g[I \ {x}] = w[c] + r
          BY <3>1, <4>1, <4>2, <4>3
        <4>6. w[c] + (w[x] + r) = w[x] + (w[c] + r)
          <5> HIDE DEF c, r
          <5>1. w[x] \in Nat /\ w[c] \in Nat /\ r \in Nat
            BY <4>4 DEF r
          <5> QED BY <5>1
        <4> QED BY <4>5, <4>6
      <3> QED BY <3>2, <3>3
    <2>2. ClosedUnder(D, T)
      BY <2>1 DEF ClosedUnder
    <2> HIDE DEF T
    <2>3. SUBSET D \subseteq T
      BY <2>2, SubsetInduction
    <2> QED BY <2>3 DEF T
  <1> QED BY <1>4, <1>6 DEF IsSum

\* The sum of two disjoint sets; a subset weighs no more.
LEMMA SumUnion ==
    ASSUME NEW D, IsFiniteSet(D), NEW w \in [D -> Nat], NEW g, IsSum(g, D, w),
           NEW I \in SUBSET D, NEW J \in SUBSET D, I \cap J = {}
    PROVE  g[I \cup J] = g[I] + g[J]
  <1> DEFINE T == {s \in SUBSET D : s \cap J = {} => g[s \cup J] = g[s] + g[J]}
  <1>1. ASSUME NEW s \in SUBSET D, \A x \in s : s \ {x} \in T, s \cap J = {}
        PROVE  g[s \cup J] = g[s] + g[J]
    <2>1. CASE s = {}
      <3>1. g[s] = 0 /\ s \cup J = J /\ g[J] \in Nat
        BY <2>1 DEF IsSum
      <3>2. g[s \cup J] = g[J]
        BY <3>1
      <3>3. g[s] + g[J] = g[J]
        BY <3>1
      <3> QED BY <3>2, <3>3
    <2>2. CASE s # {}
      <3>1. PICK x \in s : TRUE
        BY <2>2
      <3>2. g[s] = w[x] + g[s \ {x}]
        BY DEF IsSum
      <3>3. s \cup J \in SUBSET D /\ x \in s \cup J /\ (s \cup J) \ {x} = (s \ {x}) \cup J
        BY <1>1
      <3>4. g[s \cup J] = w[x] + g[(s \ {x}) \cup J]
        BY <3>3 DEF IsSum
      <3>5. g[(s \ {x}) \cup J] = g[s \ {x}] + g[J]
        BY <1>1
      <3>6. w[x] \in Nat /\ g[s \ {x}] \in Nat /\ g[J] \in Nat
        BY DEF IsSum
      <3> QED BY <3>2, <3>4, <3>5, <3>6
    <2> QED BY <2>1, <2>2
  <1>2. ClosedUnder(D, T)
    BY <1>1 DEF ClosedUnder
  <1> HIDE DEF T
  <1>3. I \in T
    BY <1>2, SubsetInduction
  <1> QED BY <1>3 DEF T

\* A larger index set, or larger numbers, add up to no less.
LEMMA SumMonotone ==
    ASSUME NEW D, IsFiniteSet(D), NEW w \in [D -> Nat], NEW g, IsSum(g, D, w),
           NEW J \in SUBSET D, NEW I \in SUBSET J
    PROVE  g[I] <= g[J] /\ g[I] \in Nat /\ g[J] \in Nat
  <1> DEFINE K == J \ I
  <1>1. I \in SUBSET D /\ K \in SUBSET D /\ I \cap K = {} /\ I \cup K = J
    OBVIOUS
  <1>2. g[I] \in Nat /\ g[J] \in Nat /\ g[K] \in Nat
    BY <1>1 DEF IsSum
  <1> HIDE DEF K
  <1>3. g[J] = g[I] + g[K]
    BY <1>1, SumUnion
  <1> QED BY <1>2, <1>3

-----------------------------------------------------------------------------
(* The reference of the port classifier.                                   *)

SampleWeights == [i \in DOMAIN samples |-> samples[i].number_of_packets * samples[i].sample_ratio]

\* What a captured packet contributes is a number.
LEMMA SampleTypes ==
    ASSUME samples \in Seq(Packets)
    PROVE  /\ IsFiniteSet(DOMAIN samples)
           /\ DOMAIN samples = 1 .. Len(samples) /\ Len(samples) \in Nat
           /\ \A i \in DOMAIN samples : samples[i] \in PacketType
           /\ SampleWeights \in [DOMAIN samples -> Nat]
  <1>1. Len(samples) \in Nat /\ DOMAIN samples = 1 .. Len(samples)
    OBVIOUS
  <1>2. \A i \in DOMAIN samples : samples[i] \in PacketType
    BY PortClassifierAssumption
  <1>3. IsFiniteSet(1 .. Len(samples))
    BY <1>1, FS_Interval
  <1>4. ASSUME NEW i \in DOMAIN samples
        PROVE  samples[i].number_of_packets * samples[i].sample_ratio \in Nat
    <2>1. samples[i].number_of_packets \in Nat /\ samples[i].sample_ratio \in Nat
      BY <1>2, DominanceAssumption DEF PacketType, Weights
    <2> QED BY <2>1
  <1> QED BY <1>1, <1>2, <1>3, <1>4 DEF SampleWeights

\* TrueWeight is such a sum.
LEMMA TrueWeightIsSum ==
    ASSUME samples \in Seq(Packets), NEW g, IsSum(g, DOMAIN samples, SampleWeights),
           NEW I \in SUBSET DOMAIN samples
    PROVE  TrueWeight(I) = g[I]
  <1> DEFINE w == SampleWeights
             Some(s) == CHOOSE x \in s : TRUE
             body(h) == [s \in SUBSET I |->
                  IF s = {} THEN 0
                  ELSE samples[Some(s)].number_of_packets * samples[Some(s)].sample_ratio + h[s \ {Some(s)}]]
             iter == CHOOSE h : h = body(h)
             k == [s \in SUBSET I |-> g[s]]
  <1>1. TrueWeight(I) = iter[I]
    BY DEF TrueWeight, MapThenSumSet, MapThenFoldSet
  <1>2. \A s \in SUBSET I : s # {} => /\ Some(s) \in s
                                      /\ w[Some(s)] = samples[Some(s)].number_of_packets * samples[Some(s)].sample_ratio
    BY DEF SampleWeights
  <1> HIDE DEF Some
  <1>3. \A s \in SUBSET I : s # {} => g[s] = w[Some(s)] + g[s \ {Some(s)}]
    BY <1>2 DEF IsSum
  <1>4. k = body(k)
    <2>1. ASSUME NEW s \in SUBSET I
          PROVE  g[s] = IF s = {} THEN 0
                  ELSE samples[Some(s)].number_of_packets * samples[Some(s)].sample_ratio + k[s \ {Some(s)}]
      <3>1. CASE s = {}
        BY <3>1 DEF IsSum
      <3>2. CASE s # {}
        <4>1. k[s \ {Some(s)}] = g[s \ {Some(s)}]
          OBVIOUS
        <4> HIDE DEF k, w
        <4> QED BY <1>2, <1>3, <3>2, <4>1
      <3> QED BY <3>1, <3>2
    <2> QED BY <2>1
  <1>5. iter = body(iter)
    <2>1. \E h : h = body(h)
      BY <1>4
    <2> QED BY <2>1
  <1> HIDE DEF iter, k
  <1>6. \A s \in SUBSET I : iter[s] = IF s = {} THEN 0
                ELSE samples[Some(s)].number_of_packets * samples[Some(s)].sample_ratio + iter[s \ {Some(s)}]
    BY <1>5
  <1> HIDE DEF w
  <1> DEFINE T == {s \in SUBSET I : iter[s] = g[s]}
  <1>7. ASSUME NEW s \in SUBSET I, \A x \in s : s \ {x} \in T
        PROVE  iter[s] = g[s]
    <2>1. CASE s = {}
      BY <1>6, <2>1 DEF IsSum
    <2>2. CASE s # {}
      <3>1. Some(s) \in s /\ iter[s] = w[Some(s)] + iter[s \ {Some(s)}]
        BY <1>2, <1>6, <2>2
      <3>2. iter[s \ {Some(s)}] = g[s \ {Some(s)}]
        BY <1>7, <3>1
      <3> QED BY <1>3, <2>2, <3>1, <3>2
    <2> QED BY <2>1, <2>2
  <1>8. IsFiniteSet(I)
    BY SampleTypes, FS_Subset
  <1>9. ClosedUnder(I, T)
    BY <1>7 DEF ClosedUnder
  <1> HIDE DEF T
  <1>10. SUBSET I \subseteq T
    BY <1>8, <1>9, SubsetInduction
  <1>11. iter[I] = g[I]
    BY <1>10 DEF T
  <1> QED BY <1>1, <1>11

-----------------------------------------------------------------------------
(* Saturating arithmetic.                                                  *)

\* A saturating sum is the capped sum, whatever was capped before.
LEMMA SaturatingAdd ==
    ASSUME NEW a \in Nat, NEW b \in Nat
    PROVE  /\ Capped(a) \in Weights
           /\ saturating_add(Capped(a), b) = Capped(a + b)
           /\ saturating_add(Capped(a), Capped(b)) = Capped(a + b)
           /\ saturating_add(0, b) = Capped(b)
  BY DominanceAssumption DEF saturating_add, Capped, Weights

\* The product is tested by a division, which is exact.
LEMMA SaturatingMultiply ==
    ASSUME NEW a \in Weights, NEW b \in Weights
    PROVE  saturating_multiply(a, b) = Capped(a * b) /\ a * b \in Nat
  <1>0. a \in Nat /\ b \in Nat /\ MaxWeight \in Nat
    BY DominanceAssumption DEF Weights
  <1>1. CASE a = 0
    <2>1. a * b = 0
      BY <1>0, <1>1
    <2> QED BY <1>0, <1>1, <2>1 DEF saturating_multiply, Capped
  <1>2. CASE a # 0
    <2> DEFINE q == MaxWeight \div a
    <2>1. q \in Nat /\ a * q <= MaxWeight /\ MaxWeight < a * q + a
      BY <1>0, <1>2, SMT
    <2> HIDE DEF q
    <2>2. a * b \in Nat /\ a * q \in Nat
      BY <1>0, <2>1, SMT
    <2>3. b > q => a * b >= a * q + a
      <3> SUFFICES ASSUME b > q PROVE a * b >= a * q + a
        OBVIOUS
      <3>1. PICK d \in Nat : b = q + 1 + d
        <4>1. b - q - 1 \in Nat /\ b = q + 1 + (b - q - 1)
          BY <1>0, <2>1
        <4> QED BY <4>1
      <3>2. a * b = a * q + a + a * d /\ a * d \in Nat
        BY <1>0, <2>1, <3>1, SMT
      <3> DEFINE x == a * b
                 y == a * q
                 z == a * d
      <3>3. x \in Nat /\ y \in Nat /\ z \in Nat /\ x = y + a + z
        BY <2>2, <3>2
      <3> HIDE DEF x, y, z
      <3>4. x >= y + a
        BY <1>0, <3>3
      <3> QED BY <3>4 DEF x, y
    <2>4. b <= q => a * b <= a * q
      <3> SUFFICES ASSUME b <= q PROVE a * b <= a * q
        OBVIOUS
      <3>1. PICK d \in Nat : q = b + d
        <4>1. q - b \in Nat /\ q = b + (q - b)
          BY <1>0, <2>1
        <4> QED BY <4>1
      <3>2. a * q = a * b + a * d /\ a * d \in Nat
        BY <1>0, <2>1, <3>1, SMT
      <3> DEFINE x == a * b
                 y == a * q
                 z == a * d
      <3>3. x \in Nat /\ y \in Nat /\ z \in Nat /\ y = x + z
        BY <2>2, <3>2
      <3> HIDE DEF x, y, z
      <3>4. x <= y
        BY <3>3
      <3> QED BY <3>4 DEF x, y
    <2>5. saturating_multiply(a, b) = IF b > q THEN MaxWeight ELSE a * b
      BY <1>2 DEF saturating_multiply, q
    <2> DEFINE x == a * b
               y == a * q
    <2>6. /\ x \in Nat /\ y \in Nat /\ y <= MaxWeight /\ MaxWeight < y + a
          /\ b > q => x >= y + a
          /\ b <= q => x <= y
      BY <2>1, <2>2, <2>3, <2>4
    <2>7. saturating_multiply(a, b) = IF b > q THEN MaxWeight ELSE x
      BY <2>5
    <2> HIDE DEF x, y
    <2>8. saturating_multiply(a, b) = Capped(x)
      BY <1>0, <2>1, <2>6, <2>7 DEF Capped
    <2> QED BY <2>2, <2>8 DEF x
  <1> QED BY <1>1, <1>2

-----------------------------------------------------------------------------
(* The totals of the samples of a protocol.                                *)

PortMaps == UNION {[P -> Weights] : P \in SUBSET Nat}
TotalsType == [qualifying_sample_count : Weights, total_weight : Weights, port_weights : PortMaps]

\* The parts of the totals after one more sample.
LEMMA AddSampleParts ==
    ASSUME NEW totals \in TotalsType, NEW packet \in PacketType, NEW protocol
    PROVE  LET next == AddSample(totals, packet, protocol)
               weight == Capped(packet.number_of_packets * packet.sample_ratio)
               port == packet.destination_port
           IN  /\ next \in TotalsType
               /\ ~Qualifies(packet, protocol) => next = totals
               /\ Qualifies(packet, protocol) =>
                      /\ next.qualifying_sample_count = saturating_add(totals.qualifying_sample_count, 1)
                      /\ next.total_weight = saturating_add(totals.total_weight, weight)
                      /\ DOMAIN next.port_weights = DOMAIN totals.port_weights \cup {port}
                      /\ next.port_weights[port] =
                             saturating_add(IF port \in DOMAIN totals.port_weights
                                            THEN totals.port_weights[port] ELSE 0, weight)
                      /\ \A p \in DOMAIN totals.port_weights \ {port} :
                             next.port_weights[p] = totals.port_weights[p]
  <1> DEFINE next == AddSample(totals, packet, protocol)
             weight == Capped(packet.number_of_packets * packet.sample_ratio)
             port == packet.destination_port
             old == totals.port_weights
             new == [p \in DOMAIN old \cup {port} |->
                        IF p = port THEN saturating_add(PortWeight(totals, port), weight) ELSE old[p]]
  <1>1. /\ packet.number_of_packets \in Weights /\ packet.sample_ratio \in Weights
        /\ port \in Nat
    <2>1. port \in PortNumbers /\ packet.number_of_packets \in Weights /\ packet.sample_ratio \in Weights
      BY DEF PacketType
    <2>2. PortNumbers \subseteq Nat
      BY DEF PortNumbers
    <2> QED BY <2>1, <2>2
  <1>2. /\ saturating_multiply(packet.number_of_packets, packet.sample_ratio) = weight
        /\ weight \in Weights
    BY <1>1, SaturatingMultiply, SaturatingAdd
  <1>3. /\ totals.qualifying_sample_count \in Weights /\ totals.total_weight \in Weights
        /\ old \in PortMaps
    BY DEF TotalsType
  <1>4. DOMAIN old \subseteq Nat /\ old = [p \in DOMAIN old |-> old[p]] /\ \A p \in DOMAIN old : old[p] \in Weights
    BY <1>3 DEF PortMaps
  <1>5. \A a \in Weights : \A b \in Nat : saturating_add(a, b) \in Weights
    BY DominanceAssumption DEF saturating_add, Weights
  <1>6. PortWeight(totals, port) \in Weights
    BY <1>4, DominanceAssumption DEF PortWeight, Weights
  <1>7. saturating_add(PortWeight(totals, port), weight) \in Weights
    <2>1. weight \in Nat
      BY <1>2, DominanceAssumption DEF Weights
    <2> HIDE DEF weight
    <2> QED BY <1>5, <1>6, <2>1
  <1>8. CASE ~Qualifies(packet, protocol)
    <2>1. next = totals
      BY <1>8 DEF AddSample
    <2> QED BY <1>8, <2>1
  <1>9. CASE Qualifies(packet, protocol)
    <2>1. next = [qualifying_sample_count |-> saturating_add(totals.qualifying_sample_count, 1),
                  total_weight |-> saturating_add(totals.total_weight, weight),
                  port_weights |-> new]
      BY <1>2, <1>9 DEF AddSample
    <2>2. /\ next.qualifying_sample_count = saturating_add(totals.qualifying_sample_count, 1)
          /\ next.total_weight = saturating_add(totals.total_weight, weight)
          /\ next.port_weights = new
      <3> HIDE DEF next, new, weight
      <3> QED BY <2>1
    <2>3. new \in [DOMAIN old \cup {port} -> Weights] /\ DOMAIN old \cup {port} \in SUBSET Nat
      <3> HIDE DEF weight, port, old
      <3> QED BY <1>1, <1>4, <1>7
    <2>4. new \in PortMaps
      <3> HIDE DEF new
      <3> QED BY <2>3 DEF PortMaps
    <2>5. next \in TotalsType
      <3>1. weight \in Nat /\ 1 \in Nat
        BY <1>2, DominanceAssumption DEF Weights
      <3>2. /\ saturating_add(totals.qualifying_sample_count, 1) \in Weights
            /\ saturating_add(totals.total_weight, weight) \in Weights
        <4> HIDE DEF weight
        <4> QED BY <1>3, <1>5, <3>1
      <3> HIDE DEF next, new, weight
      <3> QED BY <2>1, <2>4, <3>2 DEF TotalsType
    <2>6. /\ DOMAIN new = DOMAIN old \cup {port}
          /\ new[port] = saturating_add(PortWeight(totals, port), weight)
          /\ \A p \in DOMAIN old \ {port} : new[p] = old[p]
      <3> HIDE DEF weight, port, old
      <3> QED OBVIOUS
    <2>7. new[port] = saturating_add(IF port \in DOMAIN old THEN old[port] ELSE 0, weight)
      BY <2>6 DEF PortWeight
    <2> HIDE DEF next, new, weight, port, old
    <2>8. /\ DOMAIN next.port_weights = DOMAIN old \cup {port}
          /\ next.port_weights[port] = saturating_add(IF port \in DOMAIN old THEN old[port] ELSE 0, weight)
          /\ \A p \in DOMAIN old \ {port} : next.port_weights[p] = old[p]
      BY <2>2, <2>6, <2>7
    <2> QED BY <1>9, <2>2, <2>5, <2>8 DEF next, old, port, weight
  <1> QED BY <1>8, <1>9

\* The totals of the first n samples.
IsTotals(t, protocol) ==
    /\ t \in [0 .. Len(samples) -> TotalsType]
    /\ t[0] = NoSamples
    /\ \A n \in 1 .. Len(samples) : t[n] = AddSample(t[n - 1], samples[n], protocol)

(***************************************************************************)
(* Totals is the last of a sequence of totals, each of them the one before *)
(* with one more sample.                                                   *)
(***************************************************************************)
LEMMA TotalsFold ==
    ASSUME samples \in Seq(Packets), NEW protocol
    PROVE  \E t : IsTotals(t, protocol) /\ Totals(samples, protocol) = t[Len(samples)]
  <1> DEFINE D == DOMAIN samples
             C == TotalsType
             F == [s \in SUBSET D |-> Max(s)]
             G == [x \in D |-> [c \in C |-> AddSample(c, samples[x], protocol)]]
             body(h) == [s \in SUBSET D |->
                  IF s = {} THEN NoSamples ELSE AddSample(h[s \ {Max(s)}], samples[Max(s)], protocol)]
             iter == CHOOSE h : h = body(h)
  <1>0. Totals(samples, protocol) = iter[D]
    BY DEF Totals, FoldLeft, MapThenFoldSet
  <1>1. /\ D = 1 .. Len(samples) /\ Len(samples) \in Nat /\ IsFiniteSet(D)
        /\ \A i \in D : samples[i] \in PacketType
    BY SampleTypes
  <1>2. \A s \in SUBSET D : s # {} => Max(s) \in s
    <2> SUFFICES ASSUME NEW s \in SUBSET D, s # {} PROVE Max(s) \in s
      OBVIOUS
    <2>1. IsFiniteSet(s) /\ s \in SUBSET Int
      BY <1>1, FS_Subset
    <2> QED BY <2>1, MaxMember
  <1>3. NoSamples \in C
    <2>1. 0 \in Weights
      BY DominanceAssumption DEF Weights
    <2>2. << >> \in [{} -> Weights]
      OBVIOUS
    <2>3. << >> \in PortMaps
      BY <2>2 DEF PortMaps
    <2> QED BY <2>1, <2>3 DEF NoSamples, TotalsType
  <1>4. \A x \in D : \A c \in C : AddSample(c, samples[x], protocol) \in C
    BY <1>1, AddSampleParts
  <1>5. \A x \in D : \A c \in C : G[x][c] = AddSample(c, samples[x], protocol)
    <2> HIDE DEF C, D
    <2> QED OBVIOUS
  <1>6. Picks(F, D) /\ StepsIn(G, D, C)
    <2>1. Picks(F, D)
      BY <1>2 DEF Picks
    <2>2. StepsIn(G, D, C)
      <3> HIDE DEF G, C, D
      <3> QED BY <1>4, <1>5 DEF StepsIn
    <2> QED BY <2>1, <2>2
  <1>7. \A s \in SUBSET D : F[s] = Max(s)
    OBVIOUS
  <1> HIDE DEF F, G, C
  <1>8. PICK g \in [SUBSET D -> C] : IsFold(g, D, NoSamples, F, G)
    <2> HIDE DEF D
    <2> QED BY <1>1, <1>3, <1>6, FoldExists
  <1>9. \A s \in SUBSET D :
           g[s] = IF s = {} THEN NoSamples ELSE AddSample(g[s \ {Max(s)}], samples[Max(s)], protocol)
    <2> SUFFICES ASSUME NEW s \in SUBSET D
                 PROVE  g[s] = IF s = {} THEN NoSamples ELSE AddSample(g[s \ {Max(s)}], samples[Max(s)], protocol)
      OBVIOUS
    <2>1. g[s] = IF s = {} THEN NoSamples ELSE G[F[s]][g[s \ {F[s]}]]
      BY <1>8 DEF IsFold
    <2>2. CASE s = {}
      BY <2>1, <2>2
    <2>3. CASE s # {}
      <3>1. Max(s) \in D /\ s \ {Max(s)} \in SUBSET D
        BY <1>2, <2>3
      <3>2. g[s \ {Max(s)}] \in C
        BY <3>1
      <3>3. g[s] = G[Max(s)][g[s \ {Max(s)}]]
        BY <1>7, <2>1, <2>3
      <3> HIDE DEF D
      <3> QED BY <1>5, <2>3, <3>1, <3>2, <3>3
    <2> QED BY <2>2, <2>3
  <1>10. g = body(g)
    BY <1>9
  <1>11. iter = body(iter)
    <2>1. \E h : h = body(h)
      BY <1>10
    <2> HIDE DEF body
    <2> QED BY <2>1
  <1> HIDE DEF iter
  <1>12. \A s \in SUBSET D :
           iter[s] = IF s = {} THEN NoSamples ELSE AddSample(iter[s \ {Max(s)}], samples[Max(s)], protocol)
    BY <1>11
  <1> DEFINE T == {s \in SUBSET D : iter[s] \in C}
  <1>13. ASSUME NEW s \in SUBSET D, \A x \in s : s \ {x} \in T
         PROVE  iter[s] \in C
    <2>1. CASE s = {}
      BY <1>3, <1>12, <2>1
    <2>2. CASE s # {}
      <3>1. Max(s) \in s /\ iter[s \ {Max(s)}] \in C
        BY <1>2, <1>13, <2>2
      <3>2. iter[s] = AddSample(iter[s \ {Max(s)}], samples[Max(s)], protocol)
        BY <1>12, <2>2
      <3> QED BY <1>4, <3>1, <3>2
    <2> QED BY <2>1, <2>2
  <1>14. ClosedUnder(D, T)
    BY <1>13 DEF ClosedUnder
  <1>15. SUBSET D \subseteq T
    <2> HIDE DEF T, D
    <2> QED BY <1>1, <1>14, SubsetInduction
  <1>16. \A n \in 0 .. Len(samples) : 1 .. n \in SUBSET D
    BY <1>1
  <1>17. ASSUME NEW n \in 1 .. Len(samples)
         PROVE  1 .. n # {} /\ Max(1 .. n) = n /\ (1 .. n) \ {n} = 1 .. (n - 1)
    <2>1. n \in Nat /\ n \in 1 .. n
      BY <1>1
    <2>2. IsFiniteSet(1 .. n) /\ 1 .. n \in SUBSET Int
      BY <2>1, FS_Interval
    <2>3. Max(1 .. n) \in 1 .. n /\ Max(1 .. n) >= n
      BY <2>1, <2>2, MaxMember
    <2> QED BY <2>1, <2>3
  <1> DEFINE t == [n \in 0 .. Len(samples) |-> iter[1 .. n]]
  <1>18. t \in [0 .. Len(samples) -> C]
    BY <1>15, <1>16 DEF T
  <1>19. t[0] = NoSamples
    <2>1. 1 .. 0 = {} /\ 0 \in 0 .. Len(samples)
      BY <1>1
    <2>2. iter[1 .. 0] = NoSamples
      BY <1>12, <2>1
    <2> QED BY <2>1, <2>2
  <1>20. ASSUME NEW n \in 1 .. Len(samples)
         PROVE  t[n] = AddSample(t[n - 1], samples[n], protocol)
    <2>1. iter[1 .. n] = AddSample(iter[(1 .. n) \ {n}], samples[n], protocol)
      <3>1. 1 .. n \in SUBSET D
        BY <1>1
      <3> QED BY <1>12, <1>17, <3>1
    <2>2. n \in 0 .. Len(samples) /\ n - 1 \in 0 .. Len(samples)
      BY <1>1
    <2>3. t[n] = iter[1 .. n] /\ t[n - 1] = iter[1 .. (n - 1)]
      BY <2>2
    <2>4. iter[(1 .. n) \ {n}] = iter[1 .. (n - 1)]
      BY <1>17
    <2> HIDE DEF t
    <2> QED BY <2>1, <2>3, <2>4
  <1>21. t[Len(samples)] = iter[D]
    BY <1>1
  <1> HIDE DEF t
  <1>22. IsTotals(t, protocol)
    BY <1>18, <1>19, <1>20 DEF IsTotals, C
  <1> QED BY <1>0, <1>21, <1>22

CountedTo(protocol, n) == {i \in Counted(protocol) : i <= n}
OfPort(I, port) == {i \in I : samples[i].destination_port = port}
PortsOf(I) == {samples[i].destination_port : i \in I}

\* totals add up the samples of I, and g their weights.
AddsUp(totals, I, g) ==
    /\ totals.qualifying_sample_count = Capped(Cardinality(I))
    /\ totals.total_weight = Capped(g[I])
    /\ DOMAIN totals.port_weights = PortsOf(I)
    /\ \A port \in PortsOf(I) : totals.port_weights[port] = Capped(g[OfPort(I, port)])

\* One sample more.
LEMMA AddsUpOneMore ==
    ASSUME samples \in Seq(Packets), NEW g, IsSum(g, DOMAIN samples, SampleWeights),
           NEW protocol, NEW totals \in TotalsType,
           NEW I \in SUBSET DOMAIN samples, AddsUp(totals, I, g),
           NEW n \in DOMAIN samples \ I, Qualifies(samples[n], protocol)
    PROVE  AddsUp(AddSample(totals, samples[n], protocol), I \cup {n}, g)
  <1> DEFINE next == AddSample(totals, samples[n], protocol)
             J == I \cup {n}
             product == samples[n].number_of_packets * samples[n].sample_ratio
             weight == Capped(product)
             port == samples[n].destination_port
  <1>1. /\ samples[n] \in PacketType /\ IsFiniteSet(DOMAIN samples)
        /\ SampleWeights[n] = product /\ product \in Nat
    BY SampleTypes DEF SampleWeights
  <1>2. /\ next.qualifying_sample_count = saturating_add(totals.qualifying_sample_count, 1)
        /\ next.total_weight = saturating_add(totals.total_weight, weight)
        /\ DOMAIN next.port_weights = DOMAIN totals.port_weights \cup {port}
        /\ next.port_weights[port] =
               saturating_add(IF port \in DOMAIN totals.port_weights
                              THEN totals.port_weights[port] ELSE 0, weight)
        /\ \A p \in DOMAIN totals.port_weights \ {port} :
               next.port_weights[p] = totals.port_weights[p]
    BY <1>1, AddSampleParts
  <1> HIDE DEF next, weight, product
  <1>3. \A a \in Nat : saturating_add(Capped(a), weight) = Capped(a + product)
    BY <1>1, SaturatingAdd DEF weight
  <1>4. \A s \in SUBSET DOMAIN samples : n \notin s =>
           g[s] \in Nat /\ g[s \cup {n}] = g[s] + product
    <2> SUFFICES ASSUME NEW s \in SUBSET DOMAIN samples, n \notin s
                 PROVE  g[s] \in Nat /\ g[s \cup {n}] = g[s] + product
      OBVIOUS
    <2>1. (s \cup {n}) \ {n} = s /\ s \cup {n} \in SUBSET DOMAIN samples
      OBVIOUS
    <2>2. g[s] \in Nat
      BY DEF IsSum
    <2>3. g[s \cup {n}] = SampleWeights[n] + g[(s \cup {n}) \ {n}]
      BY <2>1 DEF IsSum
    <2>4. g[s \cup {n}] = product + g[s]
      BY <1>1, <2>1, <2>3
    <2> QED BY <1>1, <2>2, <2>4
  <1>5. next.total_weight = Capped(g[J])
    BY <1>2, <1>3, <1>4 DEF AddsUp
  <1>6. next.qualifying_sample_count = Capped(Cardinality(J))
    <2>1. IsFiniteSet(I) /\ Cardinality(I) \in Nat
      BY <1>1, FS_Subset, FS_CardinalityType
    <2>2. Cardinality(J) = Cardinality(I) + 1
      BY <2>1, FS_AddElement
    <2> QED BY <1>2, <2>1, <2>2, SaturatingAdd DEF AddsUp
  <1>7. PortsOf(J) = PortsOf(I) \cup {port}
    BY DEF PortsOf
  <1>8. DOMAIN next.port_weights = PortsOf(J)
    BY <1>2, <1>7 DEF AddsUp
  <1>9. ASSUME NEW p \in PortsOf(J)
        PROVE  next.port_weights[p] = Capped(g[OfPort(J, p)])
    <2>1. CASE p # port
      <3>1. OfPort(J, p) = OfPort(I, p) /\ p \in PortsOf(I)
        BY <1>7, <2>1 DEF OfPort
      <3> QED BY <1>2, <2>1, <3>1 DEF AddsUp
    <2>2. CASE p = port /\ port \in PortsOf(I)
      <3>1. OfPort(J, port) = OfPort(I, port) \cup {n} /\ n \notin OfPort(I, port)
            /\ OfPort(I, port) \in SUBSET DOMAIN samples
        BY DEF OfPort
      <3>2. next.port_weights[port] = saturating_add(Capped(g[OfPort(I, port)]), weight)
        BY <1>2, <2>2 DEF AddsUp
      <3> QED BY <1>3, <1>4, <2>2, <3>1, <3>2
    <2>3. CASE p = port /\ port \notin PortsOf(I)
      <3>1. OfPort(J, port) = {} \cup {n} /\ {} \in SUBSET DOMAIN samples
        BY <2>3 DEF OfPort, PortsOf
      <3>2. next.port_weights[port] = saturating_add(0, weight)
        BY <1>2, <2>3 DEF AddsUp
      <3>3. Capped(0) = 0 /\ 0 \in Nat
        BY DominanceAssumption DEF Capped
      <3>4. next.port_weights[port] = Capped(0 + product)
        BY <1>3, <3>2, <3>3
      <3>5. g[{} \cup {n}] = g[{}] + product /\ g[{}] = 0
        BY <1>4 DEF IsSum
      <3> QED BY <2>3, <3>1, <3>4, <3>5
    <2> QED BY <2>1, <2>2, <2>3
  <1> QED BY <1>5, <1>6, <1>8, <1>9 DEF AddsUp, next

\* What the loop over the samples gives is what the reference says.
LEMMA TotalsAddUp ==
    ASSUME samples \in Seq(Packets), NEW g, IsSum(g, DOMAIN samples, SampleWeights), NEW protocol
    PROVE  Totals(samples, protocol) \in TotalsType /\ AddsUp(Totals(samples, protocol), Counted(protocol), g)
  <1>1. /\ DOMAIN samples = 1 .. Len(samples) /\ Len(samples) \in Nat
        /\ \A i \in DOMAIN samples : samples[i] \in PacketType
    BY SampleTypes
  <1>2. PICK t : IsTotals(t, protocol) /\ Totals(samples, protocol) = t[Len(samples)]
    BY TotalsFold
  <1>3. \A i \in DOMAIN samples : i \in Counted(protocol) <=> Qualifies(samples[i], protocol)
    <2> SUFFICES ASSUME NEW i \in DOMAIN samples
                 PROVE  i \in Counted(protocol) <=> Qualifies(samples[i], protocol)
      OBVIOUS
    <2>1. samples[i].fragmented \in BOOLEAN
      BY <1>1 DEF PacketType
    <2> QED BY <2>1 DEF Counted, Qualifies
  <1>4. Counted(protocol) \in SUBSET DOMAIN samples
    BY DEF Counted
  <1> DEFINE T == {n \in Nat : n <= Len(samples) => AddsUp(t[n], CountedTo(protocol, n), g)}
  <1>5. 0 \in T
    <2>1. CountedTo(protocol, 0) = {}
      BY <1>1, <1>4 DEF CountedTo
    <2>2. t[0] = NoSamples
      BY <1>2 DEF IsTotals
    <2>3. Cardinality({}) = 0 /\ g[{}] = 0 /\ Capped(0) = 0
      BY FS_EmptySet, DominanceAssumption DEF IsSum, Capped
    <2>4. PortsOf({}) = {}
      BY DEF PortsOf
    <2>5. /\ NoSamples.qualifying_sample_count = 0 /\ NoSamples.total_weight = 0
          /\ DOMAIN NoSamples.port_weights = {}
      BY DEF NoSamples
    <2>6. AddsUp(t[0], CountedTo(protocol, 0), g)
      BY <2>1, <2>2, <2>3, <2>4, <2>5 DEF AddsUp
    <2> QED BY <2>6
  <1>6. ASSUME NEW n \in Nat, n \in T PROVE n + 1 \in T
    <2> SUFFICES ASSUME n + 1 <= Len(samples)
                 PROVE  AddsUp(t[n + 1], CountedTo(protocol, n + 1), g)
      OBVIOUS
    <2>1. n + 1 \in DOMAIN samples /\ n + 1 \in 1 .. Len(samples) /\ n \in 0 .. Len(samples)
      BY <1>1
    <2>2. t[n + 1] = AddSample(t[n], samples[n + 1], protocol) /\ t[n] \in TotalsType
      <3>1. (n + 1) - 1 = n
        OBVIOUS
      <3>2. t[n + 1] = AddSample(t[(n + 1) - 1], samples[n + 1], protocol)
        BY <1>2, <2>1 DEF IsTotals
      <3> QED BY <1>2, <2>1, <3>1, <3>2 DEF IsTotals
    <2>3. AddsUp(t[n], CountedTo(protocol, n), g)
      BY <1>1, <1>6, <2>1
    <2>4. CASE Qualifies(samples[n + 1], protocol)
      <3>1. n + 1 \in Counted(protocol)
        BY <1>3, <2>1, <2>4
      <3>2. /\ CountedTo(protocol, n + 1) = CountedTo(protocol, n) \cup {n + 1}
            /\ n + 1 \notin CountedTo(protocol, n)
            /\ CountedTo(protocol, n) \in SUBSET DOMAIN samples
        BY <1>1, <1>4, <3>1 DEF CountedTo
      <3> QED BY <2>1, <2>2, <2>3, <2>4, <3>2, AddsUpOneMore
    <2>5. CASE ~Qualifies(samples[n + 1], protocol)
      <3>1. n + 1 \notin Counted(protocol)
        BY <1>3, <2>1, <2>5
      <3>2. CountedTo(protocol, n + 1) = CountedTo(protocol, n)
        BY <1>1, <1>4, <3>1 DEF CountedTo
      <3>3. t[n + 1] = t[n]
        BY <1>1, <2>1, <2>2, <2>5, AddSampleParts
      <3> QED BY <2>3, <3>2, <3>3
    <2> QED BY <2>4, <2>5
  <1> HIDE DEF T
  <1>7. Len(samples) \in T
    BY <1>1, <1>5, <1>6, NumberInduction
  <1>8. CountedTo(protocol, Len(samples)) = Counted(protocol)
    BY <1>1, <1>4 DEF CountedTo
  <1>9. t[Len(samples)] \in TotalsType
    BY <1>1, <1>2 DEF IsTotals
  <1> QED BY <1>1, <1>2, <1>7, <1>8, <1>9 DEF T

-----------------------------------------------------------------------------
(* The loop over the ports of a BAN.                                       *)

BestType == [port : Nat, weight : Weights, tied : BOOLEAN]

\* best is what the loop knows after the ports of s.
Leads(best, s, weights) ==
    /\ s = {} => best = NoDominant
    /\ s # {} =>
           /\ best.port \in s /\ best.weight = weights[best.port]
           /\ \A p \in s : weights[p] <= best.weight
           /\ best.tied <=> \E p \in s \ {best.port} : weights[p] = best.weight

\* One turn of the loop.
LEMMA ConsiderPortLeads ==
    ASSUME NEW best \in BestType, NEW s \in SUBSET (Nat \ {0}), NEW weights,
           \A p \in s : weights[p] \in Nat, Leads(best, s, weights),
           NEW port \in Nat \ {0}, port \notin s, weights[port] \in Weights
    PROVE  /\ ConsiderPort(best, port, weights[port]) \in BestType
           /\ Leads(ConsiderPort(best, port, weights[port]), s \cup {port}, weights)
  <1> DEFINE next == ConsiderPort(best, port, weights[port])
             w == weights[port]
  <1>0. /\ best.port \in Nat /\ best.weight \in Nat /\ best.weight \in Weights /\ best.tied \in BOOLEAN
        /\ w \in Nat
        /\ best = [port |-> best.port, weight |-> best.weight, tied |-> best.tied]
    BY DominanceAssumption DEF BestType, Weights
  <1>1. CASE best.port = 0 \/ w > best.weight
    <2>1. next = [port |-> port, weight |-> w, tied |-> FALSE]
      BY <1>1 DEF ConsiderPort
    <2>2. next \in BestType
      BY <2>1 DEF BestType
    <2>3. next.port = port /\ next.weight = w /\ next.tied = FALSE
      BY <2>1
    <2>4. \A p \in s : weights[p] < w
      <3> SUFFICES ASSUME NEW p \in s PROVE weights[p] < w
        OBVIOUS
      <3>1. best.port # 0 /\ weights[p] <= best.weight
        BY DEF Leads
      <3> QED BY <1>0, <1>1, <3>1
    <2> HIDE DEF next, w
    <2>5. \A p \in s \cup {port} : weights[p] <= next.weight
      BY <1>0, <2>3, <2>4 DEF w
    <2>6. \A p \in (s \cup {port}) \ {port} : weights[p] # next.weight
      BY <1>0, <2>3, <2>4 DEF w
    <2>7. Leads(next, s \cup {port}, weights)
      BY <2>3, <2>5, <2>6 DEF Leads, w
    <2> QED BY <2>2, <2>7 DEF next
  <1>2. CASE best.port # 0 /\ ~(w > best.weight)
    <2>1. next = [best EXCEPT !.tied = @ \/ w = best.weight]
      BY <1>2 DEF ConsiderPort
    <2>2. next.port = best.port /\ next.weight = best.weight /\ next.tied = (best.tied \/ w = best.weight)
      BY <1>0, <2>1
    <2>3. next = [port |-> best.port, weight |-> best.weight, tied |-> (best.tied \/ w = best.weight)]
      BY <1>0, <2>1
    <2>4. next \in BestType
      BY <1>0, <2>3 DEF BestType
    <2>5. s # {}
      BY <1>2 DEF Leads, NoDominant
    <2>6. /\ best.port \in s /\ best.weight = weights[best.port]
          /\ \A p \in s : weights[p] <= best.weight
          /\ best.tied <=> \E p \in s \ {best.port} : weights[p] = best.weight
      BY <2>5 DEF Leads
    <2> HIDE DEF next
    <2>7. w <= best.weight
      BY <1>0, <1>2
    <2>8. next.tied <=> \E p \in (s \cup {port}) \ {best.port} : weights[p] = best.weight
      <3>1. port # best.port
        BY <2>6
      <3> QED BY <1>0, <2>2, <2>6, <3>1
    <2>9. Leads(next, s \cup {port}, weights)
      BY <2>2, <2>6, <2>7, <2>8 DEF Leads
    <2> QED BY <2>4, <2>9 DEF next
  <1> QED BY <1>0, <1>1, <1>2

(***************************************************************************)
(* After the last turn of the loop the port it kept leads all ports that   *)
(* were seen, and tied says whether another one weighs the same.           *)
(***************************************************************************)
LEMMA DominantLeads ==
    ASSUME NEW totals, DOMAIN totals.port_weights \in SUBSET (Nat \ {0}),
           IsFiniteSet(DOMAIN totals.port_weights),
           \A p \in DOMAIN totals.port_weights : totals.port_weights[p] \in Weights
    PROVE  /\ Dominant(totals) \in BestType
           /\ Leads(Dominant(totals), DOMAIN totals.port_weights, totals.port_weights)
  <1> DEFINE weights == totals.port_weights
             P == DOMAIN totals.port_weights
             C == BestType
             F == [s \in SUBSET P |-> Max(s)]
             G == [x \in P |-> [c \in C |-> ConsiderPort(c, x, weights[x])]]
             body(h) == [s \in SUBSET P |->
                  IF s = {} THEN NoDominant ELSE ConsiderPort(h[s \ {Max(s)}], Max(s), weights[Max(s)])]
             iter == CHOOSE h : h = body(h)
  <1>0. Dominant(totals) = iter[P]
    BY DEF Dominant, MapThenFoldSet
  <1>1. P \in SUBSET (Nat \ {0}) /\ IsFiniteSet(P) /\ \A p \in P : weights[p] \in Weights
    OBVIOUS
  <1> HIDE DEF P
  <1>2. \A s \in SUBSET P : s # {} => Max(s) \in s
    <2> SUFFICES ASSUME NEW s \in SUBSET P, s # {} PROVE Max(s) \in s
      OBVIOUS
    <2>1. IsFiniteSet(s)
      BY <1>1, FS_Subset
    <2>2. s \in SUBSET Int
      BY <1>1
    <2> QED BY <2>1, <2>2, MaxMember
  <1>3. NoDominant \in C
    BY DominanceAssumption DEF NoDominant, BestType, Weights
  <1> HIDE DEF weights
  <1>4. \A x \in P : \A c \in C : ConsiderPort(c, x, weights[x]) \in C
    <2> SUFFICES ASSUME NEW x \in P, NEW c \in C PROVE ConsiderPort(c, x, weights[x]) \in C
      OBVIOUS
    <2>1. x \in Nat /\ weights[x] \in Weights
      BY <1>1
    <2> QED BY <2>1 DEF ConsiderPort, BestType
  <1>5. \A x \in P : \A c \in C : G[x][c] = ConsiderPort(c, x, weights[x])
    <2> HIDE DEF C
    <2> QED OBVIOUS
  <1>6. Picks(F, P) /\ StepsIn(G, P, C)
    <2>1. Picks(F, P)
      BY <1>2 DEF Picks
    <2>2. StepsIn(G, P, C)
      <3> HIDE DEF G, C
      <3> QED BY <1>4, <1>5 DEF StepsIn
    <2> QED BY <2>1, <2>2
  <1>7. \A s \in SUBSET P : F[s] = Max(s)
    OBVIOUS
  <1> HIDE DEF F, G, C
  <1>8. PICK g \in [SUBSET P -> C] : IsFold(g, P, NoDominant, F, G)
    BY <1>1, <1>3, <1>6, FoldExists
  <1>9. \A s \in SUBSET P :
           g[s] = IF s = {} THEN NoDominant ELSE ConsiderPort(g[s \ {Max(s)}], Max(s), weights[Max(s)])
    <2> SUFFICES ASSUME NEW s \in SUBSET P
                 PROVE  g[s] = IF s = {} THEN NoDominant
                               ELSE ConsiderPort(g[s \ {Max(s)}], Max(s), weights[Max(s)])
      OBVIOUS
    <2>1. g[s] = IF s = {} THEN NoDominant ELSE G[F[s]][g[s \ {F[s]}]]
      BY <1>8 DEF IsFold
    <2>2. CASE s = {}
      BY <2>1, <2>2
    <2>3. CASE s # {}
      <3>1. Max(s) \in P /\ s \ {Max(s)} \in SUBSET P
        BY <1>2, <2>3
      <3>2. g[s \ {Max(s)}] \in C
        BY <3>1
      <3>3. g[s] = G[Max(s)][g[s \ {Max(s)}]]
        BY <1>7, <2>1, <2>3
      <3> QED BY <1>5, <2>3, <3>1, <3>2, <3>3
    <2> QED BY <2>2, <2>3
  <1>10. g = body(g)
    BY <1>9
  <1>11. iter = body(iter)
    <2>1. \E h : h = body(h)
      BY <1>10
    <2> HIDE DEF body
    <2> QED BY <2>1
  <1> HIDE DEF iter
  <1>12. \A s \in SUBSET P :
           iter[s] = IF s = {} THEN NoDominant ELSE ConsiderPort(iter[s \ {Max(s)}], Max(s), weights[Max(s)])
    BY <1>11
  <1> DEFINE T == {s \in SUBSET P : iter[s] \in C /\ Leads(iter[s], s, weights)}
  <1>13. ASSUME NEW s \in SUBSET P, \A x \in s : s \ {x} \in T
         PROVE  iter[s] \in C /\ Leads(iter[s], s, weights)
    <2>1. CASE s = {}
      BY <1>3, <1>12, <2>1 DEF Leads
    <2>2. CASE s # {}
      <3> DEFINE m == Max(s)
                 r == s \ {m}
      <3>1. m \in s /\ iter[r] \in C /\ Leads(iter[r], r, weights)
        BY <1>2, <1>13, <2>2
      <3>2. iter[s] = ConsiderPort(iter[r], m, weights[m])
        BY <1>12, <2>2
      <3>0. s = r \cup {m} /\ m \notin r
        BY <3>1
      <3>6. r \subseteq P /\ m \in P
        BY <3>1
      <3> HIDE DEF m, r
      <3>7. \A p \in P : weights[p] \in Nat
        BY <1>1, DominanceAssumption DEF Weights
      <3>8. r \in SUBSET (Nat \ {0}) /\ m \in Nat \ {0}
        BY <1>1, <3>6
      <3>3. /\ m \in Nat \ {0} /\ r \in SUBSET (Nat \ {0})
            /\ weights[m] \in Weights /\ \A p \in r : weights[p] \in Nat
        BY <1>1, <3>6, <3>7, <3>8
      <3>4. /\ ConsiderPort(iter[r], m, weights[m]) \in BestType
            /\ Leads(ConsiderPort(iter[r], m, weights[m]), r \cup {m}, weights)
        BY <3>0, <3>1, <3>3, ConsiderPortLeads DEF C
      <3> QED BY <3>0, <3>2, <3>4 DEF C
    <2> QED BY <2>1, <2>2
  <1>14. ClosedUnder(P, T)
    BY <1>13 DEF ClosedUnder
  <1> HIDE DEF T
  <1>15. P \in T
    BY <1>1, <1>14, SubsetInduction
  <1> QED BY <1>0, <1>15 DEF T, C, weights, P

\* A capped sum keeps the order, and is a weight.
LEMMA CappedOrder ==
    ASSUME NEW a \in Nat, NEW b \in Nat
    PROVE  /\ Capped(a) \in Nat /\ Capped(a) \in Weights
           /\ a <= b => Capped(a) <= Capped(b)
           /\ a <= MaxWeight => Capped(a) = a
           /\ a = 0 => Capped(a) = 0
  BY DominanceAssumption DEF Capped, Weights

(***************************************************************************)
(* What both classifiers start from, in the words of the reference.        *)
(***************************************************************************)
LEMMA ReferenceTotals ==
    ASSUME samples \in Seq(Packets), NEW protocol
    PROVE  LET totals == Totals(samples, protocol)
               P == PortsSeen(protocol)
           IN  /\ totals.qualifying_sample_count = Capped(Cardinality(Counted(protocol)))
               /\ Cardinality(Counted(protocol)) \in Nat
               /\ totals.total_weight = Capped(TrueTotal(protocol))
               /\ TrueTotal(protocol) \in Nat
               /\ P \in SUBSET (Nat \ {0}) /\ P \in SUBSET PortNumbers /\ IsFiniteSet(P)
               /\ DOMAIN totals.port_weights = P
               /\ \A port \in P :
                      /\ TruePortWeight(protocol, port) \in Nat
                      /\ TruePortWeight(protocol, port) <= TrueTotal(protocol)
                      /\ totals.port_weights[port] = Capped(TruePortWeight(protocol, port))
               /\ \A p, q \in P : p # q =>
                      TruePortWeight(protocol, p) + TruePortWeight(protocol, q) <= TrueTotal(protocol)
               /\ Nothing(totals) <=> totals.total_weight = 0
               /\ P = {} => totals.total_weight = 0
  <1> DEFINE totals == Totals(samples, protocol)
             P == PortsSeen(protocol)
             I == Counted(protocol)
  <1>1. PICK g : IsSum(g, DOMAIN samples, SampleWeights)
    BY SampleTypes, SumsExist
  <1>2. totals \in TotalsType /\ AddsUp(totals, I, g)
    BY <1>1, TotalsAddUp
  <1>3. /\ IsFiniteSet(DOMAIN samples) /\ I \in SUBSET DOMAIN samples /\ P = PortsOf(I)
        /\ SampleWeights \in [DOMAIN samples -> Nat]
    BY SampleTypes DEF Counted, PortsSeen, PortsOf
  <1>4. IsFiniteSet(I) /\ Cardinality(I) \in Nat
    BY <1>3, FS_Subset, FS_CardinalityType
  <1>5. \A s \in SUBSET DOMAIN samples : TrueWeight(s) = g[s] /\ g[s] \in Nat
    BY <1>1, TrueWeightIsSum DEF IsSum
  <1>6. TrueTotal(protocol) = g[I] /\ g[I] \in Nat
    BY <1>3, <1>5 DEF TrueTotal
  <1>7. \A port \in P : /\ OfPort(I, port) \in SUBSET I
                        /\ TruePortWeight(protocol, port) = g[OfPort(I, port)]
                        /\ g[OfPort(I, port)] \in Nat
    <2> SUFFICES ASSUME NEW port \in P
                 PROVE  /\ OfPort(I, port) \in SUBSET I
                        /\ TruePortWeight(protocol, port) = g[OfPort(I, port)]
                        /\ g[OfPort(I, port)] \in Nat
      OBVIOUS
    <2>1. OfPort(I, port) \in SUBSET I /\ OfPort(I, port) \in SUBSET DOMAIN samples
      BY <1>3 DEF OfPort
    <2>2. TruePortWeight(protocol, port) = TrueWeight(OfPort(I, port))
      BY DEF TruePortWeight, OfPort
    <2> QED BY <1>5, <2>1, <2>2
  <1>8. ASSUME NEW port \in P
        PROVE  /\ TruePortWeight(protocol, port) \in Nat
               /\ TruePortWeight(protocol, port) <= TrueTotal(protocol)
               /\ totals.port_weights[port] = Capped(TruePortWeight(protocol, port))
    <2>1. g[OfPort(I, port)] <= g[I]
      BY <1>1, <1>3, <1>7, SumMonotone
    <2>2. totals.port_weights[port] = Capped(g[OfPort(I, port)])
      BY <1>2, <1>3 DEF AddsUp
    <2> QED BY <1>6, <1>7, <2>1, <2>2
  <1>9. ASSUME NEW p \in P, NEW q \in P, p # q
        PROVE  TruePortWeight(protocol, p) + TruePortWeight(protocol, q) <= TrueTotal(protocol)
    <2> DEFINE A == OfPort(I, p)
               B == OfPort(I, q)
    <2>1. A \in SUBSET DOMAIN samples /\ B \in SUBSET DOMAIN samples /\ A \cap B = {}
      BY <1>3, <1>9 DEF OfPort
    <2>2. A \cup B \in SUBSET I
      BY DEF OfPort
    <2> HIDE DEF A, B
    <2>3. g[A \cup B] = g[A] + g[B]
      BY <1>1, <1>3, <2>1, SumUnion
    <2>4. g[A \cup B] <= g[I]
      BY <1>1, <1>3, <2>2, SumMonotone
    <2> QED BY <1>6, <1>7, <2>3, <2>4 DEF A, B
  <1>10. P \in SUBSET (Nat \ {0})
    <2> SUFFICES ASSUME NEW i \in I PROVE samples[i].destination_port \in Nat \ {0}
      BY DEF PortsSeen
    <2>1. samples[i] \in PacketType
      BY <1>3, SampleTypes
    <2>2. samples[i].destination_port \in PortNumbers /\ samples[i].destination_port # 0
      BY <2>1 DEF PacketType, Counted
    <2>3. PortNumbers \subseteq Nat
      BY DEF PortNumbers
    <2> QED BY <2>2, <2>3
  <1>16. P \in SUBSET PortNumbers
    <2> SUFFICES ASSUME NEW i \in I PROVE samples[i].destination_port \in PortNumbers
      BY DEF PortsSeen
    <2>1. samples[i] \in PacketType
      BY <1>3, SampleTypes
    <2> QED BY <2>1 DEF PacketType
  <1>11. IsFiniteSet(P)
    <2> DEFINE f == [i \in I |-> samples[i].destination_port]
    <2>1. P = {f[i] : i \in I}
      BY DEF PortsSeen
    <2>2. f \in Surjection(I, P)
      BY <2>1 DEF Surjection
    <2> HIDE DEF f, P, I
    <2> QED BY <1>4, <2>2, FS_Surjection
  <1>12. ASSUME P = {} PROVE totals.total_weight = 0
    <2>1. I = {}
      <3> HIDE DEF I
      <3> QED BY <1>3, <1>12 DEF PortsOf
    <2>2. g[I] = 0
      BY <1>1, <2>1 DEF IsSum
    <2>3. totals.total_weight = Capped(g[I])
      BY <1>2 DEF AddsUp
    <2> QED BY <2>2, <2>3, CappedOrder
  <1>15. Nothing(totals) <=> totals.total_weight = 0
    <2>1. ASSUME totals.port_weights = << >> PROVE totals.total_weight = 0
      <3>1. DOMAIN totals.port_weights = {}
        <4> HIDE DEF totals
        <4> QED BY <2>1
      <3> QED BY <1>2, <1>3, <1>12, <3>1 DEF AddsUp
    <2> QED BY <2>1 DEF Nothing
  <1>13. /\ totals.qualifying_sample_count = Capped(Cardinality(I))
         /\ totals.total_weight = Capped(g[I])
         /\ DOMAIN totals.port_weights = P
    BY <1>2, <1>3 DEF AddsUp
  <1> HIDE DEF totals, P, I
  <1>14. totals.total_weight = Capped(TrueTotal(protocol)) /\ TrueTotal(protocol) \in Nat
    BY <1>6, <1>13
  <1> QED BY <1>4, <1>8, <1>9, <1>10, <1>11, <1>12, <1>13, <1>14, <1>15, <1>16 DEF totals, P, I

\* Products keep the order.
LEMMA ProductOrder ==
    ASSUME NEW a \in Nat, NEW b \in Nat, NEW c \in Nat
    PROVE  /\ a * b \in Nat
           /\ b <= c => a * b <= a * c
           /\ a # 0 /\ b < c => a * b + a <= a * c
  <1>1. a * b \in Nat /\ a * c \in Nat
    BY SMT
  <1>2. ASSUME b <= c PROVE a * b <= a * c
    <2>1. PICK d \in Nat : c = b + d
      <3>1. c - b \in Nat /\ c = b + (c - b)
        BY <1>2
      <3> QED BY <3>1
    <2>2. a * c = a * b + a * d /\ a * d \in Nat
      BY <2>1, SMT
    <2> DEFINE x == a * b
               y == a * c
               z == a * d
    <2>3. x \in Nat /\ y \in Nat /\ z \in Nat /\ y = x + z
      BY <1>1, <2>2
    <2> HIDE DEF x, y, z
    <2>4. x <= y
      BY <2>3
    <2> QED BY <2>4 DEF x, y
  <1>3. ASSUME a # 0, b < c PROVE a * b + a <= a * c
    <2>1. PICK d \in Nat : c = b + 1 + d
      <3>1. c - b - 1 \in Nat /\ c = b + 1 + (c - b - 1)
        BY <1>3
      <3> QED BY <3>1
    <2>2. a * c = a * b + a + a * d /\ a * d \in Nat
      BY <2>1, SMT
    <2> DEFINE x == a * b
               y == a * c
               z == a * d
    <2>3. x \in Nat /\ y \in Nat /\ z \in Nat /\ y = x + a + z
      BY <1>1, <2>2
    <2> HIDE DEF x, y, z
    <2>4. x + a <= y
      BY <2>3
    <2> QED BY <2>4 DEF x, y
  <1> QED BY <1>1, <1>2, <1>3

(***************************************************************************)
(* The loop of calculate_dominance_percent, which never divides, gives the *)
(* share rounded down.                                                     *)
(***************************************************************************)
THEOREM PercentIsFloor ==
    ASSUME NEW n \in Nat, NEW d \in Nat \ {0}, n <= d
    PROVE  calculate_dominance_percent(n, d) = (n * 100) \div d
  <1> DEFINE N == n * 100
             r == N \div d
             Right(x) == /\ \A candidate \in 1 .. x : meets_dominance_percent(n, d, candidate)
                         /\ x < 100 => ~meets_dominance_percent(n, d, x + 1)
  <1>1. \A p \in Nat : meets_dominance_percent(n, d, p) <=> N >= d * p
    BY DominanceExact
  <1>2. N \in Nat /\ N <= d * 100
    OBVIOUS
  <1> HIDE DEF N
  <1>3. r \in Nat /\ d * r <= N /\ N < d * r + d
    BY <1>2, SMT
  <1> HIDE DEF r
  <1>4. \A x \in Nat : x <= r <=> N >= d * x
    <2> SUFFICES ASSUME NEW x \in Nat PROVE x <= r <=> N >= d * x
      OBVIOUS
    <2> DEFINE y == d * x
               z == d * r
    <2>1. y \in Nat /\ z \in Nat /\ (x <= r => y <= z) /\ (r < x => z + d <= y)
      BY <1>3, ProductOrder
    <2>2. z <= N /\ N < z + d
      BY <1>3
    <2> HIDE DEF y, z
    <2>3. x <= r <=> N >= y
      BY <1>2, <1>3, <2>1, <2>2
    <2> QED BY <2>3 DEF y
  <1>5. r <= 100
    <2>1. d * 100 <= N \/ N < d * 100
      BY <1>2
    <2>2. ~(101 <= r)
      <3>1. d * 100 \in Nat /\ d * 101 = d * 100 + d
        OBVIOUS
      <3>2. ~(N >= d * 101)
        BY <1>2, <3>1
      <3> QED BY <1>4, <3>2
    <2> QED BY <1>3, <2>2
  <1>6. r \in 0 .. 100 /\ Right(r)
    <2>1. ASSUME NEW candidate \in 1 .. r PROVE meets_dominance_percent(n, d, candidate)
      <3>1. candidate \in Nat /\ candidate <= r
        BY <1>3
      <3> QED BY <1>1, <1>4, <3>1
    <2>2. ~meets_dominance_percent(n, d, r + 1)
      <3>1. r + 1 \in Nat /\ ~(r + 1 <= r)
        BY <1>3
      <3> QED BY <1>1, <1>4, <3>1
    <2> QED BY <1>3, <1>5, <2>1, <2>2
  <1>7. ASSUME NEW x \in 0 .. 100, Right(x) PROVE x = r
    <2>1. CASE x < r
      <3>1. x + 1 \in Nat /\ x + 1 <= r /\ x < 100
        BY <1>3, <1>5, <2>1
      <3>2. meets_dominance_percent(n, d, x + 1)
        BY <1>1, <1>4, <3>1
      <3> QED BY <1>7, <3>1, <3>2
    <2>2. CASE r < x
      <3>1. r + 1 \in 1 .. x /\ r + 1 \in Nat /\ ~(r + 1 <= r)
        BY <1>3, <2>2
      <3>2. meets_dominance_percent(n, d, r + 1)
        BY <1>7, <3>1
      <3> QED BY <1>1, <1>4, <3>1, <3>2
    <2> QED BY <1>3, <2>1, <2>2
  <1>8. calculate_dominance_percent(n, d) = CHOOSE x \in 0 .. 100 : Right(x)
    BY DEF calculate_dominance_percent
  <1> HIDE DEF Right
  <1>9. (CHOOSE x \in 0 .. 100 : Right(x)) = r
    BY <1>6, <1>7
  <1> QED BY <1>8, <1>9 DEF r, N

-----------------------------------------------------------------------------
(* The refresh.                                                            *)

\* Ports that each carry their share of the whole are few.
LEMMA FewShares ==
    ASSUME samples \in Seq(Packets), NEW protocol, NEW P \in SUBSET PortsSeen(protocol),
           NEW share \in Nat, TrueTotal(protocol) > 0,
           \A port \in P : TruePortWeight(protocol, port) * 100 >= TrueTotal(protocol) * share
    PROVE  Cardinality(P) * share <= 100
  <1> DEFINE I == Counted(protocol)
             Part(s) == {i \in I : samples[i].destination_port \in s}
             total == TrueTotal(protocol)
             each == total * share
  <1>1. PICK g : IsSum(g, DOMAIN samples, SampleWeights)
    BY SampleTypes, SumsExist
  <1>2. /\ IsFiniteSet(DOMAIN samples) /\ I \in SUBSET DOMAIN samples
        /\ SampleWeights \in [DOMAIN samples -> Nat]
    BY SampleTypes DEF Counted
  <1>3. \A s \in SUBSET DOMAIN samples : TrueWeight(s) = g[s] /\ g[s] \in Nat
    BY <1>1, TrueWeightIsSum DEF IsSum
  <1>4. total = g[I] /\ total \in Nat /\ total # 0
    BY <1>2, <1>3 DEF TrueTotal
  <1>5. each \in Nat
    BY <1>4, ProductOrder
  <1>6. IsFiniteSet(P)
    BY ReferenceTotals, FS_Subset
  <1>7. \A s \in SUBSET P : IsFiniteSet(s) /\ Cardinality(s) \in Nat
    BY <1>6, FS_Subset, FS_CardinalityType
  <1> HIDE DEF each, total
  <1> DEFINE T == {s \in SUBSET P : Cardinality(s) * each <= g[Part(s)] * 100}
  <1>8. ASSUME NEW s \in SUBSET P, \A x \in s : s \ {x} \in T
        PROVE  Cardinality(s) * each <= g[Part(s)] * 100
    <2>1. CASE s = {}
      <3>1. Cardinality(s) = 0 /\ Part(s) = {} /\ g[{}] = 0
        BY <1>1, <2>1, FS_EmptySet DEF IsSum
      <3>2. 0 * each = 0
        BY <1>5
      <3>3. Cardinality(s) * each = 0 /\ g[Part(s)] * 100 = 0
        <4> HIDE DEF Part
        <4> QED BY <3>1, <3>2
      <3> QED BY <3>3
    <2>2. CASE s # {}
      <3>1. PICK port \in s : TRUE
        BY <2>2
      <3> DEFINE r == s \ {port}
                 A == Part(r)
                 B == Part({port})
      <3>2. /\ A \in SUBSET DOMAIN samples /\ B \in SUBSET DOMAIN samples
            /\ A \cap B = {} /\ Part(s) = A \cup B
        BY <1>2
      <3>3. TruePortWeight(protocol, port) = g[B] /\ g[B] \in Nat /\ g[A] \in Nat
        <4>1. {i \in Counted(protocol) : samples[i].destination_port = port} = B
          OBVIOUS
        <4> QED BY <1>3, <3>2, <4>1 DEF TruePortWeight
      <3>4. Cardinality(r) * each <= g[A] * 100
        BY <1>8
      <3>5. g[B] * 100 >= each
        BY <3>1, <3>3 DEF each, total
      <3>6. Cardinality(s) = Cardinality(r) + 1 /\ Cardinality(r) \in Nat
        <4>1. Cardinality(r) = Cardinality(s) - 1
          BY <1>7, FS_RemoveElement
        <4>2. Cardinality(s) \in Nat /\ Cardinality(r) \in Nat
          BY <1>7
        <4> QED BY <4>1, <4>2
      <3> HIDE DEF A, B, r, Part
      <3>7. g[Part(s)] = g[A] + g[B]
        BY <1>1, <1>2, <3>2, SumUnion
      <3>8. Cardinality(s) * each = Cardinality(r) * each + each /\ Cardinality(r) * each \in Nat
        <4> DEFINE c == Cardinality(r)
        <4>1. (c + 1) * each = c * each + each /\ c * each \in Nat
          <5> HIDE DEF c
          <5>1. c \in Nat
            BY <3>6 DEF c
          <5> QED BY <1>5, <5>1, SMT
        <4> QED BY <3>6, <4>1
      <3> DEFINE x == Cardinality(s) * each
                 y == Cardinality(r) * each
                 a == g[A]
                 b == g[B]
      <3>9. x = y + each /\ y \in Nat /\ y <= a * 100 /\ each <= b * 100 /\ a \in Nat /\ b \in Nat
        BY <1>5, <3>3, <3>4, <3>5, <3>8
      <3> HIDE DEF x, y, a, b
      <3>10. x <= (a + b) * 100
        BY <1>5, <3>9
      <3> QED BY <3>7, <3>10 DEF x, a, b
    <2> QED BY <2>1, <2>2
  <1>9. ClosedUnder(P, T)
    BY <1>8 DEF ClosedUnder
  <1>10. P \in T
    <2> HIDE DEF T
    <2> QED BY <1>6, <1>9, SubsetInduction
  <1>11. Cardinality(P) * each <= g[Part(P)] * 100
    BY <1>10
  <1>12. g[Part(P)] <= total /\ g[Part(P)] \in Nat
    <2>1. Part(P) \in SUBSET I
      OBVIOUS
    <2> HIDE DEF Part, I
    <2> QED BY <1>1, <1>2, <1>4, <2>1, SumMonotone
  <1> DEFINE c == Cardinality(P)
             k == c * share
  <1>13. c \in Nat /\ k \in Nat
    <2>1. c \in Nat
      BY <1>7
    <2> HIDE DEF c
    <2> QED BY <2>1, ProductOrder
  <1>14. total * k = c * each
    <2> HIDE DEF c
    <2> QED BY <1>4, <1>13, SMT DEF each
  <1>15. total * k <= total * 100
    <2> DEFINE part == g[Part(P)]
               z == c * each
    <2>1. z <= part * 100 /\ part <= total /\ part \in Nat
      BY <1>11, <1>12
    <2>2. part * 100 <= total * 100
      <3> HIDE DEF part
      <3> QED BY <1>4, <2>1
    <2>3. z \in Nat
      BY <1>5, <1>13, ProductOrder
    <2> HIDE DEF part, z
    <2>4. z <= total * 100
      BY <1>4, <2>1, <2>2, <2>3
    <2> QED BY <1>14, <2>4 DEF z
  <1>16. ~(100 < k)
    <2> SUFFICES ASSUME 100 < k PROVE FALSE
      OBVIOUS
    <2> HIDE DEF k
    <2>1. total * 100 + total <= total * k /\ total * k \in Nat
      BY <1>4, <1>13, ProductOrder
    <2> DEFINE x == total * k
    <2>2. total * 100 + total <= x /\ x <= total * 100 /\ x \in Nat
      BY <1>15, <2>1
    <2> HIDE DEF x
    <2> QED BY <1>4, <2>2
  <1> QED BY <1>13, <1>16

-----------------------------------------------------------------------------
(* The BAN.                                                                *)

\* What the BAN needs before it looks at the ports.
EnoughForBan ==
    LET protocol == attack.attack_protocol
    IN  /\ attack.attack_direction = "INCOMING" /\ protocol \in {"TCP", "UDP"}
        /\ Capped(TrueTotal(protocol)) > 0
        /\ Cardinality(Counted(protocol)) >= min_samples

\* min_samples is a weight, so that a count that saturated is large enough.
LEMMA EnoughSamples ==
    ASSUME NEW n \in Nat
    PROVE  Capped(n) < min_samples <=> ~(n >= min_samples)
  BY DominanceAssumption, PortClassifierAssumption DEF Capped, Weights

\* The chain of early returns of the BAN's classifier.
LEMMA BanDecides ==
    ASSUME samples \in Seq(Packets)
    PROVE  LET protocol == attack.attack_protocol
               result == classify_destination_port(attack, samples)
               best == Dominant(Totals(samples, protocol))
               total == Capped(TrueTotal(protocol))
               Selects == /\ EnoughForBan /\ ~best.tied
                          /\ meets_dominance_percent(best.weight, total, dominance_percent)
           IN  /\ Selects => /\ result.selected_destination_port = best.port
                             /\ result.dominance_percent = calculate_dominance_percent(best.weight, total)
               /\ ~Selects => result.selected_destination_port = 0
               /\ EnoughForBan /\ ~Selects =>
                      result.reason \in {"ambiguous_dominant_port", "below_dominance"}
  <1> DEFINE protocol == attack.attack_protocol
             result == classify_destination_port(attack, samples)
             totals == Totals(samples, protocol)
             best == Dominant(totals)
             total == Capped(TrueTotal(protocol))
             Selects == /\ EnoughForBan /\ ~best.tied
                        /\ meets_dominance_percent(best.weight, total, dominance_percent)
  <1>1. /\ totals.total_weight = total /\ total \in Nat
        /\ totals.qualifying_sample_count = Capped(Cardinality(Counted(protocol)))
        /\ Cardinality(Counted(protocol)) \in Nat
        /\ Nothing(totals) <=> total = 0
    <2>1. /\ totals.total_weight = Capped(TrueTotal(protocol)) /\ TrueTotal(protocol) \in Nat
          /\ totals.qualifying_sample_count = Capped(Cardinality(Counted(protocol)))
          /\ Cardinality(Counted(protocol)) \in Nat
          /\ Nothing(totals) <=> totals.total_weight = 0
      BY ReferenceTotals
    <2>2. total \in Nat
      BY <2>1, CappedOrder
    <2> QED BY <2>1, <2>2
  <1>2. totals.qualifying_sample_count < min_samples <=> ~(Cardinality(Counted(protocol)) >= min_samples)
    BY <1>1, EnoughSamples
  <1>3. EnoughForBan <=>
            /\ attack.attack_direction = "INCOMING" /\ protocol \in {"TCP", "UDP"}
            /\ ~Nothing(totals) /\ ~(totals.qualifying_sample_count < min_samples)
    BY <1>1, <1>2 DEF EnoughForBan
  <1>4. \A reason : \A t : \A b : reason # "selected" => Classified(reason, t, b).selected_destination_port = 0
    BY DEF Classified
  <1>5. CASE attack.attack_direction # "INCOMING"
    <2>1. result = Classified("not_incoming", NoSamples, NoDominant)
      BY <1>5 DEF classify_destination_port
    <2>2. result.selected_destination_port = 0
      BY <2>1 DEF Classified
    <2>3. ~Selects /\ ~EnoughForBan
      <3> HIDE DEF totals
      <3> QED BY <1>3, <1>5
    <2> HIDE DEF result, best, totals, Selects
    <2> QED BY <2>2, <2>3 DEF Selects, best, totals, result
  <1>6. CASE attack.attack_direction = "INCOMING" /\ protocol \notin {"TCP", "UDP"}
    <2>1. result = Classified("unsupported_protocol", NoSamples, NoDominant)
      BY <1>6 DEF classify_destination_port
    <2>2. result.selected_destination_port = 0
      BY <2>1 DEF Classified
    <2>3. ~Selects /\ ~EnoughForBan
      <3> HIDE DEF totals
      <3> QED BY <1>3, <1>6
    <2> HIDE DEF result, best, totals, Selects
    <2> QED BY <2>2, <2>3 DEF Selects, best, totals, result
  <1>7. CASE attack.attack_direction = "INCOMING" /\ protocol \in {"TCP", "UDP"} /\ Nothing(totals)
    <2>1. result = Classified("no_qualifying_samples", totals, NoDominant)
      BY <1>7 DEF classify_destination_port
    <2>2. result.selected_destination_port = 0
      BY <2>1 DEF Classified
    <2>3. ~Selects /\ ~EnoughForBan
      <3> HIDE DEF totals
      <3> QED BY <1>3, <1>7
    <2> HIDE DEF result, best, totals, Selects
    <2> QED BY <2>2, <2>3 DEF Selects, best, totals, result
  <1>8. CASE attack.attack_direction = "INCOMING" /\ protocol \in {"TCP", "UDP"} /\ ~Nothing(totals)
    <2> DEFINE reason == IF totals.qualifying_sample_count < min_samples THEN "insufficient_samples"
                         ELSE IF best.tied THEN "ambiguous_dominant_port"
                         ELSE IF ~meets_dominance_percent(best.weight, totals.total_weight, dominance_percent)
                             THEN "below_dominance"
                         ELSE "selected"
    <2>1. result = Classified(reason, totals, best)
      BY <1>8 DEF classify_destination_port
    <2>2. /\ result.selected_destination_port = IF reason = "selected" THEN best.port ELSE 0
          /\ result.dominance_percent = calculate_dominance_percent(best.weight, totals.total_weight)
          /\ result.reason = reason
      <3> HIDE DEF reason, best, totals, result
      <3> QED BY <2>1 DEF Classified
    <2>3. reason = "selected" <=> Selects
      <3> HIDE DEF best, totals, total
      <3> QED BY <1>1, <1>3, <1>8
    <2>4. EnoughForBan => reason \in {"ambiguous_dominant_port", "below_dominance", "selected"}
      <3> HIDE DEF best, totals
      <3> QED BY <1>3
    <2> HIDE DEF result, reason, best, totals, Selects
    <2> QED BY <1>1, <2>2, <2>3, <2>4 DEF Selects, best, totals, result
  <1> HIDE DEF result, best, totals, Selects
  <1> QED BY <1>5, <1>6, <1>7, <1>8 DEF Selects, best, totals, result

\* The port that leads is the port the reference looks for.
LEMMA BestIsChosen ==
    ASSUME samples \in Seq(Packets), EnoughForBan
    PROVE  LET protocol == attack.attack_protocol
               P == PortsSeen(protocol)
               W(port) == Capped(TruePortWeight(protocol, port))
               total == Capped(TrueTotal(protocol))
               best == Dominant(Totals(samples, protocol))
               Chosen == {port \in P : /\ \A q \in P \ {port} : W(q) < W(port)
                                       /\ W(port) * 100 >= total * dominance_percent}
               Selects == ~best.tied /\ meets_dominance_percent(best.weight, total, dominance_percent)
           IN  /\ best.port \in P /\ best.port # 0 /\ best.weight = W(best.port)
               /\ best.weight <= total /\ total \in Nat \ {0} /\ best.weight \in Nat
               /\ \A port \in P : W(port) \in Nat /\ W(port) <= best.weight
               /\ Selects => Chosen = {best.port}
               /\ ~Selects => Chosen = {}
  <1> DEFINE protocol == attack.attack_protocol
             P == PortsSeen(protocol)
             W(port) == Capped(TruePortWeight(protocol, port))
             total == Capped(TrueTotal(protocol))
             totals == Totals(samples, protocol)
             best == Dominant(totals)
             Chosen == {port \in P : /\ \A q \in P \ {port} : W(q) < W(port)
                                     /\ W(port) * 100 >= total * dominance_percent}
             Selects == ~best.tied /\ meets_dominance_percent(best.weight, total, dominance_percent)
  <1>1. /\ totals.total_weight = total /\ TrueTotal(protocol) \in Nat
        /\ P \in SUBSET (Nat \ {0}) /\ IsFiniteSet(P)
        /\ DOMAIN totals.port_weights = P
        /\ \A port \in P : /\ TruePortWeight(protocol, port) \in Nat
                           /\ TruePortWeight(protocol, port) <= TrueTotal(protocol)
                           /\ totals.port_weights[port] = W(port)
        /\ P = {} => totals.total_weight = 0
    BY ReferenceTotals
  <1>2. \A port \in P : W(port) \in Nat /\ W(port) \in Weights /\ W(port) <= total
    BY <1>1, CappedOrder
  <1>3. total \in Nat \ {0} /\ P # {}
    <2>1. total \in Nat /\ total > 0
      BY <1>1, CappedOrder DEF EnoughForBan
    <2> QED BY <1>1, <2>1
  <1> HIDE DEF total, W, P
  <1>4. best \in BestType /\ Leads(best, P, totals.port_weights)
    <2>1. \A port \in P : totals.port_weights[port] \in Weights
      BY <1>1, <1>2
    <2> HIDE DEF totals
    <2> QED BY <1>1, <2>1, DominantLeads
  <1> HIDE DEF best, totals
  <1>5. /\ best.port \in P /\ best.weight = W(best.port)
        /\ \A p \in P : W(p) <= best.weight
        /\ best.tied <=> \E p \in P \ {best.port} : W(p) = best.weight
    <2>1. /\ best.port \in P /\ best.weight = totals.port_weights[best.port]
          /\ \A p \in P : totals.port_weights[p] <= best.weight
          /\ best.tied <=> \E p \in P \ {best.port} : totals.port_weights[p] = best.weight
      BY <1>3, <1>4 DEF Leads
    <2> QED BY <1>1, <2>1
  <1>6. best.port # 0 /\ best.weight <= total /\ best.weight \in Nat
    BY <1>1, <1>2, <1>5
  <1>7. meets_dominance_percent(best.weight, total, dominance_percent)
            <=> best.weight * 100 >= total * dominance_percent
    <2>1. dominance_percent \in Nat
      BY PortClassifierAssumption
    <2> QED BY <1>3, <1>6, <2>1, DominanceExact
  <1>8. \A port \in Chosen : port = best.port
    <2> SUFFICES ASSUME NEW port \in P, port # best.port, W(best.port) < W(port) PROVE FALSE
      BY <1>5
    <2>1. W(port) \in Nat /\ W(best.port) \in Nat /\ W(port) <= W(best.port)
      BY <1>2, <1>5
    <2> DEFINE x == W(port)
               y == W(best.port)
    <2> HIDE DEF x, y
    <2>2. x \in Nat /\ y \in Nat /\ x <= y /\ y < x
      BY <2>1 DEF x, y
    <2> QED BY <2>2
  <1>9. best.port \in Chosen <=> Selects
    <2>1. (\A q \in P \ {best.port} : W(q) < W(best.port)) <=> ~best.tied
      <3>1. ASSUME NEW q \in P PROVE W(q) < W(best.port) <=> W(q) # best.weight
        <4> DEFINE x == W(q)
                   y == W(best.port)
        <4>1. x \in Nat /\ y \in Nat /\ x <= y
          BY <1>2, <1>5
        <4>2. x < y <=> x # y
          <5> HIDE DEF x, y
          <5> QED BY <4>1
        <4> QED BY <1>5, <4>2
      <3> QED BY <1>5, <3>1
    <2> QED BY <1>5, <1>7, <2>1
  <1>10. Selects => Chosen = {best.port}
    BY <1>8, <1>9
  <1>11. ~Selects => Chosen = {}
    BY <1>8, <1>9
  <1> HIDE DEF Chosen, Selects
  <1> QED BY <1>2, <1>3, <1>5, <1>6, <1>10, <1>11 DEF Chosen, Selects, W, P, total, best, totals

\* The BAN classifier on any captured samples is its reference.
LEMMA ClassifierIsReference ==
    ASSUME samples \in Seq(Packets)
    PROVE  ClassifierMatchesReference
  <1> DEFINE protocol == attack.attack_protocol
             result == classify_destination_port(attack, samples)
             P == PortsSeen(protocol)
             W(port) == Capped(TruePortWeight(protocol, port))
             total == Capped(TrueTotal(protocol))
             best == Dominant(Totals(samples, protocol))
             Chosen == {port \in P : /\ \A q \in P \ {port} : W(q) < W(port)
                                     /\ W(port) * 100 >= total * dominance_percent}
             Enough == /\ attack.attack_direction = "INCOMING" /\ protocol \in {"TCP", "UDP"}
                       /\ total > 0
                       /\ Cardinality(Counted(protocol)) >= min_samples
             Selects == ~best.tied /\ meets_dominance_percent(best.weight, total, dominance_percent)
             selected == result.selected_destination_port
             Goal == /\ selected # 0 <=> Enough /\ Chosen # {}
                     /\ selected # 0 => /\ Chosen = {selected}
                                        /\ result.dominance_percent = (W(selected) * 100) \div total
  <1>1. ClassifierMatchesReference <=> Goal
    BY DEF ClassifierMatchesReference
  <1>2. Enough <=> EnoughForBan
    BY DEF EnoughForBan
  <1>3. /\ Enough /\ Selects => /\ selected = best.port
                                /\ result.dominance_percent = calculate_dominance_percent(best.weight, total)
        /\ ~(Enough /\ Selects) => selected = 0
    BY <1>2, BanDecides
  <1>4. Enough => /\ best.port \in P /\ best.port # 0 /\ best.weight = W(best.port)
                  /\ best.weight <= total /\ total \in Nat \ {0} /\ best.weight \in Nat
                  /\ Selects => Chosen = {best.port}
                  /\ ~Selects => Chosen = {}
    BY <1>2, BestIsChosen
  <1> HIDE DEF Enough, Selects, Chosen, best, W, total, P, result
  <1>5. CASE Enough /\ Selects
    <2>1. result.dominance_percent = (best.weight * 100) \div total
      BY <1>3, <1>4, <1>5, PercentIsFloor
    <2> QED BY <1>1, <1>3, <1>4, <1>5, <2>1
  <1>6. CASE ~(Enough /\ Selects)
    BY <1>1, <1>3, <1>4, <1>6
  <1> QED BY <1>5, <1>6

\* The ports of one protocol a refresh with some share announces.
LEMMA RefreshDecides ==
    ASSUME samples \in Seq(Packets), NEW protocol, NEW share \in Nat
    PROVE  LET ports == classify_refresh_protocol(protocol, samples, share)
               total == Capped(TrueTotal(protocol))
           IN  \A port : port \in ports <=>
                   /\ protocol \in {"TCP", "UDP"} /\ total > 0
                   /\ Cardinality(Counted(protocol)) >= min_samples
                   /\ port \in PortsSeen(protocol)
                   /\ Capped(TruePortWeight(protocol, port)) * 100 >= total * share
  <1> DEFINE ports == classify_refresh_protocol(protocol, samples, share)
             totals == Totals(samples, protocol)
             total == Capped(TrueTotal(protocol))
             P == PortsSeen(protocol)
             W(port) == Capped(TruePortWeight(protocol, port))
             count == Cardinality(Counted(protocol))
  <1>1. /\ totals.total_weight = total /\ TrueTotal(protocol) \in Nat
        /\ totals.qualifying_sample_count = Capped(count) /\ count \in Nat
        /\ DOMAIN totals.port_weights = P
        /\ \A port \in P : TruePortWeight(protocol, port) \in Nat /\ totals.port_weights[port] = W(port)
        /\ Nothing(totals) <=> totals.total_weight = 0
    BY ReferenceTotals
  <1>2. total \in Nat /\ \A port \in P : W(port) \in Nat
    BY <1>1, CappedOrder
  <1>3. totals.qualifying_sample_count < min_samples <=> ~(count >= min_samples)
    BY <1>1, EnoughSamples
  <1>4. ports = IF \/ protocol \notin {"TCP", "UDP"} \/ Nothing(totals)
                   \/ totals.qualifying_sample_count < min_samples
                THEN {} ELSE SignificantPorts(totals, share)
    BY DEF classify_refresh_protocol
  <1> HIDE DEF ports, totals, total, W, P, count
  <1>5. \A port : port \in SignificantPorts(totals, share) <=>
           port \in P /\ meets_dominance_percent(W(port), total, share)
    BY <1>1 DEF SignificantPorts
  <1>6. ASSUME NEW port
        PROVE  port \in ports <=> /\ protocol \in {"TCP", "UDP"} /\ total > 0
                                  /\ count >= min_samples /\ port \in P
                                  /\ W(port) * 100 >= total * share
    <2>1. CASE total = 0
      BY <1>1, <1>4, <2>1
    <2>2. CASE total # 0
      <3>1. total \in Nat \ {0} /\ total > 0
        BY <1>2, <2>2
      <3>2. port \in P => (meets_dominance_percent(W(port), total, share) <=> W(port) * 100 >= total * share)
        BY <1>2, <3>1, DominanceExact
      <3> QED BY <1>1, <1>3, <1>4, <1>5, <2>2, <3>1, <3>2
    <2> QED BY <2>1, <2>2
  <1> QED BY <1>6 DEF ports, total, P, W, count

\* Ports a refresh finds carry their share, so there are few of them.
LEMMA RefreshCarriesShares ==
    ASSUME samples \in Seq(Packets)
    PROVE  RefreshPortsCarryTheirShare
  <1> SUFFICES ASSUME NEW protocol \in active_protocols, Unsaturated(protocol)
               PROVE  LET ports == classify_refresh_protocols(samples, min_share_percent)[protocol]
                      IN  /\ \A port \in ports :
                                 TruePortWeight(protocol, port) * 100 >= TrueTotal(protocol) * min_share_percent
                          /\ Cardinality(ports) * min_share_percent <= 100
    BY DEF RefreshPortsCarryTheirShare
  <1> DEFINE ports == classify_refresh_protocol(protocol, samples, min_share_percent)
             total == TrueTotal(protocol)
             w(port) == TruePortWeight(protocol, port)
  <1>1. classify_refresh_protocols(samples, min_share_percent)[protocol] = ports
    BY DEF classify_refresh_protocols
  <1>2. min_share_percent \in Nat
    BY PortClassifierAssumption
  <1>3. total \in Nat /\ \A port \in PortsSeen(protocol) : w(port) \in Nat /\ w(port) <= total
    BY ReferenceTotals
  <1>4. total <= MaxWeight /\ MaxWeight \in Nat
    BY DominanceAssumption DEF Unsaturated
  <1> HIDE DEF total, w
  <1>5. Capped(total) = total
    BY <1>3, <1>4, CappedOrder
  <1>6. \A port \in PortsSeen(protocol) : Capped(w(port)) = w(port)
    <2> SUFFICES ASSUME NEW port \in PortsSeen(protocol) PROVE Capped(w(port)) = w(port)
      OBVIOUS
    <2>1. w(port) \in Nat /\ w(port) <= MaxWeight
      BY <1>3, <1>4
    <2> QED BY <2>1, CappedOrder
  <1>7. \A port \in ports : /\ port \in PortsSeen(protocol) /\ Capped(total) > 0
                            /\ Capped(w(port)) * 100 >= Capped(total) * min_share_percent
    BY <1>2, RefreshDecides DEF total, w
  <1>8. \A port \in ports : port \in PortsSeen(protocol) /\ total > 0 /\ w(port) * 100 >= total * min_share_percent
    BY <1>5, <1>6, <1>7
  <1>9. Cardinality(ports) * min_share_percent <= 100
    <2>1. CASE ports = {}
      <3>1. Cardinality(ports) = 0
        BY <2>1, FS_EmptySet
      <3> QED BY <1>2, <3>1
    <2>2. CASE ports # {}
      <3>1. total > 0 /\ ports \in SUBSET PortsSeen(protocol)
        BY <1>8, <2>2
      <3> HIDE DEF ports
      <3> QED BY <1>2, <1>8, <3>1, FewShares DEF total, w
    <2> QED BY <2>1, <2>2
  <1> QED BY <1>1, <1>8, <1>9 DEF total, w

\* Of one capture BAN and refresh find the same port.
LEMMA BanAgreesWithRefresh ==
    ASSUME samples \in Seq(Packets)
    PROVE  BanAndRefreshAgree
  <1> DEFINE protocol == attack.attack_protocol
             result == classify_destination_port(attack, samples)
             selected == result.selected_destination_port
             ports == classify_refresh_protocol(protocol, samples, min_share_percent)
             W(port) == Capped(TruePortWeight(protocol, port))
             P == PortsSeen(protocol)
             total == Capped(TrueTotal(protocol))
             best == Dominant(Totals(samples, protocol))
             Selects == ~best.tied /\ meets_dominance_percent(best.weight, total, dominance_percent)
  <1> SUFFICES ASSUME attack.attack_direction = "INCOMING", protocol \in active_protocols \cap {"TCP", "UDP"}
               PROVE  /\ selected # 0 /\ (ports # {} \/ min_share_percent <= dominance_percent) =>
                             selected \in ports
                      /\ selected = 0 /\ ports # {} =>
                             result.reason \in {"ambiguous_dominant_port", "below_dominance"}
    <2>1. protocol \in active_protocols => classify_refresh_protocols(samples, min_share_percent)[protocol] = ports
      BY DEF classify_refresh_protocols
    <2> HIDE DEF selected, result, ports
    <2> QED BY <2>1 DEF BanAndRefreshAgree, selected, result
  <1>1. \A port : port \in ports <=> /\ EnoughForBan /\ port \in P
                                     /\ W(port) * 100 >= total * min_share_percent
    <2>1. min_share_percent \in Nat
      BY PortClassifierAssumption
    <2> QED BY <2>1, RefreshDecides DEF EnoughForBan
  <1>2. /\ EnoughForBan /\ Selects => selected = best.port
        /\ ~(EnoughForBan /\ Selects) => selected = 0
        /\ EnoughForBan /\ ~Selects => result.reason \in {"ambiguous_dominant_port", "below_dominance"}
    BY BanDecides
  <1>3. EnoughForBan => /\ best.port \in P /\ best.port # 0
                        /\ best.weight = W(best.port) /\ best.weight \in Nat
                        /\ total \in Nat \ {0} /\ best.weight <= total
                        /\ \A port \in P : W(port) \in Nat /\ W(port) <= best.weight
    BY BestIsChosen
  <1> HIDE DEF selected, result, best, ports, W, total, P
  <1>4. selected # 0 => EnoughForBan /\ Selects /\ selected = best.port
    BY <1>2
  <1>5. ASSUME selected # 0, NEW port \in ports PROVE selected \in ports
    <2>1. EnoughForBan /\ port \in P /\ W(port) * 100 >= total * min_share_percent
      BY <1>1, <1>5
    <2>2. W(port) \in Nat /\ W(port) <= W(best.port) /\ W(best.port) \in Nat
      BY <1>3, <2>1
    <2> DEFINE x == W(port)
               y == W(best.port)
               z == total * min_share_percent
    <2>3. x \in Nat /\ y \in Nat /\ x <= y /\ x * 100 >= z /\ z \in Nat
      BY <1>3, <2>1, <2>2, PortClassifierAssumption, ProductOrder
    <2> HIDE DEF x, y, z
    <2>4. y * 100 >= z
      BY <2>3
    <2> QED BY <1>1, <1>3, <1>4, <1>5, <2>1, <2>4 DEF y, z
  <1>6. ASSUME selected # 0, min_share_percent <= dominance_percent PROVE selected \in ports
    <2>1. EnoughForBan /\ selected = best.port /\ meets_dominance_percent(best.weight, total, dominance_percent)
      BY <1>4, <1>6
    <2>2. /\ dominance_percent \in Nat /\ min_share_percent \in Nat
          /\ total \in Nat \ {0} /\ best.weight \in Nat /\ best.weight = W(best.port)
          /\ best.port \in P
      BY <1>3, <2>1, PortClassifierAssumption
    <2>3. best.weight * 100 >= total * dominance_percent
      BY <2>1, <2>2, DominanceExact
    <2>4. total * min_share_percent <= total * dominance_percent
      BY <1>6, <2>2, ProductOrder
    <2> DEFINE x == best.weight * 100
               y == total * dominance_percent
               z == total * min_share_percent
    <2>5. x >= y /\ z <= y /\ x \in Nat /\ y \in Nat /\ z \in Nat
      BY <2>2, <2>3, <2>4, ProductOrder
    <2> HIDE DEF x, y, z
    <2>6. x >= z
      BY <2>5
    <2> QED BY <1>1, <2>1, <2>2, <2>6 DEF x, z
  <1>7. ASSUME selected = 0, NEW port \in ports
        PROVE  result.reason \in {"ambiguous_dominant_port", "below_dominance"}
    <2>1. EnoughForBan
      BY <1>1, <1>7
    <2> QED BY <1>2, <1>3, <1>7, <2>1
  <1> HIDE DEF Selects, protocol
  <1> QED BY <1>5, <1>6, <1>7

-----------------------------------------------------------------------------
(* The capture.                                                            *)

\* The buffer holds packets that were captured.
CaptureInv == samples \in Seq(Packets)

(***************************************************************************)
(* add_packet_to_storage stores packets and ClassifyCapture empties the    *)
(* buffer.                                                                 *)
(***************************************************************************)
LEMMA CaptureInvariant == RulesSpec => []CaptureInv
  <1>1. RulesInit => CaptureInv
    <2>1. RulesInit => samples = << >>
      BY DEF RulesInit, Init, NoCapture
    <2>2. << >> \in Seq(Packets)
      OBVIOUS
    <2> QED BY <2>1, <2>2 DEF CaptureInv
  <1>2. CaptureInv /\ [RulesNext]_rulesVars => CaptureInv'
    <2> SUFFICES ASSUME CaptureInv, [RulesNext]_rulesVars PROVE CaptureInv'
      OBVIOUS
    <2>1. CASE UNCHANGED samples
      BY <2>1 DEF CaptureInv
    <2>2. ASSUME NEW packet \in Packets, add_packet_to_storage(packet) PROVE CaptureInv'
      BY <2>2 DEF CaptureInv, add_packet_to_storage
    <2>3. CASE ClassifyCapture
      BY <2>3 DEF CaptureInv, ClassifyCapture
    <2>4. CASE AnnounceCapture
      BY <2>1, <2>4 DEF AnnounceCapture, vars
    <2>5. CASE CaptureNext
      BY <2>1, <2>2, <2>3, <2>4, <2>5 DEF CaptureNext, vars
    <2>6. CASE UNCHANGED vars
      BY <2>1, <2>6 DEF vars
    <2> QED BY <2>5, <2>6 DEF RulesNext, rulesVars
  <1> QED BY <1>1, <1>2, PTL DEF RulesSpec

(***************************************************************************)
(* For every capture, every order of its packets and every width of the    *)
(* weights, classify_gobgp_flowspec_destination_port selects the port its  *)
(* specification over unbounded sums selects, or none, and reports its     *)
(* share rounded down.                                                     *)
(***************************************************************************)
THEOREM BanSelectsTheReference == RulesSpec => []ClassifierMatchesReference
  <1>1. CaptureInv => ClassifierMatchesReference
    BY ClassifierIsReference DEF CaptureInv
  <1> QED BY <1>1, CaptureInvariant, PTL

(***************************************************************************)
(* classify_gobgp_flowspec_refresh_protocols keeps a port only if it       *)
(* carries min_share_percent of the true weight, so that at most 100 \div  *)
(* min_share_percent ports of a protocol come out of a capture.            *)
(***************************************************************************)
THEOREM RefreshIsFair == RulesSpec => []RefreshPortsCarryTheirShare
  <1>1. CaptureInv => RefreshPortsCarryTheirShare
    BY RefreshCarriesShares DEF CaptureInv
  <1> QED BY <1>1, CaptureInvariant, PTL

(***************************************************************************)
(* For every capture and every pair of thresholds: when a refresh finds    *)
(* ports in the samples a BAN selects a port from, it finds that port too, *)
(* and it finds it for certain when min_share_percent is at most           *)
(* dominance_percent; it finds ports where the BAN selects none only for a *)
(* tie or a share below dominance_percent.                                 *)
(***************************************************************************)
THEOREM RefreshKeepsTheBansPort == RulesSpec => []BanAndRefreshAgree
  <1>1. CaptureInv => BanAndRefreshAgree
    BY BanAgreesWithRefresh DEF CaptureInv
  <1> QED BY <1>1, CaptureInvariant, PTL

-----------------------------------------------------------------------------
(* Masks and bits.                                                         *)

\* The first k bits of an octet, as a number, and its bit k.
Upper(x, k) == x \div 2 ^ (8 - k)
BitOf(x, k) == Upper(x, k) % 2

\* The powers of two an octet is split with.
LEMMA Powers ==
    /\ 2 ^ 0 = 1 /\ 2 ^ 1 = 2 /\ 2 ^ 2 = 4 /\ 2 ^ 3 = 8 /\ 2 ^ 4 = 16
    /\ 2 ^ 5 = 32 /\ 2 ^ 6 = 64 /\ 2 ^ 7 = 128 /\ 2 ^ 8 = 256
  OBVIOUS

\* Each of them is twice the next one.
LEMMA PowersDown ==
    /\ 2 ^ (8 - 0) = 256 /\ 2 ^ (8 - 1) = 128 /\ 2 ^ (8 - 2) = 64 /\ 2 ^ (8 - 3) = 32
    /\ 2 ^ (8 - 4) = 16 /\ 2 ^ (8 - 5) = 8 /\ 2 ^ (8 - 6) = 4 /\ 2 ^ (8 - 7) = 2
    /\ 2 ^ (8 - 8) = 1
  BY Powers

\* One more bit.
LEMMA UpperStep ==
    ASSUME NEW x \in 0 .. 255, NEW k \in 0 .. 7
    PROVE  /\ Upper(x, k) \in Nat /\ Upper(x, k + 1) \in Nat /\ BitOf(x, k + 1) \in {0, 1}
           /\ Upper(x, k + 1) = 2 * Upper(x, k) + BitOf(x, k + 1)
  <1>1. x \in Nat /\ x < 256 /\ k \in Nat
    OBVIOUS
  <1>2. \/ k = 0 \/ k = 1 \/ k = 2 \/ k = 3 \/ k = 4 \/ k = 5 \/ k = 6 \/ k = 7
    OBVIOUS
  <1>a. CASE k = 0
    <2>1. Upper(x, k) = x \div 256 /\ Upper(x, k + 1) = x \div 128
      BY <1>a, PowersDown DEF Upper
    <2> QED BY <1>1, <2>1 DEF BitOf
  <1>b. CASE k = 1
    <2>1. Upper(x, k) = x \div 128 /\ Upper(x, k + 1) = x \div 64
      BY <1>b, PowersDown DEF Upper
    <2> QED BY <1>1, <2>1 DEF BitOf
  <1>c. CASE k = 2
    <2>1. Upper(x, k) = x \div 64 /\ Upper(x, k + 1) = x \div 32
      BY <1>c, PowersDown DEF Upper
    <2> QED BY <1>1, <2>1 DEF BitOf
  <1>d. CASE k = 3
    <2>1. Upper(x, k) = x \div 32 /\ Upper(x, k + 1) = x \div 16
      BY <1>d, PowersDown DEF Upper
    <2> QED BY <1>1, <2>1 DEF BitOf
  <1>e. CASE k = 4
    <2>1. Upper(x, k) = x \div 16 /\ Upper(x, k + 1) = x \div 8
      BY <1>e, PowersDown DEF Upper
    <2> QED BY <1>1, <2>1 DEF BitOf
  <1>f. CASE k = 5
    <2>1. Upper(x, k) = x \div 8 /\ Upper(x, k + 1) = x \div 4
      BY <1>f, PowersDown DEF Upper
    <2> QED BY <1>1, <2>1 DEF BitOf
  <1>g. CASE k = 6
    <2>1. Upper(x, k) = x \div 4 /\ Upper(x, k + 1) = x \div 2
      BY <1>g, PowersDown DEF Upper
    <2> QED BY <1>1, <2>1 DEF BitOf
  <1>h. CASE k = 7
    <2>1. Upper(x, k) = x \div 2 /\ Upper(x, k + 1) = x \div 1
      BY <1>h, PowersDown DEF Upper
    <2> QED BY <1>1, <2>1 DEF BitOf
  <1> QED BY <1>2, <1>a, <1>b, <1>c, <1>d, <1>e, <1>f, <1>g, <1>h

\* Two octets have the same first k bits.
LEMMA UpperBits ==
    ASSUME NEW x \in 0 .. 255, NEW y \in 0 .. 255, NEW k \in 0 .. 8
    PROVE  Upper(x, k) = Upper(y, k) <=> \A j \in 1 .. k : BitOf(x, j) = BitOf(y, j)
  <1> DEFINE P(n) == Upper(x, n) = Upper(y, n) <=> \A j \in 1 .. n : BitOf(x, j) = BitOf(y, j)
  <1>1. P(0)
    <2>1. Upper(x, 0) = x \div 256 /\ Upper(y, 0) = y \div 256
      BY PowersDown DEF Upper
    <2>2. Upper(x, 0) = 0 /\ Upper(y, 0) = 0
      BY <2>1
    <2> QED BY <2>2
  <1>2. ASSUME NEW n \in 0 .. 7, P(n) PROVE P(n + 1)
    <2>1. Upper(x, n + 1) = Upper(y, n + 1) <=> Upper(x, n) = Upper(y, n) /\ BitOf(x, n + 1) = BitOf(y, n + 1)
      <3>1. /\ Upper(x, n) \in Nat /\ Upper(x, n + 1) \in Nat /\ BitOf(x, n + 1) \in {0, 1}
            /\ Upper(x, n + 1) = 2 * Upper(x, n) + BitOf(x, n + 1)
        BY UpperStep
      <3>2. /\ Upper(y, n) \in Nat /\ Upper(y, n + 1) \in Nat /\ BitOf(y, n + 1) \in {0, 1}
            /\ Upper(y, n + 1) = 2 * Upper(y, n) + BitOf(y, n + 1)
        BY UpperStep
      <3> QED BY <3>1, <3>2
    <2>2. (\A j \in 1 .. n + 1 : BitOf(x, j) = BitOf(y, j)) <=>
             (\A j \in 1 .. n : BitOf(x, j) = BitOf(y, j)) /\ BitOf(x, n + 1) = BitOf(y, n + 1)
      <3>1. \A j : j \in 1 .. n + 1 <=> j \in 1 .. n \/ j = n + 1
        OBVIOUS
      <3> QED BY <3>1
    <2> QED BY <1>2, <2>1, <2>2
  <1> HIDE DEF P
  <1>3. P(1)
    BY <1>1, <1>2
  <1>4. P(2)
    BY <1>2, <1>3
  <1>5. P(3)
    BY <1>2, <1>4
  <1>6. P(4)
    BY <1>2, <1>5
  <1>7. P(5)
    BY <1>2, <1>6
  <1>8. P(6)
    BY <1>2, <1>7
  <1>9. P(7)
    BY <1>2, <1>8
  <1>10. P(8)
    BY <1>2, <1>9
  <1>11. P(k)
    <2>1. k = 0 \/ k = 1 \/ k = 2 \/ k = 3 \/ k = 4 \/ k = 5 \/ k = 6 \/ k = 7 \/ k = 8
      OBVIOUS
    <2> QED BY <2>1, <1>1, <1>3, <1>4, <1>5, <1>6, <1>7, <1>8, <1>9, <1>10
  <1> QED BY <1>11 DEF P

\* Clearing the other bits of two octets compares the first k.
LEMMA UpperMask ==
    ASSUME NEW x \in 0 .. 255, NEW y \in 0 .. 255, NEW k \in 0 .. 8
    PROVE  x - (x % 2 ^ (8 - k)) = y - (y % 2 ^ (8 - k)) <=> Upper(x, k) = Upper(y, k)
  <1> DEFINE m == 2 ^ (8 - k)
  <1>1. m \in {1, 2, 4, 8, 16, 32, 64, 128, 256}
    <2>1. k = 0 \/ k = 1 \/ k = 2 \/ k = 3 \/ k = 4 \/ k = 5 \/ k = 6 \/ k = 7 \/ k = 8
      OBVIOUS
    <2>2. CASE k = 0
      <3>1. m = 256
        BY <2>2, PowersDown
      <3> QED BY <3>1
    <2>3. CASE k = 1
      <3>1. m = 128
        BY <2>3, PowersDown
      <3> QED BY <3>1
    <2>4. CASE k = 2
      <3>1. m = 64
        BY <2>4, PowersDown
      <3> QED BY <3>1
    <2>5. CASE k = 3
      <3>1. m = 32
        BY <2>5, PowersDown
      <3> QED BY <3>1
    <2>6. CASE k = 4
      <3>1. m = 16
        BY <2>6, PowersDown
      <3> QED BY <3>1
    <2>7. CASE k = 5
      <3>1. m = 8
        BY <2>7, PowersDown
      <3> QED BY <3>1
    <2>8. CASE k = 6
      <3>1. m = 4
        BY <2>8, PowersDown
      <3> QED BY <3>1
    <2>9. CASE k = 7
      <3>1. m = 2
        BY <2>9, PowersDown
      <3> QED BY <3>1
    <2>10. CASE k = 8
      <3>1. m = 1
        BY <2>10, PowersDown
      <3> QED BY <3>1
    <2> QED BY <2>1, <2>2, <2>3, <2>4, <2>5, <2>6, <2>7, <2>8, <2>9, <2>10
  <1>2. Upper(x, k) = x \div m /\ Upper(y, k) = y \div m
    BY DEF Upper
  <1> HIDE DEF m
  <1>3. x - (x % m) = y - (y % m) <=> x \div m = y \div m
    BY <1>1
  <1> QED BY <1>2, <1>3 DEF m

(***************************************************************************)
(* Addresses of any number of octets: the masks of                         *)
(* lookup_tree_32bit_t compare what bit by bit comparison compares.        *)
(***************************************************************************)
LEMMA MaskedBits ==
    ASSUME NEW n \in Nat, NEW a \in Octets(n), NEW prefix,
           prefix.subnet_address \in Octets(n), prefix.cidr_prefix_length \in 0 .. 8 * n
    PROVE  Masked(a, prefix.cidr_prefix_length) = Masked(prefix.subnet_address, prefix.cidr_prefix_length)
               <=> Agree(a, prefix)
  <1> DEFINE length == prefix.cidr_prefix_length
             c == prefix.subnet_address
             kept(i) == IF length >= 8 * i THEN 8 ELSE IF length <= 8 * (i - 1) THEN 0
                        ELSE length - 8 * (i - 1)
             clear(o, i) == o[i] - (o[i] % 2 ^ (8 - kept(i)))
             bit(o, b) == (o[((b - 1) \div 8) + 1] \div 2 ^ (7 - ((b - 1) % 8))) % 2
  <1>1. /\ DOMAIN a = 1 .. n /\ DOMAIN c = 1 .. n
        /\ \A i \in 1 .. n : a[i] \in 0 .. 255 /\ c[i] \in 0 .. 255
        /\ length \in Nat /\ length <= 8 * n
    <2>1. \A o \in Octets(n) : DOMAIN o = 1 .. n /\ \A i \in 1 .. n : o[i] \in 0 .. 255
      BY DEF Octets
    <2>2. a \in Octets(n) /\ c \in Octets(n) /\ length \in 0 .. 8 * n
      OBVIOUS
    <2> HIDE DEF length, c
    <2>3. length \in Nat /\ length <= 8 * n
      BY <2>2
    <2> QED BY <2>1, <2>2, <2>3
  <1>2. Masked(a, length) = Masked(c, length) <=> \A i \in 1 .. n : clear(a, i) = clear(c, i)
    <2>1. Masked(a, length) = [i \in 1 .. n |-> clear(a, i)] /\ Masked(c, length) = [i \in 1 .. n |-> clear(c, i)]
      BY <1>1 DEF Masked
    <2> HIDE DEF clear
    <2>2. [i \in 1 .. n |-> clear(a, i)] = [i \in 1 .. n |-> clear(c, i)] <=> \A i \in 1 .. n : clear(a, i) = clear(c, i)
      <3> DEFINE f == [i \in 1 .. n |-> clear(a, i)]
                 g == [i \in 1 .. n |-> clear(c, i)]
      <3>1. \A i \in 1 .. n : f[i] = clear(a, i) /\ g[i] = clear(c, i)
        OBVIOUS
      <3>2. f = g <=> \A i \in 1 .. n : f[i] = g[i]
        OBVIOUS
      <3> QED BY <3>1, <3>2
    <2> QED BY <2>1, <2>2
  <1> HIDE DEF length, c
  <1>3. \A i \in 1 .. n : kept(i) \in 0 .. 8
    BY <1>1
  <1>4. ASSUME NEW i \in 1 .. n
        PROVE  clear(a, i) = clear(c, i) <=> \A j \in 1 .. kept(i) : BitOf(a[i], j) = BitOf(c[i], j)
    <2>1. a[i] \in 0 .. 255 /\ c[i] \in 0 .. 255 /\ kept(i) \in 0 .. 8
      BY <1>1, <1>3
    <2> HIDE DEF kept
    <2>2. clear(a, i) = clear(c, i) <=> Upper(a[i], kept(i)) = Upper(c[i], kept(i))
      BY <2>1, UpperMask
    <2>3. Upper(a[i], kept(i)) = Upper(c[i], kept(i)) <=> \A j \in 1 .. kept(i) : BitOf(a[i], j) = BitOf(c[i], j)
      BY <2>1, UpperBits
    <2> QED BY <2>2, <2>3
  <1>5. ASSUME NEW b \in 1 .. length
        PROVE  \E i \in 1 .. n : \E j \in 1 .. kept(i) :
                  \A o : bit(o, b) = BitOf(o[i], j)
    <2> DEFINE i == ((b - 1) \div 8) + 1
               j == ((b - 1) % 8) + 1
    <2>1. i \in 1 .. n /\ j \in 1 .. kept(i) /\ 7 - ((b - 1) % 8) = 8 - j
      <3> DEFINE q == (b - 1) \div 8
                 r == (b - 1) % 8
      <3>1. q \in Nat /\ r \in 0 .. 7 /\ b - 1 = 8 * q + r
        <4>1. b - 1 \in Nat
          BY <1>1
        <4>2. \A x \in Nat : x \div 8 \in Nat /\ x % 8 \in 0 .. 7 /\ x = 8 * (x \div 8) + (x % 8)
          OBVIOUS
        <4> QED BY <4>1, <4>2
      <3> HIDE DEF q, r
      <3>2. 8 * q + r + 1 <= length
        BY <1>1, <3>1
      <3>3. r + 1 <= kept(q + 1)
        BY <1>1, <3>1, <3>2
      <3>5. q + 1 \in 1 .. n /\ r + 1 \in 1 .. 8
        BY <1>1, <3>1, <3>2
      <3>4. r + 1 \in 1 .. kept(q + 1)
        <4>1. kept(q + 1) \in 0 .. 8
          BY <1>3, <3>5
        <4> HIDE DEF kept
        <4> QED BY <3>1, <3>3, <4>1
      <3> QED BY <3>1, <3>4, <3>5 DEF q, r
    <2>2. \A o : bit(o, b) = BitOf(o[i], j)
      BY <2>1 DEF BitOf, Upper
    <2> QED BY <2>1, <2>2
  <1>6. ASSUME NEW i \in 1 .. n, NEW j \in 1 .. kept(i)
        PROVE  \E b \in 1 .. length : \A o : bit(o, b) = BitOf(o[i], j)
    <2> DEFINE b == 8 * (i - 1) + j
    <2>1. j \in 1 .. 8 /\ j <= kept(i)
      BY <1>3
    <2>2. b \in 1 .. length
      BY <1>1, <2>1
    <2>3. ((b - 1) \div 8) + 1 = i /\ 7 - ((b - 1) % 8) = 8 - j
      BY <2>1
    <2>4. \A o : bit(o, b) = BitOf(o[i], j)
      BY <2>3 DEF BitOf, Upper
    <2> QED BY <2>2, <2>4
  <1> HIDE DEF kept, bit
  <1>7. (\A i \in 1 .. n : \A j \in 1 .. kept(i) : BitOf(a[i], j) = BitOf(c[i], j))
            <=> \A b \in 1 .. length : bit(a, b) = bit(c, b)
    <2>1. ASSUME \A i \in 1 .. n : \A j \in 1 .. kept(i) : BitOf(a[i], j) = BitOf(c[i], j),
                 NEW b \in 1 .. length
          PROVE  bit(a, b) = bit(c, b)
      BY <1>5, <2>1
    <2>2. ASSUME \A b \in 1 .. length : bit(a, b) = bit(c, b),
                 NEW i \in 1 .. n, NEW j \in 1 .. kept(i)
          PROVE  BitOf(a[i], j) = BitOf(c[i], j)
      BY <1>6, <2>2
    <2> QED BY <2>1, <2>2
  <1>8. Agree(a, prefix) <=> \A b \in 1 .. length : bit(a, b) = bit(c, b)
    BY DEF Agree, bit, length, c
  <1> HIDE DEF clear
  <1>9. Masked(a, length) = Masked(c, length) <=> Agree(a, prefix)
    BY <1>2, <1>4, <1>7, <1>8
  <1> QED BY <1>9 DEF length, c

\* With no bit cleared the octets themselves are compared.
LEMMA HostBits ==
    ASSUME NEW n \in Nat, NEW a \in Octets(n), NEW prefix,
           prefix.subnet_address \in Octets(n), prefix.cidr_prefix_length = 8 * n
    PROVE  a = prefix.subnet_address <=> Agree(a, prefix)
  <1> DEFINE c == prefix.subnet_address
  <1>1. \A o \in Octets(n) : Masked(o, 8 * n) = o
    <2> SUFFICES ASSUME NEW o \in Octets(n) PROVE Masked(o, 8 * n) = o
      OBVIOUS
    <2>1. DOMAIN o = 1 .. n /\ \A i \in 1 .. n : o[i] \in 0 .. 255
      BY DEF Octets
    <2>2. ASSUME NEW i \in 1 .. n
          PROVE  LET kept == IF 8 * n >= 8 * i THEN 8 ELSE IF 8 * n <= 8 * (i - 1) THEN 0
                             ELSE 8 * n - 8 * (i - 1)
                 IN  o[i] - (o[i] % 2 ^ (8 - kept)) = o[i]
      <3>1. 8 * n >= 8 * i
        OBVIOUS
      <3>2. o[i] - (o[i] % 2 ^ (8 - 8)) = o[i]
        <4>1. 2 ^ (8 - 8) = 1
          BY PowersDown
        <4>2. \A x \in 0 .. 255 : x - (x % 1) = x
          OBVIOUS
        <4> QED BY <2>1, <4>1, <4>2
      <3> QED BY <3>1, <3>2
    <2>3. Masked(o, 8 * n) = [i \in 1 .. n |-> o[i]]
      BY <2>1, <2>2 DEF Masked
    <2>4. o = [i \in 1 .. n |-> o[i]]
      BY DEF Octets
    <2> QED BY <2>3, <2>4
  <1>2. Masked(a, 8 * n) = Masked(prefix.subnet_address, 8 * n) <=> Agree(a, prefix)
    BY MaskedBits
  <1> QED BY <1>1, <1>2

-----------------------------------------------------------------------------
(* Reading and printing a rule of the whitelist.                           *)

(***************************************************************************)
(* The lists of a document: the vectors among its keys are no prefixes, no *)
(* subnets and no action.                                                  *)
(***************************************************************************)
LEMMA FieldNames ==
    /\ VectorFields \cap (PrefixKeys \cup SubnetFields \cup {"action", "action_type"}) = {}
    /\ SubnetFields \cap (PrefixKeys \cup {"action", "action_type"}) = {}
    /\ "protocols" \in VectorFields /\ "tcp_flags" \in VectorFields
  BY DEF VectorFields, PrefixKeys, SubnetFields

\* The fields of flow_spec_rule_t.
LEMMA RuleDomain == DOMAIN EmptyRule = SubnetFields \cup VectorFields \cup {"action"}
  BY DEF EmptyRule

\* The text of an enumerator names that enumerator again.
LEMMA FragmentNamed ==
    ASSUME NEW v \in {fragment_name[t] : t \in DOMAIN fragment_name}
    PROVE  /\ Named(fragment_name, v) \in DOMAIN fragment_name
           /\ fragment_name[Named(fragment_name, v)] = v
  BY DEF Named

\* A TCP flag is read from the name it is printed as.
LEMMA FlagNamed ==
    ASSUME NEW v \in {flag_name[t] : t \in DOMAIN flag_name}
    PROVE  /\ Named(flag_name, v) \in DOMAIN flag_name
           /\ flag_name[Named(flag_name, v)] = v
  BY DEF Named

\* The action of a whitelist rule is read from the name it is printed as.
LEMMA AcceptNamed == Named(action_name, "accept") = "FLOW_SPEC_ACTION_ACCEPT"
  <1>1. \E e \in DOMAIN action_name : action_name[e] = "accept"
    BY DEF action_name
  <1>2. \A e \in DOMAIN action_name : action_name[e] = "accept" => e = "FLOW_SPEC_ACTION_ACCEPT"
    BY DEF action_name
  <1> QED BY <1>1, <1>2 DEF Named

\* A set of TCP flags is read back from its names.
LEMMA FlagsReadBack ==
    ASSUME NEW v, v \subseteq {flag_name[t] : t \in DOMAIN flag_name}
    PROVE  {flag_name[flag] : flag \in {Named(flag_name, word) : word \in v}} = v
  BY FlagNamed

\* An element that can be read is printed as something that can be read, as the same value.
LEMMA ElementReadsBack ==
    ASSUME NEW key \in VectorFields, NEW v \in Elements(key), Readable(key, v)
    PROVE  LET t == Text(key, Stored(key, v))
           IN  /\ t \in Elements(key)
               /\ Readable(key, t)
               /\ Stored(key, t) = Stored(key, v)
  <1>1. CASE key = "protocols"
    <2>1. PICK n \in 0 .. 255 : v = <<"name", n>>
      BY <1>1 DEF Readable, ProtocolNames, get_ip_protocol_name
    <2> QED BY <1>1, <2>1 DEF Readable, Stored, Text, Elements, ProtocolNames, get_ip_protocol_name
  <1>2. CASE key = "fragmentation_flags"
    <2>1. v \in {fragment_name[t] : t \in DOMAIN fragment_name}
      BY <1>2 DEF Readable
    <2>2. Text(key, Stored(key, v)) = v
      BY <1>2, <2>1, FragmentNamed DEF Stored, Text
    <2> QED BY <2>2
  <1>3. CASE key = "tcp_flags"
    <2>1. v \subseteq {flag_name[t] : t \in DOMAIN flag_name}
      BY <1>3 DEF Readable
    <2>2. Text(key, Stored(key, v)) = v
      BY <1>3, <2>1, FlagsReadBack DEF Stored, Text
    <2> QED BY <2>2
  <1>4. CASE key = "vlans"
    <2>1. v \in Int /\ v % 2 ^ 16 \in Nat /\ (v % 2 ^ 16) % 2 ^ 16 = v % 2 ^ 16
      BY <1>4 DEF Elements
    <2> QED BY <1>4, <2>1 DEF Readable, Stored, Text, Elements
  <1>5. CASE key = "ttls"
    <2>1. v \in Int /\ v % 2 ^ 8 \in Nat /\ (v % 2 ^ 8) % 2 ^ 8 = v % 2 ^ 8
      BY <1>5 DEF Elements
    <2> QED BY <1>5, <2>1 DEF Readable, Stored, Text, Elements
  <1>6. CASE key \notin {"protocols", "fragmentation_flags", "tcp_flags", "vlans", "ttls"}
    <2>1. Stored(key, v) = v /\ Text(key, v) = v
      BY <1>6 DEF Stored, Text
    <2> QED BY <2>1
  <1> QED BY <1>1, <1>2, <1>3, <1>4, <1>5, <1>6

(***************************************************************************)
(* A rule of the whitelist is what a line gave that could be read.         *)
(***************************************************************************)
RuleOf(line) == read_flow_spec_from_json_to_native_format(line, FALSE)
LoadedRules == {RuleOf(line) : line \in Lines} \ {NoRule}

\* The list a field keeps of a list of the document, and the list printed for it.
StoredList(f, list) == [i \in DOMAIN list |-> Stored(f, list[i])]
TextList(f, list) == [i \in DOMAIN list |-> Text(f, list[i])]

\* The lists of a rule that was read.
LEMMA LoadedLists ==
    ASSUME NEW line \in Lines, RuleOf(line) # NoRule, NEW f \in VectorFields
    PROVE  /\ f \notin DOMAIN line => RuleOf(line)[f] = << >>
           /\ f \in DOMAIN line =>
                  /\ RuleOf(line)[f] = StoredList(f, line[f])
                  /\ line[f] \in Seq(Elements(f))
                  /\ \A i \in DOMAIN line[f] : Readable(f, line[f][i])
  <1>1. f \in DOMAIN EmptyRule /\ f \notin SubnetFields /\ f \notin {"action", "action_type"}
    BY FieldNames, RuleDomain
  <1>2. RuleOf(line)[f] = IF f \in DOMAIN line THEN StoredList(f, line[f]) ELSE << >>
    BY <1>1 DEF RuleOf, read_flow_spec_from_json_to_native_format, SubnetFields, StoredList
  <1>3. /\ f \in DOMAIN line => line[f] # Malformed
        /\ f \in DOMAIN line => \A i \in DOMAIN line[f] : Readable(f, line[f][i])
    BY <1>1 DEF RuleOf, read_flow_spec_from_json_to_native_format
  <1>4. f \in DOMAIN line => line[f] \in Seq(Elements(f))
    BY <1>3, LinesAssumption
  <1> QED BY <1>2, <1>3, <1>4

\* The parts of a rule that was read.
LEMMA LoadedParts ==
    ASSUME NEW line \in Lines, NEW rule, rule # NoRule,
           rule = read_flow_spec_from_json_to_native_format(line, FALSE)
    PROVE  /\ rule = [f \in SubnetFields \cup VectorFields \cup {"action"} |-> rule[f]]
           /\ rule.action = Accept
           /\ rule.source_subnet_ipv4 = Subnet(line, "source_prefix", 4)
           /\ rule.source_subnet_ipv6 = Subnet(line, "source_prefix", 6)
           /\ rule.destination_subnet_ipv4 = Subnet(line, "destination_prefix", 4)
           /\ rule.destination_subnet_ipv6 = Subnet(line, "destination_prefix", 6)
           /\ \A f \in VectorFields :
                  \/ rule[f] = << >>
                  \/ /\ f \in DOMAIN line /\ line[f] \in Seq(Elements(f))
                     /\ rule[f] = StoredList(f, line[f])
                     /\ \A i \in DOMAIN line[f] : Readable(f, line[f][i])
           /\ \A key \in DOMAIN line \cap PrefixKeys : line[key] \in PrefixValues
  <1> DEFINE body == [f \in DOMAIN EmptyRule |->
             CASE f = "source_subnet_ipv4"      -> Subnet(line, "source_prefix", 4)
               [] f = "source_subnet_ipv6"      -> Subnet(line, "source_prefix", 6)
               [] f = "destination_subnet_ipv4" -> Subnet(line, "destination_prefix", 4)
               [] f = "destination_subnet_ipv6" -> Subnet(line, "destination_prefix", 6)
               [] f = "action" -> IF FALSE THEN ActionOf(line) ELSE Accept
               [] OTHER -> IF f \in DOMAIN line
                           THEN [i \in DOMAIN line[f] |-> Stored(f, line[f][i])] ELSE << >>]
  <1>1. /\ \A key \in DOMAIN line \ {"action", "action_type"} : line[key] # Malformed
        /\ \A key \in DOMAIN line \cap VectorFields : \A i \in DOMAIN line[key] : Readable(key, line[key][i])
        /\ rule = body
    BY DEF read_flow_spec_from_json_to_native_format
  <1>2. /\ DOMAIN body = SubnetFields \cup VectorFields \cup {"action"}
        /\ body = [f \in SubnetFields \cup VectorFields \cup {"action"} |-> body[f]]
    BY RuleDomain
  <1>3. /\ body.source_subnet_ipv4 = Subnet(line, "source_prefix", 4)
        /\ body.source_subnet_ipv6 = Subnet(line, "source_prefix", 6)
        /\ body.destination_subnet_ipv4 = Subnet(line, "destination_prefix", 4)
        /\ body.destination_subnet_ipv6 = Subnet(line, "destination_prefix", 6)
        /\ body.action = Accept
    BY RuleDomain DEF SubnetFields
  <1>6. \A key \in DOMAIN line \cap PrefixKeys : line[key] \in PrefixValues
    BY <1>1, LinesAssumption DEF PrefixKeys
  <1> HIDE DEF body
  <1>7. \A f \in VectorFields :
           \/ rule[f] = << >>
           \/ /\ f \in DOMAIN line /\ line[f] \in Seq(Elements(f))
              /\ rule[f] = StoredList(f, line[f])
              /\ \A i \in DOMAIN line[f] : Readable(f, line[f][i])
    <2>1. rule = RuleOf(line)
      BY DEF RuleOf
    <2> QED BY <2>1, LoadedLists
  <1> QED BY <1>1, <1>2, <1>3, <1>6, <1>7

\* The subnets of a rule come from one prefix of the document.
LEMMA SubnetRead ==
    ASSUME NEW line \in Lines, NEW key \in PrefixKeys,
           key \in DOMAIN line => line[key] \in PrefixValues
    PROVE  LET ipv4 == Subnet(line, key, 4)
               ipv6 == Subnet(line, key, 6)
               net(n) == [subnet_address : Octets(n), cidr_prefix_length : 0 .. 8 * n]
           IN  \/ ipv4 = << >> /\ ipv6 = << >>
               \/ ipv4 = << >> /\ \E x \in net(16) : ipv6 = <<x>>
               \/ ipv6 = << >> /\ \E x \in net(4) : ipv4 = <<x>>
  <1>1. CASE key \notin DOMAIN line
    BY <1>1 DEF Subnet
  <1>2. CASE key \in DOMAIN line /\ line[key] \in [version : {4}, octets : Octets(4), length : 0 .. 32]
    <2> DEFINE x == [subnet_address |-> line[key].octets, cidr_prefix_length |-> line[key].length]
    <2>1. Subnet(line, key, 4) = <<x>> /\ Subnet(line, key, 6) = << >>
      BY <1>2 DEF Subnet
    <2>2. x \in [subnet_address : Octets(4), cidr_prefix_length : 0 .. 8 * 4]
      BY <1>2
    <2> QED BY <2>1, <2>2
  <1>3. CASE key \in DOMAIN line /\ line[key] \in [version : {6}, octets : Octets(16), length : 0 .. 128]
    <2> DEFINE x == [subnet_address |-> line[key].octets, cidr_prefix_length |-> line[key].length]
    <2>1. Subnet(line, key, 6) = <<x>> /\ Subnet(line, key, 4) = << >>
      BY <1>3 DEF Subnet
    <2>2. x \in [subnet_address : Octets(16), cidr_prefix_length : 0 .. 8 * 16]
      BY <1>3
    <2> QED BY <2>1, <2>2
  <1> QED BY <1>1, <1>2, <1>3 DEF PrefixValues

\* A subnet printed as a prefix is read as the same subnet, of the same family.
LEMMA PrefixReadsBack ==
    ASSUME NEW ipv4, NEW ipv6, NEW doc, NEW key \in DOMAIN doc,
           doc[key] = PrintedPrefix(ipv4, ipv6),
           \/ ipv4 = << >> /\ \E x \in [subnet_address : Octets(16), cidr_prefix_length : 0 .. 128] : ipv6 = <<x>>
           \/ ipv6 = << >> /\ \E x \in [subnet_address : Octets(4), cidr_prefix_length : 0 .. 32] : ipv4 = <<x>>
    PROVE  /\ Subnet(doc, key, 4) = ipv4
           /\ Subnet(doc, key, 6) = ipv6
           /\ doc[key] \in PrefixValues
  <1>1. CASE ipv4 = << >> /\ \E x \in [subnet_address : Octets(16), cidr_prefix_length : 0 .. 128] : ipv6 = <<x>>
    <2>1. PICK x \in [subnet_address : Octets(16), cidr_prefix_length : 0 .. 128] : ipv6 = <<x>>
      BY <1>1
    <2>2. doc[key] = [version |-> 6, octets |-> x.subnet_address, length |-> x.cidr_prefix_length]
      BY <1>1, <2>1 DEF PrintedPrefix
    <2>3. x = [subnet_address |-> x.subnet_address, cidr_prefix_length |-> x.cidr_prefix_length]
      OBVIOUS
    <2> QED BY <1>1, <2>1, <2>2, <2>3 DEF Subnet, PrefixValues
  <1>2. CASE ipv6 = << >> /\ \E x \in [subnet_address : Octets(4), cidr_prefix_length : 0 .. 32] : ipv4 = <<x>>
    <2>1. PICK x \in [subnet_address : Octets(4), cidr_prefix_length : 0 .. 32] : ipv4 = <<x>>
      BY <1>2
    <2>2. doc[key] = [version |-> 4, octets |-> x.subnet_address, length |-> x.cidr_prefix_length]
      BY <2>1 DEF PrintedPrefix
    <2>3. x = [subnet_address |-> x.subnet_address, cidr_prefix_length |-> x.cidr_prefix_length]
      OBVIOUS
    <2> QED BY <1>2, <2>1, <2>2, <2>3 DEF Subnet, PrefixValues
  <1> QED BY <1>1, <1>2

\* The list of a field, printed and read again, is the field.
LEMMA ListReadsBack ==
    ASSUME NEW f \in VectorFields, NEW list \in Seq(Elements(f)), NEW field, NEW printed,
           \A i \in DOMAIN list : Readable(f, list[i]),
           field = StoredList(f, list), printed = TextList(f, field)
    PROVE  /\ printed \in Seq(Elements(f))
           /\ \A i \in DOMAIN printed : Readable(f, printed[i])
           /\ StoredList(f, printed) = field
  <1> USE DEF StoredList, TextList
  <1>1. DOMAIN printed = DOMAIN list /\ DOMAIN field = DOMAIN list
    OBVIOUS
  <1>2. ASSUME NEW i \in DOMAIN list
        PROVE  /\ printed[i] \in Elements(f)
               /\ Readable(f, printed[i])
               /\ Stored(f, printed[i]) = field[i]
    <2>1. list[i] \in Elements(f) /\ printed[i] = Text(f, Stored(f, list[i])) /\ field[i] = Stored(f, list[i])
      OBVIOUS
    <2> QED BY <2>1, ElementReadsBack
  <1>3. printed \in [1 .. Len(list) -> Elements(f)] /\ Len(list) \in Nat
    BY <1>1, <1>2
  <1>4. printed \in Seq(Elements(f))
    BY <1>3
  <1>5. StoredList(f, printed) = field
    BY <1>1, <1>2
  <1> QED BY <1>1, <1>2, <1>4, <1>5

\* The keys and values load_whitelist_rules prints for a rule it read.
LEMMA PrintedParts ==
    ASSUME NEW line \in Lines, NEW rule, rule # NoRule,
           rule = read_flow_spec_from_json_to_native_format(line, FALSE)
    PROVE  LET doc == encode_flow_spec_to_json_raw(rule)
           IN  /\ DOMAIN doc \cap VectorFields = PrintedVectors(rule)
               /\ DOMAIN doc \subseteq PrefixKeys \cup VectorFields \cup {"action_type"}
               /\ "action_type" \in DOMAIN doc /\ doc.action_type = "accept"
               /\ \A f \in PrintedVectors(rule) : doc[f] = TextList(f, rule[f])
               /\ "source_prefix" \in DOMAIN doc <=>
                      rule.source_subnet_ipv4 \o rule.source_subnet_ipv6 # << >>
               /\ "destination_prefix" \in DOMAIN doc <=>
                      rule.destination_subnet_ipv4 \o rule.destination_subnet_ipv6 # << >>
               /\ "source_prefix" \in DOMAIN doc =>
                      doc.source_prefix = PrintedPrefix(rule.source_subnet_ipv4, rule.source_subnet_ipv6)
               /\ "destination_prefix" \in DOMAIN doc =>
                      doc.destination_prefix =
                          PrintedPrefix(rule.destination_subnet_ipv4, rule.destination_subnet_ipv6)
  <1> DEFINE doc == encode_flow_spec_to_json_raw(rule)
             prefixes ==
                {key \in {"source_prefix", "destination_prefix"} :
                    IF key = "source_prefix" THEN rule.source_subnet_ipv4 \o rule.source_subnet_ipv6 # << >>
                    ELSE rule.destination_subnet_ipv4 \o rule.destination_subnet_ipv6 # << >>}
             actions ==
                {"action_type"} \cup
                (IF rule.action.type \in {"FLOW_SPEC_ACTION_RATE_LIMIT", "FLOW_SPEC_ACTION_REDIRECT"}
                 THEN {"action"} ELSE {})
  <1>1. rule.action.type = "FLOW_SPEC_ACTION_ACCEPT"
    <2>1. rule.action = Accept
      BY LoadedParts
    <2>2. Accept.type = "FLOW_SPEC_ACTION_ACCEPT"
      BY DEF Accept
    <2> QED BY <2>1, <2>2
  <1>2. doc = [key \in prefixes \cup PrintedVectors(rule) \cup actions |->
            CASE key = "source_prefix" ->
                     PrintedPrefix(rule.source_subnet_ipv4, rule.source_subnet_ipv6)
              [] key = "destination_prefix" ->
                     PrintedPrefix(rule.destination_subnet_ipv4, rule.destination_subnet_ipv6)
              [] key = "action_type" -> action_name[rule.action.type]
              [] key = "action" -> PrintedAction(rule.action)
              [] OTHER -> [i \in DOMAIN rule[key] |-> Text(key, rule[key][i])]]
    BY DEF encode_flow_spec_to_json_raw
  <1>0. actions = {"action_type"}
    BY <1>1
  <1> HIDE DEF actions
  <1>3. PrintedVectors(rule) \subseteq VectorFields
    BY DEF PrintedVectors
  <1>4. prefixes \subseteq PrefixKeys
    BY DEF PrefixKeys
  <1>5. action_name["FLOW_SPEC_ACTION_ACCEPT"] = "accept"
    BY DEF action_name
  <1>6. \A f \in PrintedVectors(rule) : doc[f] = TextList(f, rule[f])
    <2> SUFFICES ASSUME NEW f \in PrintedVectors(rule)
                 PROVE  doc[f] = TextList(f, rule[f])
      OBVIOUS
    <2>1. f \notin PrefixKeys /\ f # "action_type" /\ f # "action"
      BY <1>3, FieldNames
    <2> QED BY <1>2, <2>1 DEF PrefixKeys, TextList
  <1>7. DOMAIN doc = prefixes \cup PrintedVectors(rule) \cup {"action_type"}
    BY <1>0, <1>2
  <1>8. /\ "action_type" \in DOMAIN doc /\ doc.action_type = "accept"
        /\ "source_prefix" \in DOMAIN doc =>
              doc.source_prefix = PrintedPrefix(rule.source_subnet_ipv4, rule.source_subnet_ipv6)
        /\ "destination_prefix" \in DOMAIN doc =>
              doc.destination_prefix =
                  PrintedPrefix(rule.destination_subnet_ipv4, rule.destination_subnet_ipv6)
    BY <1>0, <1>1, <1>2, <1>5
  <1>9. /\ "source_prefix" \in DOMAIN doc <=> "source_prefix" \in prefixes
        /\ "destination_prefix" \in DOMAIN doc <=> "destination_prefix" \in prefixes
    BY <1>3, <1>7, FieldNames DEF PrefixKeys
  <1>10. DOMAIN doc \cap VectorFields = PrintedVectors(rule)
    BY <1>3, <1>4, <1>7, FieldNames
  <1> HIDE DEF doc
  <1>11. DOMAIN doc \subseteq PrefixKeys \cup VectorFields \cup {"action_type"}
    BY <1>3, <1>4, <1>7
  <1> QED BY <1>6, <1>8, <1>9, <1>10, <1>11 DEF doc

(***************************************************************************)
(* encode_flow_spec_to_json_raw and                                        *)
(* read_flow_spec_from_json_to_native_format are inverse on the rules a    *)
(* line can give, except for TCP flags without TCP.                        *)
(***************************************************************************)
LEMMA RuleReadsBack ==
    ASSUME NEW rule \in LoadedRules
    PROVE  read_flow_spec_from_json_to_native_format(encode_flow_spec_to_json_raw(rule), TRUE) =
               IF TCP \in ToSet(rule.protocols) THEN rule ELSE [rule EXCEPT !["tcp_flags"] = << >>]
  <1>1. PICK line \in Lines : rule = read_flow_spec_from_json_to_native_format(line, FALSE) /\ rule # NoRule
    BY DEF LoadedRules, RuleOf
  <1> DEFINE doc == encode_flow_spec_to_json_raw(rule)
             again == read_flow_spec_from_json_to_native_format(doc, TRUE)
             result == [f \in DOMAIN EmptyRule |->
                 CASE f = "source_subnet_ipv4"      -> Subnet(doc, "source_prefix", 4)
                   [] f = "source_subnet_ipv6"      -> Subnet(doc, "source_prefix", 6)
                   [] f = "destination_subnet_ipv4" -> Subnet(doc, "destination_prefix", 4)
                   [] f = "destination_subnet_ipv6" -> Subnet(doc, "destination_prefix", 6)
                   [] f = "action" -> IF TRUE THEN ActionOf(doc) ELSE Accept
                   [] OTHER -> IF f \in DOMAIN doc
                               THEN [i \in DOMAIN doc[f] |-> Stored(f, doc[f][i])] ELSE << >>]
  <1>2. /\ DOMAIN doc \cap VectorFields = PrintedVectors(rule)
        /\ DOMAIN doc \subseteq PrefixKeys \cup VectorFields \cup {"action_type"}
        /\ "action_type" \in DOMAIN doc /\ doc.action_type = "accept"
        /\ \A f \in PrintedVectors(rule) : doc[f] = TextList(f, rule[f])
    BY <1>1, PrintedParts
  <1>3. /\ ("source_prefix" \in DOMAIN doc) <=>
               (rule.source_subnet_ipv4 \o rule.source_subnet_ipv6 # << >>)
        /\ "source_prefix" \in DOMAIN doc =>
               doc.source_prefix = PrintedPrefix(rule.source_subnet_ipv4, rule.source_subnet_ipv6)
    BY <1>1, PrintedParts
  <1>16. /\ ("destination_prefix" \in DOMAIN doc) <=>
               (rule.destination_subnet_ipv4 \o rule.destination_subnet_ipv6 # << >>)
         /\ "destination_prefix" \in DOMAIN doc =>
               doc.destination_prefix =
                   PrintedPrefix(rule.destination_subnet_ipv4, rule.destination_subnet_ipv6)
    BY <1>1, PrintedParts
  <1> HIDE DEF doc
  \* The prefixes.
  <1>4. /\ Subnet(doc, "source_prefix", 4) = rule.source_subnet_ipv4
        /\ Subnet(doc, "source_prefix", 6) = rule.source_subnet_ipv6
        /\ "source_prefix" \in DOMAIN doc => doc["source_prefix"] \in PrefixValues
    <2> DEFINE four == rule.source_subnet_ipv4
               six == rule.source_subnet_ipv6
    <2>1. /\ "source_prefix" \in PrefixKeys
          /\ "source_prefix" \in DOMAIN line => line["source_prefix"] \in PrefixValues
          /\ four = Subnet(line, "source_prefix", 4) /\ six = Subnet(line, "source_prefix", 6)
      BY <1>1, LoadedParts DEF PrefixKeys
    <2>2. \/ four = << >> /\ six = << >>
          \/ four = << >> /\ \E x \in [subnet_address : Octets(16), cidr_prefix_length : 0 .. 128] : six = <<x>>
          \/ six = << >> /\ \E x \in [subnet_address : Octets(4), cidr_prefix_length : 0 .. 32] : four = <<x>>
      BY <2>1, SubnetRead
    <2> HIDE DEF four, six
    <2>3. CASE four = << >> /\ six = << >>
      <3>1. "source_prefix" \notin DOMAIN doc
        BY <1>3, <2>3 DEF four, six
      <3> QED BY <2>3, <3>1 DEF Subnet, four, six
    <2>4. CASE ~(four = << >> /\ six = << >>)
      <3>1. four \o six # << >>
        BY <2>2, <2>4
      <3>2. "source_prefix" \in DOMAIN doc /\ doc["source_prefix"] = PrintedPrefix(four, six)
        BY <1>3, <3>1 DEF four, six
      <3>3. /\ Subnet(doc, "source_prefix", 4) = four
            /\ Subnet(doc, "source_prefix", 6) = six
            /\ doc["source_prefix"] \in PrefixValues
        BY <2>2, <2>4, <3>2, PrefixReadsBack
      <3> QED BY <3>3 DEF four, six
    <2> QED BY <2>3, <2>4
  <1>5. /\ Subnet(doc, "destination_prefix", 4) = rule.destination_subnet_ipv4
        /\ Subnet(doc, "destination_prefix", 6) = rule.destination_subnet_ipv6
        /\ "destination_prefix" \in DOMAIN doc => doc["destination_prefix"] \in PrefixValues
    <2> DEFINE four == rule.destination_subnet_ipv4
               six == rule.destination_subnet_ipv6
    <2>1. /\ "destination_prefix" \in PrefixKeys
          /\ "destination_prefix" \in DOMAIN line => line["destination_prefix"] \in PrefixValues
          /\ four = Subnet(line, "destination_prefix", 4) /\ six = Subnet(line, "destination_prefix", 6)
      BY <1>1, LoadedParts DEF PrefixKeys
    <2>2. \/ four = << >> /\ six = << >>
          \/ four = << >> /\ \E x \in [subnet_address : Octets(16), cidr_prefix_length : 0 .. 128] : six = <<x>>
          \/ six = << >> /\ \E x \in [subnet_address : Octets(4), cidr_prefix_length : 0 .. 32] : four = <<x>>
      BY <2>1, SubnetRead
    <2> HIDE DEF four, six
    <2>3. CASE four = << >> /\ six = << >>
      <3>1. "destination_prefix" \notin DOMAIN doc
        BY <1>16, <2>3 DEF four, six
      <3> QED BY <2>3, <3>1 DEF Subnet, four, six
    <2>4. CASE ~(four = << >> /\ six = << >>)
      <3>1. four \o six # << >>
        BY <2>2, <2>4
      <3>2. "destination_prefix" \in DOMAIN doc /\ doc["destination_prefix"] = PrintedPrefix(four, six)
        BY <1>16, <3>1 DEF four, six
      <3>3. /\ Subnet(doc, "destination_prefix", 4) = four
            /\ Subnet(doc, "destination_prefix", 6) = six
            /\ doc["destination_prefix"] \in PrefixValues
        BY <2>2, <2>4, <3>2, PrefixReadsBack
      <3> QED BY <3>3 DEF four, six
    <2> QED BY <2>3, <2>4
  \* The lists.
  <1>6. ASSUME NEW f \in PrintedVectors(rule)
        PROVE  /\ doc[f] \in Seq(Elements(f))
               /\ \A i \in DOMAIN doc[f] : Readable(f, doc[f][i])
               /\ StoredList(f, doc[f]) = rule[f]
    <2>1. f \in VectorFields /\ rule[f] # << >>
      BY DEF PrintedVectors
    <2>2. \A g \in VectorFields :
             \/ rule[g] = << >>
             \/ /\ g \in DOMAIN line /\ line[g] \in Seq(Elements(g))
                /\ rule[g] = StoredList(g, line[g])
                /\ \A i \in DOMAIN line[g] : Readable(g, line[g][i])
      BY <1>1, LoadedParts
    <2>3. /\ line[f] \in Seq(Elements(f))
          /\ rule[f] = StoredList(f, line[f])
          /\ \A i \in DOMAIN line[f] : Readable(f, line[f][i])
      BY <2>1, <2>2, Zenon
    <2>4. doc[f] = TextList(f, rule[f])
      BY <1>2
    <2> QED BY <2>1, <2>3, <2>4, ListReadsBack
  <1>7. PrintedVectors(rule) \subseteq VectorFields
    BY DEF PrintedVectors
  \* The action.
  <1>8. ActionReadable(doc) /\ ActionOf(doc) = Accept
    <2>1. ActionReadable(doc)
      BY <1>2 DEF ActionReadable, action_name
    <2>2. ActionOf(doc) = [Accept EXCEPT !.type = "FLOW_SPEC_ACTION_ACCEPT"]
      BY <1>2, AcceptNamed DEF ActionOf
    <2> QED BY <2>1, <2>2 DEF Accept
  \* The document can be read.
  <1>9. /\ \A key \in DOMAIN doc \ {"action", "action_type"} : doc[key] # Malformed
        /\ \A key \in DOMAIN doc \cap VectorFields : \A i \in DOMAIN doc[key] : Readable(key, doc[key][i])
    <2>1. ASSUME NEW key \in DOMAIN doc \ {"action", "action_type"}
          PROVE  doc[key] # Malformed
      <3>1. CASE key \in PrefixKeys
        BY <1>4, <1>5, <3>1, LinesAssumption DEF PrefixKeys
      <3>2. CASE key \in VectorFields
        <4>1. key \in PrintedVectors(rule)
          BY <1>2, <3>2
        <4>2. doc[key] \in Seq(Elements(key))
          BY <1>6, <4>1
        <4> QED BY <3>2, <4>2, LinesAssumption
      <3> QED BY <1>2, <3>1, <3>2
    <2> QED BY <1>2, <1>6, <2>1
  <1>10. again = result
    BY <1>8, <1>9 DEF read_flow_spec_from_json_to_native_format
  <1>11. /\ result = [f \in SubnetFields \cup VectorFields \cup {"action"} |-> result[f]]
         /\ result["action"] = Accept
         /\ \A f \in SubnetFields : result[f] = rule[f]
    BY <1>4, <1>5, <1>8, RuleDomain DEF SubnetFields
  <1>12. ASSUME NEW f \in VectorFields
         PROVE  result[f] = IF f \in PrintedVectors(rule) THEN rule[f] ELSE << >>
    <2>1. f \in DOMAIN EmptyRule /\ f \notin SubnetFields /\ f # "action"
      BY FieldNames, RuleDomain
    <2>2. result[f] = IF f \in DOMAIN doc THEN StoredList(f, doc[f]) ELSE << >>
      BY <2>1 DEF SubnetFields, StoredList
    <2> QED BY <1>2, <1>6, <2>2
  <1> HIDE DEF result
  <1>13. /\ rule = [f \in SubnetFields \cup VectorFields \cup {"action"} |-> rule[f]]
         /\ rule["action"] = Accept
    BY <1>1, LoadedParts
  <1>14. CASE TCP \in ToSet(rule.protocols)
    <2>1. \A f \in VectorFields : result[f] = rule[f]
      BY <1>12, <1>14 DEF PrintedVectors
    <2>2. result = rule
      BY <1>11, <1>13, <2>1
    <2> QED BY <1>10, <1>14, <2>2 DEF doc
  <1>15. CASE TCP \notin ToSet(rule.protocols)
    <2> DEFINE bare == [rule EXCEPT !["tcp_flags"] = << >>]
    <2>1. \A f \in VectorFields : result[f] = bare[f]
      BY <1>12, <1>13, <1>15 DEF PrintedVectors
    <2>2. /\ bare = [f \in SubnetFields \cup VectorFields \cup {"action"} |-> bare[f]]
          /\ \A f \in SubnetFields \cup {"action"} : bare[f] = rule[f]
      BY <1>13, FieldNames
    <2> HIDE DEF bare
    <2>3. result = bare
      BY <1>11, <1>13, <2>1, <2>2
    <2> QED BY <1>10, <1>15, <2>3 DEF doc, bare
  <1> QED BY <1>14, <1>15

-----------------------------------------------------------------------------
(* Filtering.                                                              *)

\* The lists of a rule the filter looks at, and what a stored value says.
LookedLists == {"source_ports", "destination_ports", "packet_lengths", "protocols", "fragmentation_flags",
                "tcp_flags", "vlans"}

RuleSays(f, v, p) ==
    CASE f = "source_ports"            -> p.source_port = v
      [] f = "destination_ports"       -> p.destination_port = v
      [] f = "protocols"               -> p.protocol = v
      [] f = "vlans"                   -> p.vlan = v
      [] f = "packet_lengths"          -> v \in {p.length, p.ip_length}
      [] f = "tcp_flags"               -> p.flags \cap TcpFlags = v
      [] f = "source_subnet_ipv4"      -> Agree(p.src_ip, v)
      [] f = "destination_subnet_ipv4" -> Agree(p.dst_ip, v)
      [] f = "source_subnet_ipv6"      -> Agree(p.src_ipv6, v)
      [] f = "destination_subnet_ipv6" -> Agree(p.dst_ipv6, v)
      [] f = "fragmentation_flags" ->
             CASE v = "FLOW_SPEC_DONT_FRAGMENT"  -> p.ip_dont_fragment
               [] v = "FLOW_SPEC_IS_A_FRAGMENT"  -> p.ip_fragmented
               [] v = "FLOW_SPEC_FIRST_FRAGMENT" -> p.ip_more_fragments /\ p.ip_fragment_offset = 0
               [] v = "FLOW_SPEC_LAST_FRAGMENT"  -> p.ip_fragmented /\ ~p.ip_more_fragments
               [] v = "FLOW_SPEC_NOT_A_FRAGMENT" -> ~p.ip_fragmented

\* A packet has what a rule says in the fields the filter looks at.
RuleMet(p, rule) ==
    \A f \in LookedLists \cup SubnetFields :
        rule[f] # << >> => \E i \in DOMAIN rule[f] : RuleSays(f, rule[f][i], p)

\* The rules whose fragment types and IPv6 subnets the filter can decide.
RuleDecidable(rule) ==
    /\ ToSet(rule.fragmentation_flags) \subseteq {"FLOW_SPEC_DONT_FRAGMENT", "FLOW_SPEC_IS_A_FRAGMENT"}
    /\ \A f \in {"source_subnet_ipv6", "destination_subnet_ipv6"} :
           \A i \in DOMAIN rule[f] : rule[f][i].cidr_prefix_length = 128

\* A list without elements says nothing, another one that an element is the packet's value.
LEMMA UnlessMember ==
    ASSUME NEW list, NEW x
    PROVE  Unless(list, x \in ToSet(list)) <=> (list # << >> => \E i \in DOMAIN list : x = list[i])
  BY DEF Unless, ToSet

\* One address of the packet and the subnets of a rule for it.
SubnetPair(ipv4, ipv6) ==
    \/ ipv4 = << >> /\ ipv6 = << >>
    \/ ipv4 = << >> /\ \E x \in [subnet_address : Octets(16), cidr_prefix_length : 0 .. 128] : ipv6 = <<x>>
    \/ ipv6 = << >> /\ \E x \in [subnet_address : Octets(4), cidr_prefix_length : 0 .. 32] : ipv4 = <<x>>

\* Whether a packet is within the subnets of a rule, bit by bit.
LEMMA AddressMatchesBits ==
    ASSUME NEW ipv4, NEW ipv6, SubnetPair(ipv4, ipv6),
           NEW octets4 \in Octets(4), NEW octets6 \in Octets(16)
    PROVE  LET said == /\ ipv4 # << >> => \E i \in DOMAIN ipv4 : Agree(octets4, ipv4[i])
                       /\ ipv6 # << >> => \E i \in DOMAIN ipv6 : Agree(octets6, ipv6[i])
           IN  /\ AddressMatches(ipv4, ipv6, octets4, octets6) => said
               /\ said /\ (\A i \in DOMAIN ipv6 : ipv6[i].cidr_prefix_length = 128) =>
                      AddressMatches(ipv4, ipv6, octets4, octets6)
  <1>1. CASE ipv4 = << >> /\ ipv6 = << >>
    BY <1>1 DEF AddressMatches, Unless
  <1>2. CASE ipv4 = << >> /\ \E x \in [subnet_address : Octets(16), cidr_prefix_length : 0 .. 128] : ipv6 = <<x>>
    <2>1. PICK x \in [subnet_address : Octets(16), cidr_prefix_length : 0 .. 128] : ipv6 = <<x>>
      BY <1>2
    <2>2. x = [subnet_address |-> x.subnet_address, cidr_prefix_length |-> x.cidr_prefix_length]
      OBVIOUS
    <2>3. x.subnet_address \in Octets(16) /\ x.cidr_prefix_length \in 0 .. 128
      OBVIOUS
    <2>4. ipv6 # << >> /\ DOMAIN ipv6 = {1} /\ ipv6[1] = x
      BY <2>1
    <2>5. AddressMatches(ipv4, ipv6, octets4, octets6) <=>
             x = [subnet_address |-> octets6, cidr_prefix_length |-> 128]
      BY <1>2, <2>4 DEF AddressMatches, Unless
    <2>6. x = [subnet_address |-> octets6, cidr_prefix_length |-> 128] <=>
             x.subnet_address = octets6 /\ x.cidr_prefix_length = 128
      BY <2>2
    <2>7. x.cidr_prefix_length = 128 => (octets6 = x.subnet_address <=> Agree(octets6, x))
      <3>1. 16 \in Nat /\ 8 * 16 = 128
        OBVIOUS
      <3> QED BY <2>3, <3>1, HostBits
    <2> QED BY <1>2, <2>4, <2>5, <2>6, <2>7
  <1>3. CASE ipv6 = << >> /\ \E x \in [subnet_address : Octets(4), cidr_prefix_length : 0 .. 32] : ipv4 = <<x>>
    <2>1. PICK x \in [subnet_address : Octets(4), cidr_prefix_length : 0 .. 32] : ipv4 = <<x>>
      BY <1>3
    <2>2. x = [subnet_address |-> x.subnet_address, cidr_prefix_length |-> x.cidr_prefix_length]
      OBVIOUS
    <2>3. x.subnet_address \in Octets(4) /\ x.cidr_prefix_length \in 0 .. 32
      OBVIOUS
    <2>4. ipv4 # << >> /\ DOMAIN ipv4 = {1} /\ ipv4[1] = x
      BY <2>1
    <2>5. AddressMatches(ipv4, ipv6, octets4, octets6) <=>
             IF x.cidr_prefix_length = 32
             THEN x = [subnet_address |-> octets4, cidr_prefix_length |-> 32] ELSE InSubnet(octets4, x)
      BY <2>4 DEF AddressMatches
    <2>6. x.cidr_prefix_length = 32 => (x = [subnet_address |-> octets4, cidr_prefix_length |-> 32] <=> Agree(octets4, x))
      <3>1. 4 \in Nat /\ 8 * 4 = 32
        OBVIOUS
      <3>2. x.cidr_prefix_length = 32 => (octets4 = x.subnet_address <=> Agree(octets4, x))
        BY <2>3, <3>1, HostBits
      <3> QED BY <2>2, <3>2
    <2>7. InSubnet(octets4, x) <=> Agree(octets4, x)
      <3>1. 4 \in Nat /\ 8 * 4 = 32
        OBVIOUS
      <3> QED BY <2>3, <3>1, MaskedBits DEF InSubnet
    <2>8. AddressMatches(ipv4, ipv6, octets4, octets6) <=> Agree(octets4, x)
      BY <2>5, <2>6, <2>7
    <2> QED BY <1>3, <2>4, <2>8
  <1> QED BY <1>1, <1>2, <1>3 DEF SubnetPair

\* The parts of a rule the filter needs.
LEMMA LoadedShapes ==
    ASSUME NEW rule \in LoadedRules
    PROVE  /\ SubnetPair(rule.source_subnet_ipv4, rule.source_subnet_ipv6)
           /\ SubnetPair(rule.destination_subnet_ipv4, rule.destination_subnet_ipv6)
           /\ \A i \in DOMAIN rule.protocols : rule.protocols[i] \in 0 .. 255
  <1>1. PICK line \in Lines : rule = read_flow_spec_from_json_to_native_format(line, FALSE) /\ rule # NoRule
    BY DEF LoadedRules, RuleOf
  <1>2. /\ rule.source_subnet_ipv4 = Subnet(line, "source_prefix", 4)
        /\ rule.source_subnet_ipv6 = Subnet(line, "source_prefix", 6)
        /\ rule.destination_subnet_ipv4 = Subnet(line, "destination_prefix", 4)
        /\ rule.destination_subnet_ipv6 = Subnet(line, "destination_prefix", 6)
        /\ \A key \in DOMAIN line \cap PrefixKeys : line[key] \in PrefixValues
    BY <1>1, LoadedParts
  <1>3. SubnetPair(Subnet(line, "source_prefix", 4), Subnet(line, "source_prefix", 6))
    <2>1. "source_prefix" \in PrefixKeys
      BY DEF PrefixKeys
    <2> QED BY <1>2, <2>1, SubnetRead DEF SubnetPair
  <1>4. SubnetPair(Subnet(line, "destination_prefix", 4), Subnet(line, "destination_prefix", 6))
    <2>1. "destination_prefix" \in PrefixKeys
      BY DEF PrefixKeys
    <2> QED BY <1>2, <2>1, SubnetRead DEF SubnetPair
  <1>5. ASSUME NEW i \in DOMAIN rule["protocols"]
        PROVE  rule["protocols"][i] \in 0 .. 255
    <2>1. \A f \in VectorFields :
             \/ rule[f] = << >>
             \/ /\ f \in DOMAIN line /\ line[f] \in Seq(Elements(f))
                /\ rule[f] = StoredList(f, line[f])
                /\ \A j \in DOMAIN line[f] : Readable(f, line[f][j])
      BY <1>1, LoadedParts
    <2>2. rule["protocols"] = StoredList("protocols", line["protocols"]) /\
          \A j \in DOMAIN line["protocols"] : Readable("protocols", line["protocols"][j])
      BY <2>1, FieldNames
    <2>3. i \in DOMAIN line["protocols"] /\ rule["protocols"][i] = Stored("protocols", line["protocols"][i])
      BY <2>2 DEF StoredList
    <2>4. PICK n \in 0 .. 255 : line["protocols"][i] = <<"name", n>>
      BY <2>2, <2>3 DEF Readable, ProtocolNames, get_ip_protocol_name
    <2> QED BY <2>3, <2>4 DEF Stored
  <1> QED BY <1>2, <1>3, <1>4, <1>5

(***************************************************************************)
(* One rule and one packet: what filter_packet_by_flowspec_rule lets       *)
(* through satisfies the rule, and a decidable rule lets through what      *)
(* satisfies it.                                                           *)
(***************************************************************************)
LEMMA FilterDecides ==
    ASSUME NEW p \in Seen, p.length < 2 ^ 16, p.ip_length < 2 ^ 16, NEW rule \in LoadedRules
    PROVE  /\ filter_packet_by_flowspec_rule(p, rule) => RuleMet(p, rule)
           /\ RuleMet(p, rule) /\ RuleDecidable(rule) =>
                  filter_packet_by_flowspec_rule(p, rule)
  <1> DEFINE said(f) == rule[f] # << >> => \E i \in DOMAIN rule[f] : RuleSays(f, rule[f][i], p)
  <1>1. RuleMet(p, rule) <=>
           /\ said("source_ports") /\ said("destination_ports") /\ said("packet_lengths")
           /\ said("protocols") /\ said("fragmentation_flags") /\ said("tcp_flags") /\ said("vlans")
           /\ said("source_subnet_ipv4") /\ said("source_subnet_ipv6")
           /\ said("destination_subnet_ipv4") /\ said("destination_subnet_ipv6")
    <2>1. RuleMet(p, rule) <=> \A f \in LookedLists \cup SubnetFields : said(f)
      BY DEF RuleMet
    <2> HIDE DEF said
    <2> QED BY <2>1 DEF LookedLists, SubnetFields
  <1>2. Unless(rule.source_ports, p.source_port \in ToSet(rule.source_ports)) <=> said("source_ports")
    BY UnlessMember DEF RuleSays
  <1>3. Unless(rule.destination_ports, p.destination_port \in ToSet(rule.destination_ports))
            <=> said("destination_ports")
    BY UnlessMember DEF RuleSays
  <1>4. Unless(rule.vlans, p.vlan \in ToSet(rule.vlans)) <=> said("vlans")
    BY UnlessMember DEF RuleSays
  <1>5. Unless(rule.tcp_flags, flagset(p.flags) \in ToSet(rule.tcp_flags)) <=> said("tcp_flags")
    BY UnlessMember DEF RuleSays, flagset
  <1>6. Unless(rule.protocols, p.protocol <= 255 /\ p.protocol \in ToSet(rule.protocols)) <=> said("protocols")
    <2>1. \A i \in DOMAIN rule.protocols : p.protocol = rule.protocols[i] => p.protocol <= 255
      BY LoadedShapes
    <2>2. p.protocol \in ToSet(rule.protocols) => p.protocol <= 255
      BY <2>1 DEF ToSet
    <2>3. Unless(rule.protocols, p.protocol \in ToSet(rule.protocols)) <=> said("protocols")
      BY UnlessMember DEF RuleSays
    <2> QED BY <2>2, <2>3 DEF Unless
  <1>7. Unless(rule.packet_lengths, LengthMatches(rule, p)) <=> said("packet_lengths")
    <2>1. p.length \in Nat /\ p.ip_length \in Nat
      BY SeenAssumption
    <2>2. p.length % 2 ^ 16 = p.length /\ p.ip_length % 2 ^ 16 = p.ip_length /\ p.length <= 65635
      BY <2>1
    <2>3. LengthMatches(rule, p) <=> {p.length, p.ip_length} \cap ToSet(rule.packet_lengths) # {}
      BY <2>2 DEF LengthMatches
    <2>4. LengthMatches(rule, p) <=> \E i \in DOMAIN rule.packet_lengths : rule.packet_lengths[i] \in {p.length, p.ip_length}
      BY <2>3 DEF ToSet
    <2> QED BY <2>4 DEF Unless, RuleSays
  <1>8. Unless(rule.fragmentation_flags, FragmentMatches(rule, p)) => said("fragmentation_flags")
    BY DEF Unless, FragmentMatches, RuleSays
  <1>9. RuleDecidable(rule) /\ said("fragmentation_flags") =>
           Unless(rule.fragmentation_flags, FragmentMatches(rule, p))
    <2> SUFFICES ASSUME RuleDecidable(rule), rule.fragmentation_flags # << >>,
                        NEW i \in DOMAIN rule.fragmentation_flags,
                        RuleSays("fragmentation_flags", rule.fragmentation_flags[i], p)
                 PROVE  FragmentMatches(rule, p)
      BY DEF Unless
    <2>1. rule.fragmentation_flags[i] \in {"FLOW_SPEC_DONT_FRAGMENT", "FLOW_SPEC_IS_A_FRAGMENT"}
      BY DEF RuleDecidable, ToSet
    <2>2. CASE rule.fragmentation_flags[i] = "FLOW_SPEC_DONT_FRAGMENT"
      BY <2>2 DEF RuleSays, FragmentMatches
    <2>3. CASE rule.fragmentation_flags[i] = "FLOW_SPEC_IS_A_FRAGMENT"
      BY <2>3 DEF RuleSays, FragmentMatches
    <2> QED BY <2>1, <2>2, <2>3
  <1>10. /\ AddressMatches(rule.source_subnet_ipv4, rule.source_subnet_ipv6, p.src_ip, p.src_ipv6)
                => said("source_subnet_ipv4") /\ said("source_subnet_ipv6")
         /\ said("source_subnet_ipv4") /\ said("source_subnet_ipv6") /\ RuleDecidable(rule)
                => AddressMatches(rule.source_subnet_ipv4, rule.source_subnet_ipv6, p.src_ip, p.src_ipv6)
    <2>1. said("source_subnet_ipv4") <=>
             (rule.source_subnet_ipv4 # << >> =>
                 \E i \in DOMAIN rule.source_subnet_ipv4 : Agree(p.src_ip, rule.source_subnet_ipv4[i]))
      BY DEF RuleSays
    <2>2. said("source_subnet_ipv6") <=>
             (rule.source_subnet_ipv6 # << >> =>
                 \E i \in DOMAIN rule.source_subnet_ipv6 : Agree(p.src_ipv6, rule.source_subnet_ipv6[i]))
      BY DEF RuleSays
    <2>3. SubnetPair(rule.source_subnet_ipv4, rule.source_subnet_ipv6)
          /\ p.src_ip \in Octets(4) /\ p.src_ipv6 \in Octets(16)
      BY LoadedShapes, SeenAssumption
    <2>4. RuleDecidable(rule) => \A i \in DOMAIN rule.source_subnet_ipv6 : rule.source_subnet_ipv6[i].cidr_prefix_length = 128
      BY DEF RuleDecidable
    <2> HIDE DEF said
    <2> QED BY <2>1, <2>2, <2>3, <2>4, AddressMatchesBits
  <1>11. /\ AddressMatches(rule.destination_subnet_ipv4, rule.destination_subnet_ipv6, p.dst_ip, p.dst_ipv6)
                => said("destination_subnet_ipv4") /\ said("destination_subnet_ipv6")
         /\ said("destination_subnet_ipv4") /\ said("destination_subnet_ipv6") /\ RuleDecidable(rule)
                => AddressMatches(rule.destination_subnet_ipv4, rule.destination_subnet_ipv6, p.dst_ip, p.dst_ipv6)
    <2>1. said("destination_subnet_ipv4") <=>
             (rule.destination_subnet_ipv4 # << >> =>
                 \E i \in DOMAIN rule.destination_subnet_ipv4 : Agree(p.dst_ip, rule.destination_subnet_ipv4[i]))
      BY DEF RuleSays
    <2>2. said("destination_subnet_ipv6") <=>
             (rule.destination_subnet_ipv6 # << >> =>
                 \E i \in DOMAIN rule.destination_subnet_ipv6 : Agree(p.dst_ipv6, rule.destination_subnet_ipv6[i]))
      BY DEF RuleSays
    <2>3. SubnetPair(rule.destination_subnet_ipv4, rule.destination_subnet_ipv6)
          /\ p.dst_ip \in Octets(4) /\ p.dst_ipv6 \in Octets(16)
      BY LoadedShapes, SeenAssumption
    <2>4. RuleDecidable(rule) => \A i \in DOMAIN rule.destination_subnet_ipv6 : rule.destination_subnet_ipv6[i].cidr_prefix_length = 128
      BY DEF RuleDecidable
    <2> HIDE DEF said
    <2> QED BY <2>1, <2>2, <2>3, <2>4, AddressMatchesBits
  <1> HIDE DEF said
  <1> QED BY <1>1, <1>2, <1>3, <1>4, <1>5, <1>6, <1>7, <1>8, <1>9, <1>10, <1>11
          DEF filter_packet_by_flowspec_rule

(***************************************************************************)
(* A value of a line and what the rule keeps of it say the same of a       *)
(* packet, but for a VLAN of more than 16 bits.                            *)
(***************************************************************************)
LEMMA ValueSays ==
    ASSUME NEW p \in Seen, NEW key \in LookedLists, NEW v \in Elements(key), Readable(key, v),
           key = "vlans" => v < 2 ^ 16
    PROVE  Says(key, v, p) <=> RuleSays(key, Stored(key, v), p)
  <1>1. CASE key = "protocols"
    <2>1. PICK n \in 0 .. 255 : v = <<"name", n>>
      BY <1>1 DEF Readable, ProtocolNames, get_ip_protocol_name
    <2>2. <<"name", p.protocol>> = <<"name", n>> <=> p.protocol = n
      OBVIOUS
    <2> QED BY <1>1, <2>1, <2>2 DEF Says, RuleSays, Stored, get_ip_protocol_name
  <1>2. CASE key = "fragmentation_flags"
    <2>1. v \in {fragment_name[t] : t \in DOMAIN fragment_name}
      BY <1>2 DEF Readable
    <2>2. PICK t \in DOMAIN fragment_name : t = Named(fragment_name, v) /\ fragment_name[t] = v
      BY <2>1, FragmentNamed
    <2>3. Stored(key, v) = t
      BY <1>2, <2>2 DEF Stored
    <2>4. /\ v = "dont-fragment"  <=> t = "FLOW_SPEC_DONT_FRAGMENT"
          /\ v = "is-fragment"    <=> t = "FLOW_SPEC_IS_A_FRAGMENT"
          /\ v = "first-fragment" <=> t = "FLOW_SPEC_FIRST_FRAGMENT"
          /\ v = "last-fragment"  <=> t = "FLOW_SPEC_LAST_FRAGMENT"
          /\ v = "not-a-fragment" <=> t = "FLOW_SPEC_NOT_A_FRAGMENT"
      BY <2>2 DEF fragment_name
    <2>5. v \in {"dont-fragment", "is-fragment", "first-fragment", "last-fragment", "not-a-fragment"}
      BY <2>1 DEF fragment_name
    <2> HIDE DEF Named
    <2>6. Says("fragmentation_flags", v, p) <=> RuleSays("fragmentation_flags", t, p)
      BY <2>4, <2>5 DEF Says, RuleSays
    <2> QED BY <1>2, <2>3, <2>6
  <1>3. CASE key = "tcp_flags"
    <2> DEFINE sent == p.flags \cap TcpFlags
               kept == {Named(flag_name, word) : word \in v}
    <2>1. v \subseteq {flag_name[t] : t \in DOMAIN flag_name}
      BY <1>3 DEF Readable
    <2>2. {flag_name[flag] : flag \in kept} = v
      BY <2>1, FlagsReadBack
    <2>3. kept \subseteq DOMAIN flag_name
      BY <2>1, FlagNamed
    <2>4. sent \subseteq DOMAIN flag_name
      BY DEF TcpFlags, flag_name
    <2>5. \A s, t \in DOMAIN flag_name : flag_name[s] = flag_name[t] => s = t
      BY DEF flag_name
    <2> HIDE DEF sent, kept
    <2>6. {flag_name[flag] : flag \in sent} = v <=> sent = kept
      BY <2>2, <2>3, <2>4, <2>5
    <2> QED BY <1>3, <2>6 DEF Says, RuleSays, Stored, sent, kept
  <1>4. CASE key = "vlans"
    <2>1. v \in Int /\ v >= 0 /\ v < 2 ^ 16
      BY <1>4 DEF Elements, Readable
    <2>2. v % 2 ^ 16 = v
      BY <2>1
    <2> QED BY <1>4, <2>2 DEF Says, RuleSays, Stored
  <1>5. CASE key \in {"source_ports", "destination_ports", "packet_lengths"}
    BY <1>5 DEF Says, RuleSays, Stored
  <1> QED BY <1>1, <1>2, <1>3, <1>4, <1>5 DEF LookedLists

\* What the two subnets of a rule for one address say of a packet.
SubnetsSay(ipv4, ipv6, octets4, octets6) ==
    /\ ipv4 # << >> => \E i \in DOMAIN ipv4 : Agree(octets4, ipv4[i])
    /\ ipv6 # << >> => \E i \in DOMAIN ipv6 : Agree(octets6, ipv6[i])

\* A prefix of a line and the two subnets read from it say the same of a packet.
LEMMA PrefixSays ==
    ASSUME NEW line, NEW key, key \in DOMAIN line => line[key] \in PrefixValues,
           NEW octets4, NEW octets6
    PROVE  LET ipv4 == Subnet(line, key, 4)
               ipv6 == Subnet(line, key, 6)
           IN  /\ (key \in DOMAIN line => Within(line[key], octets4, octets6)) <=>
                      SubnetsSay(ipv4, ipv6, octets4, octets6)
               /\ (key \in DOMAIN line /\ line[key].version = 6 => line[key].length = 128) =>
                      \A i \in DOMAIN ipv6 : ipv6[i].cidr_prefix_length = 128
  <1> DEFINE ipv4 == Subnet(line, key, 4)
             ipv6 == Subnet(line, key, 6)
             x == [subnet_address |-> line[key].octets, cidr_prefix_length |-> line[key].length]
  <1>1. CASE key \notin DOMAIN line
    <2>1. ipv4 = << >> /\ ipv6 = << >>
      BY <1>1 DEF Subnet
    <2> QED BY <1>1, <2>1 DEF SubnetsSay
  <1>2. CASE key \in DOMAIN line /\ line[key].version = 4
    <2>1. ipv4 = <<x>> /\ ipv6 = << >>
      BY <1>2 DEF Subnet
    <2>2. DOMAIN ipv4 = {1} /\ ipv4[1] = x /\ ipv4 # << >>
      BY <2>1
    <2>3. Within(line[key], octets4, octets6) <=> Agree(octets4, x)
      BY <1>2 DEF Within
    <2> HIDE DEF x, ipv4, ipv6
    <2> QED BY <1>2, <2>1, <2>2, <2>3 DEF ipv4, ipv6, SubnetsSay
  <1>3. CASE key \in DOMAIN line /\ line[key].version = 6
    <2>1. ipv6 = <<x>> /\ ipv4 = << >>
      BY <1>3 DEF Subnet
    <2>2. DOMAIN ipv6 = {1} /\ ipv6[1] = x /\ ipv6 # << >> /\ x.cidr_prefix_length = line[key].length
      BY <2>1
    <2>3. Within(line[key], octets4, octets6) <=> Agree(octets6, x)
      BY <1>3 DEF Within
    <2> HIDE DEF x, ipv4, ipv6
    <2> QED BY <1>3, <2>1, <2>2, <2>3 DEF ipv4, ipv6, SubnetsSay
  <1>4. key \in DOMAIN line => line[key].version \in {4, 6}
    BY DEF PrefixValues
  <1> QED BY <1>1, <1>2, <1>3, <1>4

\* The lists the filter compares as they are written are lists it looks at.
LEMMA ComparedLists ==
    /\ LookedLists \subseteq Conditions /\ LookedLists \subseteq VectorFields
    /\ \A line : Compared(line) \subseteq LookedLists
    /\ \A line : "vlans" \in Compared(line) \cap DOMAIN line =>
           \A i \in DOMAIN line["vlans"] : ~(line["vlans"][i] >= 2 ^ 16)
  <1>1. LookedLists \subseteq Conditions /\ LookedLists \subseteq VectorFields
    BY DEF Conditions, LookedLists, VectorFields
  <1>2. Conditions \ Unlooked \subseteq LookedLists
    BY DEF Conditions, LookedLists, VectorFields, Unlooked
  <1>3. \A line : Compared(line) \subseteq LookedLists
    BY <1>2 DEF Compared
  <1>4. \A line : "vlans" \in Compared(line) \cap DOMAIN line =>
           \A i \in DOMAIN line["vlans"] : ~(line["vlans"][i] >= 2 ^ 16)
    BY DEF Compared
  <1> QED BY <1>1, <1>3, <1>4

(***************************************************************************)
(* A line and the rule read from it: what meets the line meets the rule,   *)
(* what meets the rule meets the conditions of the line that are compared  *)
(* as written, and a decidable line gives a decidable rule.                *)
(***************************************************************************)
LEMMA LineSays ==
    ASSUME NEW p \in Seen, NEW line \in Lines, NEW rule, rule # NoRule,
           rule = read_flow_spec_from_json_to_native_format(line, FALSE)
    PROVE  /\ Meets(p, line, Conditions) => RuleMet(p, rule)
           /\ RuleMet(p, rule) => Meets(p, line, Compared(line))
           /\ Decidable(line) => RuleDecidable(rule)
  <1> DEFINE said(f) == rule[f] # << >> => \E i \in DOMAIN rule[f] : RuleSays(f, rule[f][i], p)
             written(key) == line[key] # << >> => \E i \in DOMAIN line[key] : Says(key, line[key][i], p)
             source == "source_prefix" \in DOMAIN line => Within(line["source_prefix"], p.src_ip, p.src_ipv6)
             destination ==
                 "destination_prefix" \in DOMAIN line => Within(line["destination_prefix"], p.dst_ip, p.dst_ipv6)
  <1>0. rule = RuleOf(line) /\ RuleOf(line) # NoRule
    BY DEF RuleOf
  <1>1. /\ rule.source_subnet_ipv4 = Subnet(line, "source_prefix", 4)
        /\ rule.source_subnet_ipv6 = Subnet(line, "source_prefix", 6)
        /\ rule.destination_subnet_ipv4 = Subnet(line, "destination_prefix", 4)
        /\ rule.destination_subnet_ipv6 = Subnet(line, "destination_prefix", 6)
        /\ \A key \in DOMAIN line \cap PrefixKeys : line[key] \in PrefixValues
    BY LoadedParts
  <1>2. /\ "source_prefix" \in DOMAIN line => line["source_prefix"] \in PrefixValues
        /\ "destination_prefix" \in DOMAIN line => line["destination_prefix"] \in PrefixValues
    BY <1>1 DEF PrefixKeys
  <1>3. source <=> said("source_subnet_ipv4") /\ said("source_subnet_ipv6")
    <2>1. said("source_subnet_ipv4") /\ said("source_subnet_ipv6") <=>
             SubnetsSay(rule["source_subnet_ipv4"], rule["source_subnet_ipv6"], p.src_ip, p.src_ipv6)
      BY DEF RuleSays, SubnetsSay
    <2> HIDE DEF said
    <2>2. source <=> SubnetsSay(Subnet(line, "source_prefix", 4), Subnet(line, "source_prefix", 6),
                                 p.src_ip, p.src_ipv6)
      BY <1>2, PrefixSays
    <2> HIDE DEF source
    <2> QED BY <1>1, <2>1, <2>2
  <1>4. destination <=> said("destination_subnet_ipv4") /\ said("destination_subnet_ipv6")
    <2>1. said("destination_subnet_ipv4") /\ said("destination_subnet_ipv6") <=>
             SubnetsSay(rule["destination_subnet_ipv4"], rule["destination_subnet_ipv6"], p.dst_ip, p.dst_ipv6)
      BY DEF RuleSays, SubnetsSay
    <2> HIDE DEF said
    <2>2. destination <=> SubnetsSay(Subnet(line, "destination_prefix", 4), Subnet(line, "destination_prefix", 6),
                                 p.dst_ip, p.dst_ipv6)
      BY <1>2, PrefixSays
    <2> HIDE DEF destination
    <2> QED BY <1>1, <2>1, <2>2
  <1>5. ASSUME NEW key \in LookedLists \cap DOMAIN line
        PROVE  /\ rule[key] # << >> <=> line[key] # << >>
               /\ DOMAIN rule[key] = DOMAIN line[key]
               /\ \A i \in DOMAIN line[key] :
                      /\ rule[key][i] = Stored(key, line[key][i])
                      /\ line[key][i] \in Elements(key) /\ Readable(key, line[key][i])
    <2>1. key \in VectorFields \cap DOMAIN line
      BY ComparedLists
    <2>2. /\ rule[key] = StoredList(key, line[key]) /\ line[key] \in Seq(Elements(key))
          /\ \A i \in DOMAIN line[key] : Readable(key, line[key][i])
      BY <1>0, <2>1, LoadedLists
    <2>3. DOMAIN StoredList(key, line[key]) = DOMAIN line[key]
          /\ \A i \in DOMAIN line[key] : StoredList(key, line[key])[i] = Stored(key, line[key][i])
      BY DEF StoredList
    <2>4. StoredList(key, line[key]) # << >> <=> line[key] # << >>
      <3>1. line[key] = << >> <=> DOMAIN line[key] = {}
        BY <2>2
      <3>2. StoredList(key, line[key]) = << >> <=> DOMAIN line[key] = {}
        BY <2>2 DEF StoredList
      <3> QED BY <3>1, <3>2
    <2>5. \A i \in DOMAIN line[key] : line[key][i] \in Elements(key)
      BY <2>2
    <2> QED BY <2>2, <2>3, <2>4, <2>5
  <1>6. ASSUME NEW key \in LookedLists \cap DOMAIN line, NEW i \in DOMAIN line[key],
               key = "vlans" => line[key][i] < 2 ^ 16
        PROVE  Says(key, line[key][i], p) <=> RuleSays(key, rule[key][i], p)
    BY <1>5, <1>6, ValueSays
  <1>7. ASSUME NEW key \in LookedLists \cap DOMAIN line, NEW i \in DOMAIN line[key],
               Says(key, line[key][i], p)
        PROVE  key = "vlans" => line[key][i] < 2 ^ 16
    <2>1. SUFFICES ASSUME key = "vlans" PROVE line[key][i] < 2 ^ 16
      OBVIOUS
    <2>2. p.vlan = line[key][i] /\ p.vlan \in 0 .. 2 ^ 16 - 1
      BY <1>7, <2>1, SeenAssumption DEF Says
    <2> QED BY <2>2
  <1>8. ASSUME NEW f \in LookedLists, f \in DOMAIN line => written(f)
        PROVE  said(f)
    <2>1. CASE f \notin DOMAIN line
      BY <1>0, <2>1, ComparedLists, LoadedLists
    <2>2. CASE f \in DOMAIN line
      BY <1>5, <1>6, <1>7, <1>8, <2>2
    <2> QED BY <2>1, <2>2
  <1>9. ASSUME NEW key \in Compared(line) \cap DOMAIN line, said(key)
        PROVE  written(key)
    <2>1. key \in LookedLists \cap DOMAIN line
      BY ComparedLists
    <2>2. ASSUME NEW i \in DOMAIN line[key], key = "vlans"
          PROVE  line[key][i] < 2 ^ 16
      <3>1. line[key][i] \in Int
        BY <1>5, <2>1, <2>2 DEF Elements
      <3>2. ~(line[key][i] >= 2 ^ 16)
        BY <2>2, ComparedLists
      <3> QED BY <3>1, <3>2
    <2> QED BY <1>5, <1>6, <1>9, <2>1, <2>2
  <1> HIDE DEF said, written, source, destination
  <1>10. RuleMet(p, rule) <=> (\A f \in LookedLists : said(f)) /\ \A f \in SubnetFields : said(f)
    BY DEF RuleMet, said
  <1>11. \A lists : Meets(p, line, lists) <=>
            source /\ destination /\ \A key \in DOMAIN line \cap lists : written(key)
    BY DEF Meets, source, destination, written
  <1>12. (\A f \in SubnetFields : said(f)) <=> source /\ destination
    BY <1>3, <1>4 DEF SubnetFields
  <1>13. Meets(p, line, Conditions) => RuleMet(p, rule)
    BY <1>8, <1>10, <1>11, <1>12, ComparedLists
  <1>14. RuleMet(p, rule) => Meets(p, line, Compared(line))
    BY <1>9, <1>10, <1>11, <1>12, ComparedLists
  <1>15. Decidable(line) => RuleDecidable(rule)
    <2> SUFFICES ASSUME Decidable(line) PROVE RuleDecidable(rule)
      OBVIOUS
    <2>1. ASSUME NEW i \in DOMAIN rule["fragmentation_flags"]
          PROVE  rule["fragmentation_flags"][i] \in {"FLOW_SPEC_DONT_FRAGMENT", "FLOW_SPEC_IS_A_FRAGMENT"}
      <3>1. "fragmentation_flags" \in LookedLists \cap VectorFields
        BY ComparedLists DEF LookedLists
      <3>2. CASE "fragmentation_flags" \notin DOMAIN line
        <4>1. rule["fragmentation_flags"] = << >>
          BY <1>0, <3>1, <3>2, LoadedLists
        <4>2. DOMAIN << >> = {}
          OBVIOUS
        <4> QED BY <2>1, <4>1, <4>2
      <3>3. CASE "fragmentation_flags" \in DOMAIN line
        <4> DEFINE v == line["fragmentation_flags"][i]
        <4>1. /\ i \in DOMAIN line["fragmentation_flags"]
              /\ rule["fragmentation_flags"][i] = Stored("fragmentation_flags", v)
          BY <1>5, <3>1, <3>3
        <4>2. v \in {"dont-fragment", "is-fragment"}
          BY <3>3, <4>1 DEF Decidable, ToSet
        <4>3. v \in {fragment_name[t] : t \in DOMAIN fragment_name}
          BY <4>2 DEF fragment_name
        <4>4. PICK t \in DOMAIN fragment_name : t = Named(fragment_name, v) /\ fragment_name[t] = v
          BY <4>3, FragmentNamed
        <4>5. Stored("fragmentation_flags", v) = t
          BY <4>4 DEF Stored
        <4>6. t \in {"FLOW_SPEC_DONT_FRAGMENT", "FLOW_SPEC_IS_A_FRAGMENT"}
          BY <4>2, <4>4 DEF fragment_name
        <4> QED BY <4>1, <4>5, <4>6
      <3> QED BY <3>2, <3>3
    <2>2. /\ "source_prefix" \in DOMAIN line /\ line["source_prefix"].version = 6 =>
                 line["source_prefix"].length = 128
          /\ "destination_prefix" \in DOMAIN line /\ line["destination_prefix"].version = 6 =>
                 line["destination_prefix"].length = 128
      BY DEF Decidable, PrefixKeys
    <2>3. \A i \in DOMAIN rule["source_subnet_ipv6"] : rule["source_subnet_ipv6"][i].cidr_prefix_length = 128
      <3>1. \A i \in DOMAIN Subnet(line, "source_prefix", 6) :
               Subnet(line, "source_prefix", 6)[i].cidr_prefix_length = 128
        BY <1>2, <2>2, PrefixSays
      <3> QED BY <1>1, <3>1
    <2>4. \A i \in DOMAIN rule["destination_subnet_ipv6"] : rule["destination_subnet_ipv6"][i].cidr_prefix_length = 128
      <3>1. \A i \in DOMAIN Subnet(line, "destination_prefix", 6) :
               Subnet(line, "destination_prefix", 6)[i].cidr_prefix_length = 128
        BY <1>2, <2>2, PrefixSays
      <3> QED BY <1>1, <3>1
    <2>5. ToSet(rule["fragmentation_flags"]) \subseteq {"FLOW_SPEC_DONT_FRAGMENT", "FLOW_SPEC_IS_A_FRAGMENT"}
      BY <2>1 DEF ToSet
    <2>6. \A f \in {"source_subnet_ipv6", "destination_subnet_ipv6"} :
             \A i \in DOMAIN rule[f] : rule[f][i].cidr_prefix_length = 128
      <3> TAKE f \in {"source_subnet_ipv6", "destination_subnet_ipv6"}
      <3>1. CASE f = "source_subnet_ipv6"
        BY <2>3, <3>1
      <3>2. CASE f = "destination_subnet_ipv6"
        BY <2>4, <3>2
      <3> QED BY <3>1, <3>2
    <2> QED BY <2>5, <2>6 DEF RuleDecidable
  <1> QED BY <1>13, <1>14, <1>15

-----------------------------------------------------------------------------
(* The inductive invariant of the whitelist.                               *)

\* Every rule in use came from a line that was read and was printed, every line
\* that was read and could be is in use, and a packet is filtered once all
\* lines are read.
WhitelistInv ==
    /\ whitelist_rules_json \in Seq(Lines)
    /\ lines_read \in 0 .. Len(whitelist_rules_json)
    /\ static_flowspec_based_whitelist \in Seq(LoadedRules)
    /\ \A i \in DOMAIN static_flowspec_based_whitelist : \E n \in 1 .. lines_read :
           static_flowspec_based_whitelist[i] = RuleOf(whitelist_rules_json[n])
    /\ \A n \in 1 .. lines_read :
           \/ RuleOf(whitelist_rules_json[n]) = NoRule
           \/ \E i \in DOMAIN static_flowspec_based_whitelist :
                  static_flowspec_based_whitelist[i] = RuleOf(whitelist_rules_json[n])
    /\ logged = [i \in DOMAIN static_flowspec_based_whitelist |->
                    encode_flow_spec_to_json_raw(static_flowspec_based_whitelist[i])]
    /\ filtered # NotFiltered =>
           /\ lines_read = Len(whitelist_rules_json)
           /\ filtered.packet \in Seen
           /\ filtered.matched =
                  filter_packet_by_flowspec_rule_list(filtered.packet, static_flowspec_based_whitelist)

\* The program starts with an empty whitelist and an unread file.
LEMMA WhitelistInitInv == RulesInit => WhitelistInv
  <1> SUFFICES ASSUME RulesInit PROVE WhitelistInv
    OBVIOUS
  <1>1. /\ static_flowspec_based_whitelist = << >> /\ logged = << >> /\ filtered = NotFiltered
        /\ lines_read = 0
        /\ \/ whitelist_rules_json = << >>
           \/ whitelist_rules_json \in UNION {[1 .. n -> Lines] : n \in 0 .. MaxLines}
    BY DEF RulesInit, NoWhitelist, WhitelistInit
  <1>2. whitelist_rules_json \in Seq(Lines) /\ lines_read \in 0 .. Len(whitelist_rules_json)
    <2>1. CASE whitelist_rules_json \in UNION {[1 .. n -> Lines] : n \in 0 .. MaxLines}
      <3>1. PICK n \in 0 .. MaxLines : whitelist_rules_json \in [1 .. n -> Lines]
        BY <2>1
      <3>2. n \in Nat
        BY <3>1, MaxLinesAssumption
      <3>3. whitelist_rules_json \in Seq(Lines)
        BY <3>1, <3>2
      <3> QED BY <1>1, <3>3
    <2>2. CASE whitelist_rules_json = << >>
      BY <1>1, <2>2
    <2> QED BY <1>1, <2>1, <2>2
  <1>3. [i \in DOMAIN << >> |-> encode_flow_spec_to_json_raw(<< >>[i])] = << >>
    OBVIOUS
  <1>4. DOMAIN << >> = {} /\ 1 .. 0 = {} /\ << >> \in Seq(LoadedRules)
    OBVIOUS
  <1> QED BY <1>1, <1>2, <1>3, <1>4 DEF WhitelistInv

\* One more rule and its JSON.
LEMMA AppendPrinted ==
    ASSUME NEW list \in Seq(LoadedRules), NEW rule \in LoadedRules
    PROVE  Append([i \in DOMAIN list |-> encode_flow_spec_to_json_raw(list[i])], encode_flow_spec_to_json_raw(rule))
             = [i \in DOMAIN Append(list, rule) |-> encode_flow_spec_to_json_raw(Append(list, rule)[i])]
  <1> DEFINE Printed == {encode_flow_spec_to_json_raw(r) : r \in LoadedRules}
             map == [i \in DOMAIN list |-> encode_flow_spec_to_json_raw(list[i])]
             one == encode_flow_spec_to_json_raw(rule)
             long == Append(list, rule)
  <1>1. map \in Seq(Printed) /\ Len(map) = Len(list) /\ one \in Printed
    OBVIOUS
  <1>2. /\ long \in Seq(LoadedRules) /\ Len(long) = Len(list) + 1 /\ DOMAIN long = 1 .. Len(list) + 1
        /\ \A i \in 1 .. Len(list) : long[i] = list[i]
        /\ long[Len(list) + 1] = rule
    OBVIOUS
  <1>3. /\ Append(map, one) \in Seq(Printed) /\ DOMAIN Append(map, one) = 1 .. Len(list) + 1
        /\ \A i \in 1 .. Len(list) : Append(map, one)[i] = map[i]
        /\ Append(map, one)[Len(list) + 1] = one
    <2>1. Len(list) \in Nat
      OBVIOUS
    <2> HIDE DEF map, one, Printed
    <2> QED BY <1>1, <2>1
  <1>4. \A i \in 1 .. Len(list) : map[i] = encode_flow_spec_to_json_raw(long[i])
    BY <1>2
  <1> HIDE DEF map, long
  <1>5. \A i \in 1 .. Len(list) + 1 : Append(map, one)[i] = encode_flow_spec_to_json_raw(long[i])
    BY <1>2, <1>3, <1>4
  <1>6. Append(map, one) = [i \in 1 .. Len(list) + 1 |-> Append(map, one)[i]]
    <2>1. \A s \in Seq(Printed) : s = [i \in DOMAIN s |-> s[i]]
      OBVIOUS
    <2> QED BY <1>3, <2>1
  <1>7. Append(map, one) = [i \in DOMAIN long |-> encode_flow_spec_to_json_raw(long[i])]
    BY <1>2, <1>5, <1>6
  <1> QED BY <1>7 DEF map, long

\* load_whitelist_rule appends the rule of a readable line.
LEMMA LoadKeepsInv == ASSUME WhitelistInv, load_whitelist_rule PROVE WhitelistInv'
  <1> DEFINE file == whitelist_rules_json
             rule == RuleOf(file[lines_read + 1])
             list == static_flowspec_based_whitelist
  <1>1. /\ lines_read < Len(file) /\ lines_read' = lines_read + 1
        /\ file' = file /\ filtered' = filtered
        /\ IF rule = NoRule THEN list' = list /\ logged' = logged
           ELSE /\ logged' = Append(logged, encode_flow_spec_to_json_raw(rule))
                /\ list' = Append(list, rule)
    BY DEF load_whitelist_rule, RuleOf
  <1>2. /\ file \in Seq(Lines) /\ lines_read \in 0 .. Len(file) /\ Len(file) \in Nat
        /\ \A i \in DOMAIN list : \E n \in 1 .. lines_read : list[i] = RuleOf(file[n])
        /\ \A n \in 1 .. lines_read :
               RuleOf(file[n]) = NoRule \/ \E i \in DOMAIN list : list[i] = RuleOf(file[n])
        /\ list \in Seq(LoadedRules)
        /\ logged = [i \in DOMAIN list |-> encode_flow_spec_to_json_raw(list[i])]
    BY DEF WhitelistInv
  <1>3. /\ lines_read' \in 0 .. Len(file) /\ lines_read + 1 \in 1 .. Len(file)
        /\ 1 .. lines_read + 1 = (1 .. lines_read) \cup {lines_read + 1}
        /\ file[lines_read + 1] \in Lines
    BY <1>1, <1>2
  <1>4. filtered' = NotFiltered /\ NotFiltered' = NotFiltered
    BY <1>1, <1>2 DEF WhitelistInv, NotFiltered
  <1>5. CASE rule = NoRule
    <2>1. list' = list /\ logged' = logged
      BY <1>1, <1>5
    <2>2. \A n \in 1 .. lines_read + 1 :
             RuleOf(file[n]) = NoRule \/ \E i \in DOMAIN list : list[i] = RuleOf(file[n])
      BY <1>2, <1>3, <1>5
    <2>3. \A i \in DOMAIN list : \E n \in 1 .. lines_read + 1 : list[i] = RuleOf(file[n])
      BY <1>2, <1>3
    <2> QED BY <1>1, <1>2, <1>3, <1>4, <2>1, <2>2, <2>3 DEF WhitelistInv, RuleOf
  <1>6. CASE rule # NoRule
    <2>1. rule \in LoadedRules
      BY <1>3, <1>6 DEF LoadedRules
    <2> HIDE DEF rule, list, file
    <2>2. list' = Append(list, rule) /\ Append(list, rule) \in Seq(LoadedRules)
      BY <1>1, <1>2, <1>6, <2>1
    <2>3. /\ DOMAIN Append(list, rule) = (DOMAIN list) \cup {Len(list) + 1}
          /\ \A i \in DOMAIN list : Append(list, rule)[i] = list[i]
          /\ Append(list, rule)[Len(list) + 1] = rule
      BY <1>2, <2>1
    <2>4. Append([i \in DOMAIN list |-> encode_flow_spec_to_json_raw(list[i])], encode_flow_spec_to_json_raw(rule))
             = [i \in DOMAIN Append(list, rule) |-> encode_flow_spec_to_json_raw(Append(list, rule)[i])]
      BY <1>2, <2>1, AppendPrinted
    <2>5. logged' = [i \in DOMAIN list' |-> encode_flow_spec_to_json_raw(list'[i])]
      BY <1>1, <1>2, <1>6, <2>2, <2>4
    <2>6. \A i \in DOMAIN Append(list, rule) : \E n \in 1 .. lines_read + 1 :
             Append(list, rule)[i] = RuleOf(file[n])
      BY <1>2, <1>3, <2>3 DEF rule
    <2>7. \A n \in 1 .. lines_read + 1 :
             RuleOf(file[n]) = NoRule \/ \E i \in DOMAIN Append(list, rule) : Append(list, rule)[i] = RuleOf(file[n])
      BY <1>2, <1>3, <2>3 DEF rule
    <2>8. \A i \in DOMAIN list' : \E n \in 1 .. lines_read' : list'[i] = RuleOf(file[n])
      BY <1>1, <2>2, <2>6
    <2>9. \A n \in 1 .. lines_read' :
             RuleOf(file[n]) = NoRule \/ \E i \in DOMAIN list' : list'[i] = RuleOf(file[n])
      BY <1>1, <2>2, <2>7
    <2> QED BY <1>1, <1>2, <1>3, <1>4, <2>2, <2>5, <2>8, <2>9 DEF WhitelistInv, RuleOf, list, file
  <1> QED BY <1>5, <1>6

\* A packet changes neither the rules nor the log.
LEMMA FilterKeepsInv ==
    ASSUME WhitelistInv, NEW p \in Seen, FilterPacket(p) PROVE WhitelistInv'
  BY DEF WhitelistInv, FilterPacket, NotFiltered, filter_packet_by_flowspec_rule_list, RuleOf

\* No step of the three kinds of work breaks WhitelistInv.
LEMMA WhitelistStepInv == WhitelistInv /\ [RulesNext]_rulesVars => WhitelistInv'
  <1> SUFFICES ASSUME WhitelistInv, [RulesNext]_rulesVars PROVE WhitelistInv'
    OBVIOUS
  <1>1. CASE UNCHANGED whitelistVars
    BY <1>1 DEF whitelistVars, WhitelistInv, NotFiltered, filter_packet_by_flowspec_rule_list, RuleOf
  <1>2. CASE load_whitelist_rule
    BY <1>2, LoadKeepsInv
  <1>3. CASE \E p \in Seen : FilterPacket(p)
    BY <1>3, FilterKeepsInv
  <1> QED BY <1>1, <1>2, <1>3 DEF RulesNext, rulesVars, WhitelistNext

\* WhitelistInv is inductive.
LEMMA WhitelistInvariant == RulesSpec => []WhitelistInv
  BY WhitelistInitInv, WhitelistStepInv, PTL DEF RulesSpec

(***************************************************************************)
(* The rule load_whitelist_rules prints is the rule it uses: whatever the  *)
(* file holds, the JSON in the log read again gives the rule, or the rule  *)
(* without TCP flags where TCP is not among its protocols.                 *)
(***************************************************************************)
THEOREM WhitelistPrintsWhatItUses == RulesSpec => []PrintedRuleReadsBack
  <1>1. WhitelistInv => PrintedRuleReadsBack
    <2> SUFFICES ASSUME WhitelistInv, NEW i \in DOMAIN logged
                 PROVE  LET rule  == static_flowspec_based_whitelist[i]
                            again == read_flow_spec_from_json_to_native_format(logged[i], TRUE)
                        IN  IF TCP \in ToSet(rule.protocols) THEN again = rule
                            ELSE again = [rule EXCEPT !["tcp_flags"] = << >>]
      BY DEF PrintedRuleReadsBack
    <2>1. /\ static_flowspec_based_whitelist[i] \in LoadedRules
          /\ logged[i] = encode_flow_spec_to_json_raw(static_flowspec_based_whitelist[i])
      BY DEF WhitelistInv
    <2> QED BY <2>1, RuleReadsBack
  <1> QED BY <1>1, WhitelistInvariant, PTL

(***************************************************************************)
(* For every whitelist file and every packet (of at most 65535 octets):    *)
(* the filter keeps out every packet that meets all a line says, if it can *)
(* decide the line, and keeps out only packets that meet every condition   *)
(* of some line that filter_packet_by_flowspec_rule compares as written,   *)
(* which is all of them for a line without TTLs, AS numbers, interfaces,   *)
(* agent addresses and VLANs of more than 16 bits.  It needs WhitelistInv: *)
(* the rules are those of the readable lines, and none is missing or added *)
(* once packets come.                                                      *)
(***************************************************************************)
THEOREM FilterIsExact == RulesSpec => []FilterMatchesReference
  <1>1. WhitelistInv => FilterMatchesReference
    <2> DEFINE p    == filtered.packet
               file == whitelist_rules_json
               list == static_flowspec_based_whitelist
               used == {line \in ToSet(file) : RuleOf(line) # NoRule}
    <2> SUFFICES ASSUME WhitelistInv, filtered # NotFiltered, p.length < 2 ^ 16, p.ip_length < 2 ^ 16
                 PROVE  /\ filtered.matched => \E line \in used : Meets(p, line, Compared(line))
                        /\ (\E line \in used : Decidable(line) /\ Meets(p, line, Conditions)) =>
                               filtered.matched
      BY DEF FilterMatchesReference, RuleOf
    <2>1. /\ p \in Seen /\ list \in Seq(LoadedRules) /\ file \in Seq(Lines)
          /\ \A i \in DOMAIN list : \E n \in 1 .. Len(file) : list[i] = RuleOf(file[n])
          /\ \A n \in 1 .. Len(file) :
                 RuleOf(file[n]) = NoRule \/ \E i \in DOMAIN list : list[i] = RuleOf(file[n])
          /\ filtered.matched <=> \E i \in DOMAIN list : filter_packet_by_flowspec_rule(p, list[i])
      BY DEF WhitelistInv, filter_packet_by_flowspec_rule_list
    <2> HIDE DEF p, list, file
    <2>2. /\ \A n \in 1 .. Len(file) : RuleOf(file[n]) # NoRule => file[n] \in used
          /\ \A line \in used : /\ line \in Lines /\ RuleOf(line) # NoRule
                                 /\ \E n \in 1 .. Len(file) : line = file[n]
      BY <2>1 DEF ToSet
    <2>3. \A i \in DOMAIN list : list[i] \in LoadedRules /\ list[i] # NoRule
      BY <2>1 DEF LoadedRules
    <2> HIDE DEF used
    <2>4. ASSUME filtered.matched
          PROVE  \E line \in used : Meets(p, line, Compared(line))
      <3>1. PICK i \in DOMAIN list : filter_packet_by_flowspec_rule(p, list[i])
        BY <2>1, <2>4
      <3>2. PICK n \in 1 .. Len(file) : list[i] = RuleOf(file[n])
        BY <2>1
      <3>3. file[n] \in used /\ file[n] \in Lines
        BY <2>2, <2>3, <3>2
      <3>4. RuleMet(p, list[i])
        BY <2>1, <2>3, <3>1, FilterDecides DEF p
      <3>5. Meets(p, file[n], Compared(file[n]))
        BY <2>1, <2>3, <3>2, <3>3, <3>4, LineSays DEF RuleOf
      <3> QED BY <3>3, <3>5
    <2>5. ASSUME NEW line \in used, Decidable(line), Meets(p, line, Conditions)
          PROVE  filtered.matched
      <3>1. line \in Lines /\ RuleOf(line) # NoRule
        BY <2>2
      <3>2. PICK i \in DOMAIN list : list[i] = RuleOf(line)
        BY <2>1, <2>2
      <3>3. RuleMet(p, list[i]) /\ RuleDecidable(list[i])
        BY <2>1, <2>5, <3>1, <3>2, LineSays DEF RuleOf
      <3>4. filter_packet_by_flowspec_rule(p, list[i])
        BY <2>1, <2>3, <3>3, FilterDecides DEF p
      <3> QED BY <2>1, <3>4
    <2> QED BY <2>4, <2>5
  <1> QED BY <1>1, WhitelistInvariant, PTL
=============================================================================
