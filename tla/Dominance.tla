----------------------------- MODULE Dominance -----------------------------
(***************************************************************************)
(* The share arithmetic of the FlowSpec port classifier.  A weight is an   *)
(* unsigned 64-bit counter in the code; MaxWeight is its largest value.    *)
(* Sums and products of weights saturate there instead of wrapping, and    *)
(* shares are compared without ever forming weight * 100.                  *)
(***************************************************************************)
EXTENDS Naturals

CONSTANT MaxWeight    \* std::numeric_limits<uint64_t>::max()

ASSUME DominanceAssumption == MaxWeight \in Nat

Weights == 0..MaxWeight

saturating_add(first, second) ==
    IF MaxWeight - first < second THEN MaxWeight ELSE first + second

saturating_multiply(first, second) ==
    IF first # 0 /\ second > MaxWeight \div first THEN MaxWeight ELSE first * second

\* The smallest weight that is `percent` percent of `denominator`.
threshold(denominator, percent) ==
    (denominator \div 100) * percent + ((denominator % 100) * percent + 99) \div 100

\* Mutant: the remainder's part of the threshold is rounded down.
RoundedDown(numerator, denominator, percent) ==
    /\ denominator # 0
    /\ numerator >= (denominator \div 100) * percent + ((denominator % 100) * percent) \div 100

meets_dominance_percent(numerator, denominator, percent) ==
    /\ denominator # 0
    /\ numerator >= threshold(denominator, percent)

\* The loop counts candidates up from 1 and stops at the first one missed.
calculate_dominance_percent(numerator, denominator) ==
    CHOOSE result \in 0..100 :
        /\ \A candidate \in 1..result :
               meets_dominance_percent(numerator, denominator, candidate)
        /\ result < 100 =>
               ~meets_dominance_percent(numerator, denominator, result + 1)

=============================================================================
