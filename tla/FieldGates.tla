----------------------------- MODULE FieldGates -----------------------------
(***************************************************************************)
(* Comparison and list gates of the circuits, over the prime field with P  *)
(* elements (circom/circuits/src/utilities and circomlib's comparators).   *)
(* A comparison of n bits decomposes a + 2^n - b into n + 1 bits.  When it *)
(* has more, no value of the signals satisfies the circuit and there is    *)
(* no proof: each gate comes with the condition under which it is          *)
(* satisfied.  Lists are functions on 0..n-1, indicator lists the sets of  *)
(* the indices marked with 1.  A field element is the integer nearest to   *)
(* zero that represents it: P - 1 is -1.                                   *)
(***************************************************************************)
EXTENDS Integers, FiniteSetsExt

CONSTANT P  \* the modulus

ASSUME PrimeAssumption == P \in Nat /\ P > 2 /\ \A d \in 2..(P - 1) : P % d # 0

FieldElements == -(P \div 2)..(P \div 2)

\* The powers of two, as a function: the provers know nothing of 2^n.
Power2[n \in Nat] == IF n = 0 THEN 1 ELSE 2 * Power2[n - 1]

\* Faulty: the sum is decomposed into n bits.
ComparableNarrow(n, a, b) == (a + Power2[n] - b) % P < Power2[n]

\* The two circomlib gates: whether the sum has n + 1 bits, and whether bit n is 0.
Comparable(n, a, b)    == (a + Power2[n] - b) % P < Power2[n + 1]
LessThan(n, a, b)      == (a + Power2[n] - b) % P < Power2[n]
LessEqThan(n, a, b)    == LessThan(n, a, b + 1)
GreaterThan(n, a, b)   == LessThan(n, b, a)
GreaterEqThan(n, a, b) == LessThan(n, b, a + 1)

AssertBit(x) == (x * (1 - x)) % P = 0

\* Faulty: the output of the comparison is not constrained.
AssertLtEqOpen(n, a, b) == Comparable(n, a, b + 1)

AssertLtEq(n, a, b) == Comparable(n, a, b + 1) /\ LessEqThan(n, a, b)

\* ceil(log2(x + 1))
NumBits(x) == CHOOSE k \in 0..x : Power2[k] >= x + 1 /\ \A j \in 0..(k - 1) : Power2[j] < x + 1

SumOver(S, list) == MapThenSumSet(LAMBDA i : list[i], S)
Size(list)       == Cardinality(DOMAIN list)

\* runningMaxValue, runningMinValue
RunningMax(bits, list) ==
  LET run[i \in DOMAIN list] ==
        IF i = 0 THEN list[0]
        ELSE IF GreaterThan(bits, list[i], run[i - 1]) THEN list[i] ELSE run[i - 1]
  IN run

RunningMin(bits, list) ==
  LET run[i \in DOMAIN list] ==
        IF i = 0 THEN list[0]
        ELSE IF LessThan(bits, list[i], run[i - 1]) THEN list[i] ELSE run[i - 1]
  IN run

MaxValue(bits, list) == RunningMax(bits, list)[Size(list) - 1]
MinValue(bits, list) == RunningMin(bits, list)[Size(list) - 1]

MaxSatisfied(bits, list) ==
  LET run == RunningMax(bits, list)
  IN \A i \in DOMAIN list \ {0} : Comparable(bits, run[i - 1], list[i])

MinSatisfied(bits, list) ==
  LET run == RunningMin(bits, list)
  IN \A i \in DOMAIN list \ {0} : Comparable(bits, list[i], run[i - 1])

IdxEqual(list, test) == {i \in DOMAIN list : list[i] = test}
CountEqual(list, test) == Cardinality(IdxEqual(list, test))
CountGreater(bits, list, test) ==
  Cardinality({i \in DOMAIN list : GreaterThan(bits, list[i], test)})

\* computeMaximumIndicator, computeMinimumIndicator
MaximumIndicator(bits, list) == IdxEqual(list, MaxValue(bits, list))
MinimumIndicator(bits, list) == IdxEqual(list, MinValue(bits, list))

\* computeThresholdIndicator
ThresholdIndicator(bits, list, threshold) ==
  {i \in DOMAIN list : GreaterEqThan(bits, list[i], threshold)}

ThresholdSatisfied(bits, list, threshold) ==
  \A i \in DOMAIN list : Comparable(bits, threshold, list[i] + 1)

\* Faulty: as many as m entries may be greater.
HighestMEntriesOneMore(bits, list, m) ==
  {i \in DOMAIN list : LessEqThan(bits, CountGreater(bits, list, list[i]), m)}

\* computeHighestMEntries: fewer than m entries are greater.
HighestMEntries(bits, list, m) ==
  {i \in DOMAIN list : LessThan(bits, CountGreater(bits, list, list[i]), m)}

HighestMSatisfied(bits, list, m) ==
  \A i \in DOMAIN list :
    /\ \A j \in DOMAIN list : Comparable(bits, list[i], list[j])
    /\ Comparable(bits, CountGreater(bits, list, list[i]), m)
=============================================================================
