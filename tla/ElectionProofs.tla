--------------------------- MODULE ElectionProofs ---------------------------
(***************************************************************************)
(* Theorems about Election, for every number of candidates, grades, votes  *)
(* and bits that the assumptions allow and every prime that is great       *)
(* enough.                                                                 *)
(*                                                                         *)
(* The gates come first: when a comparison of field elements says what its *)
(* name does.  Then what a ballot of each kind weighs, what the result     *)
(* functions compute of a tally, and the invariant, which says that the    *)
(* tally is within what its voters can assign and that a result is that of *)
(* the final tally.                                                        *)
(***************************************************************************)
EXTENDS Election, LibraryFacts, TLAPS

-----------------------------------------------------------------------------
(***************************************************************************)
(* Powers of two and the gates that compare.                               *)
(***************************************************************************)
\* What the recursion says.
Doubles(f) == f = [n \in Nat |-> IF n = 0 THEN 1 ELSE 2 * f[n - 1]]

\* There is a function that doubles.
LEMMA DoublesExists == \E f : Doubles(f)
<1> DEFINE step == [n \in Nat |-> [v \in Nat |-> 2 * v]]
<1>1. 1 \in Nat /\ step \in [Nat -> [Nat -> Nat]]
  OBVIOUS
<1> HIDE DEF step
<1>2. PICK g \in [Nat -> Nat] : StepwiseOn(1, step, g)
  BY <1>1, NatRecursionExists
<1>3. ASSUME NEW n \in Nat
      PROVE  (IF n = 0 THEN 1 ELSE step[n][g[n - 1]]) = IF n = 0 THEN 1 ELSE 2 * g[n - 1]
  <2>1. n # 0 => n - 1 \in Nat /\ g[n - 1] \in Nat
    BY <1>2
  <2> QED BY <2>1 DEF step
<1>4. g = [n \in Nat |-> IF n = 0 THEN 1 ELSE step[n][g[n - 1]]]
  BY <1>2, Zenon DEF StepwiseOn
<1>5. [n \in Nat |-> IF n = 0 THEN 1 ELSE step[n][g[n - 1]]]
        = [n \in Nat |-> IF n = 0 THEN 1 ELSE 2 * g[n - 1]]
  BY <1>3
<1> QED BY <1>4, <1>5, Zenon DEF Doubles

\* The powers of two double.
LEMMA Power2Equation ==
  /\ Power2[0] = 1
  /\ \A n \in Nat : Power2[n + 1] = 2 * Power2[n]
<1>1. Doubles(CHOOSE f : Doubles(f))
  BY DoublesExists
<1>2. Power2 = CHOOSE f : Doubles(f)
  BY Zenon DEF Power2, Doubles
<1>3. Doubles(Power2)
  BY <1>1, <1>2, Zenon
<1>4. Power2 = [n \in Nat |-> IF n = 0 THEN 1 ELSE 2 * Power2[n - 1]]
  BY <1>3, Zenon DEF Doubles
<1>5. \A n \in Nat : Power2[n] = IF n = 0 THEN 1 ELSE 2 * Power2[n - 1]
  BY <1>4, Zenon
<1>6. Power2[0] = 1
  BY <1>5
<1>7. ASSUME NEW n \in Nat PROVE Power2[n + 1] = 2 * Power2[n]
  <2>1. n + 1 \in Nat /\ n + 1 # 0 /\ (n + 1) - 1 = n
    OBVIOUS
  <2> QED BY <1>5, <2>1
<1> QED BY <1>6, <1>7

\* They are positive, greater than their exponent, and grow.
LEMMA Power2Type ==
  ASSUME NEW n \in Nat
  PROVE  Power2[n] \in Nat /\ Power2[n] > n
<1> DEFINE N == {k \in Nat : Power2[k] \in Nat /\ Power2[k] > k}
<1>1. 0 \in N
  BY Power2Equation
<1>2. ASSUME NEW k \in Nat, k \in N PROVE k + 1 \in N
  BY <1>2, Power2Equation
<1> HIDE DEF N
<1>3. Nat \subseteq N
  BY <1>1, <1>2, NatSetInduction
<1> QED BY <1>3 DEF N

\* Exponents add.
LEMMA Power2Sum ==
  ASSUME NEW m \in Nat, NEW n \in Nat
  PROVE  Power2[m + n] = Power2[m] * Power2[n]
<1> DEFINE N == {k \in Nat : Power2[m + k] = Power2[m] * Power2[k]}
<1>0. Power2[m] \in Nat
  BY Power2Type
<1>1. 0 \in N
  BY <1>0, Power2Equation
<1>2. ASSUME NEW k \in Nat, k \in N PROVE k + 1 \in N
  <2>1. m + k \in Nat /\ m + (k + 1) = (m + k) + 1 /\ k + 1 \in Nat
    OBVIOUS
  <2>2. Power2[(m + k) + 1] = 2 * Power2[m + k] /\ Power2[k + 1] = 2 * Power2[k]
    BY <2>1, Power2Equation
  <2>3. Power2[m + k] = Power2[m] * Power2[k] /\ Power2[k] \in Nat
    BY <1>2, Power2Type
  <2>4. 2 * (Power2[m] * Power2[k]) = Power2[m] * (2 * Power2[k])
    BY <1>0, <2>3
  <2>5. Power2[m + (k + 1)] = Power2[m] * Power2[k + 1]
    BY <2>1, <2>2, <2>3, <2>4, Zenon
  <2> QED BY <2>1, <2>5
<1> HIDE DEF N
<1>3. Nat \subseteq N
  BY <1>1, <1>2, NatSetInduction
<1> QED BY <1>3 DEF N

\* numBits gives enough bits and no more than it takes.
LEMMA NumBitsRight ==
  ASSUME NEW x \in Nat
  PROVE  /\ NumBits(x) \in Nat
         /\ Power2[NumBits(x)] >= x + 1
         /\ Power2[NumBits(x)] <= 2 * x \/ Power2[NumBits(x)] = 1
<1> DEFINE enough(k) == k \in Nat /\ Power2[k] >= x + 1
           K == {k \in Nat \ {0} : enough(k - 1)}
           right(k) == k \in 0..x /\ Power2[k] >= x + 1 /\ \A j \in 0..(k - 1) : Power2[j] < x + 1
<1>1. x + 1 \in K
  BY Power2Type
<1>2. PICK k \in K : \A j \in K : k <= j
  <2>1. K \in SUBSET (Nat \ {0})
    OBVIOUS
  <2> HIDE DEF K
  <2> QED BY <1>1, <2>1, LeastExists
<1>3. k - 1 \in 0..x /\ Power2[k - 1] >= x + 1
  <2>1. k <= x + 1
    <3> HIDE DEF K
    <3> QED BY <1>1, <1>2
  <2> QED BY <2>1
<1>4. ASSUME NEW j \in 0..((k - 1) - 1) PROVE Power2[j] < x + 1
  <2>1. j \in Nat /\ j + 1 \in Nat \ {0} /\ (j + 1) - 1 = j /\ j + 1 < k
    BY <1>3
  <2>2. j + 1 \notin K
    <3>1. j + 1 \in K => k <= j + 1
      BY <1>2
    <3> QED BY <2>1, <3>1, <1>3
  <2>3. Power2[j] \in Nat
    BY <2>1, Power2Type
  <2> QED BY <2>1, <2>2, <2>3
<1>5. right(k - 1)
  BY <1>3, <1>4
<1>6. NumBits(x) = CHOOSE h \in 0..x : Power2[h] >= x + 1 /\ \A j \in 0..(h - 1) : Power2[j] < x + 1
  BY DEF NumBits
<1>7. right(NumBits(x))
  <2> HIDE DEF K
  <2> QED BY <1>5, <1>6
<1> DEFINE h == NumBits(x)
<1>8. h \in Nat /\ Power2[h] >= x + 1 /\ \A j \in 0..(h - 1) : Power2[j] < x + 1
  BY <1>7
<1> HIDE DEF h
<1>9. Power2[h] <= 2 * x \/ Power2[h] = 1
  <2>1. CASE h = 0
    BY <2>1, Power2Equation
  <2>2. CASE h # 0
    <3>1. h - 1 \in Nat /\ (h - 1) + 1 = h /\ h - 1 \in 0..(h - 1)
      BY <1>8, <2>2
    <3>2. Power2[h] = 2 * Power2[h - 1]
      BY <3>1, Power2Equation
    <3>3. Power2[h - 1] < x + 1 /\ Power2[h - 1] \in Nat
      BY <1>8, <3>1, Power2Type
    <3> QED BY <3>2, <3>3
  <2> QED BY <2>1, <2>2
<1> QED BY <1>8, <1>9 DEF h

\* A comparison whose sum does not leave the field says what its name does, and can be
\* satisfied unless one number exceeds the other by 2^n or more.
LEMMA ComparisonRight ==
  ASSUME NEW n \in Nat, NEW x \in Int, NEW y \in Int,
         0 <= x + Power2[n] - y, x + Power2[n] - y < P
  PROVE  /\ LessThan(n, x, y) <=> x < y
         /\ Comparable(n, x, y) <=> x < y + Power2[n]
<1>0. P \in Nat
  BY PrimeAssumption
<1>1. Power2[n] \in Nat /\ Power2[n + 1] = 2 * Power2[n]
  BY Power2Type, Power2Equation
<1>2. (x + Power2[n] - y) % P = x + Power2[n] - y
  BY <1>0, <1>1, ModSmall
<1> QED BY <1>1, <1>2 DEF LessThan, Comparable

\* One whose sum is negative is not satisfied.
LEMMA BelowIncomparable ==
  ASSUME NEW n \in Nat, NEW x \in Int, NEW y \in Int,
         x + Power2[n] - y < 0, y - x + Power2[n] <= P
  PROVE  ~Comparable(n, x, y)
<1>0. P \in Nat
  BY PrimeAssumption
<1>1. Power2[n] \in Nat /\ Power2[n + 1] = 2 * Power2[n]
  BY Power2Type, Power2Equation
<1> DEFINE s == x + Power2[n] - y
<1>2. s \in Int /\ s < 0 /\ s + P >= 2 * Power2[n]
  BY <1>0, <1>1
<1>3. Comparable(n, x, y) <=> s % P < 2 * Power2[n]
  BY <1>1, Zenon DEF Comparable
<1> HIDE DEF s
<1>4. s % P = s + P
  <2>1. s \in Int /\ P \in Nat /\ s < 0 /\ 0 <= s + P
    BY <1>0, <1>1, <1>2
  <2> QED BY <2>1, ModBelow
<1> QED BY <1>0, <1>1, <1>2, <1>3, <1>4

\* A bit is zero or one: no other element of the field is a root.
LEMMA BitRight ==
  ASSUME NEW x \in FieldElements
  PROVE  AssertBit(x) <=> x \in {0, 1}
<1>0. P \in Nat /\ P > 2 /\ x \in Int /\ 2 * x <= P /\ 0 - P <= 2 * x
  BY PrimeAssumption DEF FieldElements
<1>5. IsPrime(P)
  BY PrimeAssumption DEF IsPrime
<1>1. CASE x = 0
  BY <1>0, <1>1 DEF AssertBit
<1>2. CASE x = 1
  BY <1>0, <1>2 DEF AssertBit
<1>3. CASE x \notin {0, 1}
  <2>1. PICK u \in 1..(P - 1), w \in 1..(P - 1) : w * u = 0 - (x * (1 - x))
    <3>1. CASE x > 1
      <4>1. x \in 1..(P - 1) /\ x - 1 \in 1..(P - 1) /\ (x - 1) * x = 0 - (x * (1 - x))
        BY <1>0, <3>1
      <4> QED BY <4>1
    <3>2. CASE x < 0
      <4>1. 0 - x \in 1..(P - 1) /\ 1 - x \in 1..(P - 1) /\ (1 - x) * (0 - x) = 0 - (x * (1 - x))
        BY <1>0, <3>2
      <4> QED BY <4>1
    <3> QED BY <1>0, <1>3, <3>1, <3>2
  <2>2. (w * u) % P # 0
    BY <1>5, PrimeDividesFactor
  <2>3. x * (1 - x) \in Int /\ w * u \in Int
    BY <1>0
  <2>4. ASSUME (x * (1 - x)) % P = 0 PROVE FALSE
    <3> DEFINE m == x * (1 - x)
    <3>1. Divides(P, m)
      <4> HIDE DEF m
      <4>1. m \in Int /\ m % P = 0
        BY <2>3, <2>4 DEF m
      <4> QED BY <4>1, <1>0, DividesMod
    <3>2. PICK q \in Int : m = P * q
      BY <3>1 DEF Divides
    <3>3. w * u = P * (0 - q)
      <4>1. 0 - m = w * u
        BY <2>1
      <4>2. 0 - (P * q) = P * (0 - q)
        BY <1>0
      <4> HIDE DEF m
      <4> QED BY <4>1, <4>2, <3>2
    <3>4. Divides(P, w * u)
      BY <3>3 DEF Divides
    <3> QED BY <2>2, <2>3, <3>4, <1>0, DividesMod
  <2> QED BY <1>3, <2>4 DEF AssertBit
<1> QED BY <1>1, <1>2, <1>3
-----------------------------------------------------------------------------
(***************************************************************************)
(* Sums over lists.                                                        *)
(***************************************************************************)
\* The circuits' sum is the sum of FiniteSetFacts.
LEMMA SumOverIsSum ==
  ASSUME NEW S, NEW f
  PROVE  SumOver(S, f) = Sum(f, S)
BY Zenon DEF SumOver, Sum

\* The list with a one for each member of T.
Marks(S, T) == [x \in S |-> IF x \in T THEN 1 ELSE 0]

\* As many marks add up to their number.
LEMMA SumOfMarks ==
  ASSUME NEW S, IsFiniteSet(S), NEW T \in SUBSET S
  PROVE  Sum(Marks(S, T), S) = Cardinality(T)
<1> DEFINE f == Marks(S, T)
<1>0. IsFiniteSet(T) /\ IsFiniteSet(S \ T) /\ Cardinality(T) \in Nat
  BY FS_Subset, FS_CardinalityType
<1>1. (\A x \in T : f[x] = 1) /\ (\A x \in S \ T : f[x] = 0) /\ \A x \in S : f[x] \in Nat
  BY DEF Marks
<1> HIDE DEF f
<1>2. Sum(f, T) = 1 * Cardinality(T)
  BY <1>0, <1>1, SumConstant
<1>3. Sum(f, S \ T) = 0
  BY <1>0, <1>1, SumZeros
<1>4. T \union (S \ T) = S /\ T \intersect (S \ T) = {}
  OBVIOUS
<1>5. Sum(f, T \union (S \ T)) = Sum(f, T) + Sum(f, S \ T)
  BY <1>0, <1>1, <1>4, SumUnion
<1> QED BY <1>0, <1>2, <1>3, <1>4, <1>5 DEF f

-----------------------------------------------------------------------------
(***************************************************************************)
(* What a ballot weighs.                                                   *)
(***************************************************************************)
\* The constants, as the assumptions have them.
LEMMA ConstantsType ==
  /\ nVotes \in Nat /\ 0 < nVotes /\ nGrades \in Nat /\ 0 < nGrades
  /\ bitsVotes \in Nat /\ Power2[bitsVotes] \in Nat
  /\ maxVotesCand \in Nat /\ maxChoices \in Nat /\ a \in Nat /\ b \in Nat
  /\ nVotes < Power2[bitsVotes] /\ maxVotesCand < Power2[bitsVotes]
  /\ P \in Nat /\ 4 * (nVotes * Power2[bitsVotes]) < P
  /\ MaxVoters \in Nat /\ 1 < MaxVoters
<1>1. /\ nVotes \in Nat /\ nGrades \in Nat /\ bitsVotes \in Nat /\ maxVotesCand \in Nat
      /\ maxChoices \in Nat /\ a \in Nat /\ b \in Nat
  BY BallotAssumption
<1>2. Power2[bitsVotes] \in Nat
  BY <1>1, Power2Type
<1>3. 4 * nVotes * Power2[bitsVotes] = 4 * (nVotes * Power2[bitsVotes])
  BY <1>1, <1>2
<1> QED BY <1>1, <1>2, <1>3, BallotAssumption, ElectionAssumption, PrimeAssumption

\* There are nVotes candidates and nGrades grades.
LEMMA CandidatesFinite ==
  /\ IsFiniteSet(Candidates) /\ Cardinality(Candidates) = nVotes
  /\ IsFiniteSet(Grades) /\ Cardinality(Grades) = nGrades
<1>1. nVotes \in Nat /\ 0 < nVotes /\ nGrades \in Nat /\ 0 < nGrades
  BY ConstantsType
<1>2. ASSUME NEW n \in Nat, 0 < n PROVE IsFiniteSet(0..(n - 1)) /\ Cardinality(0..(n - 1)) = n
  <2>1. 0 \in Int /\ n - 1 \in Int /\ ~(0 > n - 1) /\ (n - 1) - 0 + 1 = n
    BY <1>2
  <2> QED BY <2>1, FS_Interval
<1> QED BY <1>1, <1>2 DEF Candidates, Grades

\* The field is greater than the numbers of candidates.
LEMMA ManyMoreNumbers == 4 * nVotes < P /\ nVotes \in Nat /\ P \in Nat
<1> DEFINE k == Power2[bitsVotes]
<1>1. k \in Nat /\ nVotes < k /\ nVotes \in Nat /\ 0 < nVotes /\ P \in Nat /\ 4 * (nVotes * k) < P
  BY ConstantsType
<1> HIDE DEF k
<1>2. nVotes <= nVotes * k /\ nVotes * k \in Nat
  BY <1>1
<1> QED BY <1>1, <1>2

\* The entries of a vector represent field elements.
LEMMA EntriesInField ==
  ASSUME NEW v \in Vectors, NEW c \in Candidates
  PROVE  v[c] \in Int /\ 2 * v[c] <= P /\ 0 - P <= 2 * v[c] /\ v[c] \in FieldElements
BY PrimeAssumption DEF Vectors, FieldElements

\* A single vote names at most one candidate.
LEMMA SingleVoteWeighs ==
  ASSUME NEW v \in Vectors, AssertSingleVote(v)
  PROVE  v \in [Candidates -> 0..1] /\ Sum(v, Candidates) <= 1
<1> DEFINE total == Sum(v, Candidates)
<1>1. ASSUME NEW c \in Candidates PROVE v[c] \in 0..1
  <2>1. v[c] \in FieldElements /\ AssertBit(v[c])
    BY EntriesInField DEF AssertSingleVote
  <2> QED BY <2>1, BitRight
<1>2. AssertBit(total)
  <2>1. SumOver(Candidates, v) = total
    BY SumOverIsSum
  <2> QED BY <2>1, Zenon DEF AssertSingleVote
<1>3. total \in Int /\ 0 <= total /\ total <= nVotes
  <2>1. PICK low \in Int, high \in Int : low = 0 /\ high = 1
    OBVIOUS
  <2>2. \A c \in Candidates : v[c] \in low..high
    BY <1>1, <2>1
  <2>3. total \in Int /\ low * nVotes <= total /\ total <= high * nVotes
    BY <2>2, CandidatesFinite, IntegerSumBounds
  <2> HIDE DEF total
  <2> QED BY <2>1, <2>3, ManyMoreNumbers
<1> HIDE DEF total
<1>4. total \in FieldElements
  BY <1>3, ManyMoreNumbers DEF FieldElements
<1>5. total \in {0, 1}
  BY <1>2, <1>4, BitRight
<1>6. v \in [Candidates -> 0..1]
  BY <1>1 DEF Vectors
<1> QED BY <1>5, <1>6 DEF total

\* What an asserted bound says of a field element: it is not greater, and not so much less
\* that the comparison would leave its bits.
LEMMA LtEqRight ==
  ASSUME NEW n \in Nat, NEW x \in Int, NEW y \in Nat, 2 * x <= P, 0 - P <= 2 * x,
         2 * Power2[n] < P, 2 * (y + 1) <= P, AssertLtEq(n, x, y)
  PROVE  y + 1 - Power2[n] <= x /\ x <= y
<1> DEFINE h == Power2[n]
           s == x + h - (y + 1)
<1>1. h \in Nat /\ P \in Nat /\ 2 * h < P
  BY Power2Type, PrimeAssumption
<1>2. s % P < h
  BY DEF AssertLtEq, LessEqThan, LessThan
<1> HIDE DEF h
<1>3. CASE s < 0
  <2>1. s \in Int /\ 0 <= s + P
    BY <1>1
  <2>2. s % P = s + P
    <3> HIDE DEF s
    <3> QED BY <1>1, <1>3, <2>1, ModBelow
  <2> QED BY <1>1, <1>2, <2>2
<1>4. CASE 0 <= s
  <2>1. s \in Int /\ s < P
    BY <1>1
  <2>2. s % P = s
    <3> HIDE DEF s
    <3> QED BY <1>1, <1>4, <2>1, ModSmall
  <2> QED BY <1>1, <1>2, <1>4, <2>2 DEF h
<1>5. s \in Int
  BY <1>1
<1> QED BY <1>3, <1>4, <1>5

\* The lowest entry of a multi vote is not positive, and no less than -2^bitsVotes.
LEMMA LowestOfMulti ==
  /\ LowestAssignable("multi") = maxVotesCand + 1 - Power2[bitsVotes]
  /\ LowestAssignable("multi") \in Int /\ LowestAssignable("multi") <= 0
  /\ 0 - Power2[bitsVotes] < LowestAssignable("multi")
BY ConstantsType DEF LowestAssignable

\* A multi vote keeps both upper bounds, and one from below.
LEMMA MultiVoteWeighs ==
  ASSUME NEW v \in Vectors, AssertMultiVote(v)
  PROVE  /\ v \in [Candidates -> LowestAssignable("multi")..maxVotesCand]
         /\ Sum(v, Candidates) <= maxChoices
<1> DEFINE k == Power2[bitsVotes]
           low == LowestAssignable("multi")
           total == Sum(v, Candidates)
<1>0. /\ bitsVotes \in Nat /\ k \in Nat /\ nVotes \in Nat /\ nVotes > 0
      /\ P \in Nat /\ 4 * (nVotes * k) < P
      /\ maxVotesCand \in Nat /\ maxVotesCand < k /\ maxChoices \in Nat
      /\ low = maxVotesCand + 1 - k
  BY ConstantsType, LowestOfMulti
<1>00. k <= nVotes * k /\ nVotes * k \in Nat
  <2> HIDE DEF k, low
  <2> QED BY <1>0
<1>1. ASSUME NEW c \in Candidates PROVE v[c] \in low..maxVotesCand
  <2>1. /\ v[c] \in Int /\ 2 * v[c] <= P /\ 0 - P <= 2 * v[c]
        /\ AssertLtEq(bitsVotes, v[c], maxVotesCand)
    BY EntriesInField DEF AssertMultiVote
  <2>2. 2 * k < P /\ 2 * (maxVotesCand + 1) <= P
    <3> HIDE DEF k, low
    <3> QED BY <1>0, <1>00
  <2>3. maxVotesCand + 1 - k <= v[c] /\ v[c] <= maxVotesCand
    BY <1>0, <2>1, <2>2, LtEqRight
  <2> HIDE DEF k, low
  <2> QED BY <1>0, <2>1, <2>3
<1>2. total \in Int /\ low * nVotes <= total /\ total <= maxVotesCand * nVotes
  <2>1. low \in Int /\ maxVotesCand \in Int
    BY <1>0, LowestOfMulti
  <2> HIDE DEF low
  <2> QED BY <1>1, <2>1, CandidatesFinite, IntegerSumBounds
<1>3. 2 * total <= P /\ 0 - P <= 2 * total /\ 4 * total < P
  <2>1. maxVotesCand * nVotes <= nVotes * k /\ 0 - (nVotes * k) <= low * nVotes
        /\ low * nVotes \in Int /\ maxVotesCand * nVotes \in Nat
    <3>1. PICK d \in Nat, e \in Nat : k = maxVotesCand + d /\ low = e - k
      <4>1. k - maxVotesCand \in Nat /\ k = maxVotesCand + (k - maxVotesCand)
            /\ maxVotesCand + 1 \in Nat /\ low = (maxVotesCand + 1) - k
        <5> HIDE DEF k, low
        <5> QED BY <1>0
      <4> QED BY <4>1
    <3> HIDE DEF k, low
    <3>2. /\ nVotes * (maxVotesCand + d) = maxVotesCand * nVotes + nVotes * d
          /\ (e - k) * nVotes = nVotes * e - nVotes * k
          /\ nVotes * d \in Nat /\ nVotes * e \in Nat /\ maxVotesCand * nVotes \in Nat
      BY <1>0
    <3>3. nVotes * k = maxVotesCand * nVotes + nVotes * d /\ low * nVotes = nVotes * e - nVotes * k
      BY <3>1, <3>2
    <3> QED BY <1>00, <3>2, <3>3
  <2> DEFINE m == nVotes * k
             x == low * nVotes
             y == maxVotesCand * nVotes
  <2>2. /\ m \in Nat /\ x \in Int /\ y \in Int /\ y <= m /\ 0 - m <= x
        /\ total \in Int /\ x <= total /\ total <= y /\ 4 * m < P /\ P \in Nat
    BY <1>0, <1>00, <1>2, <2>1
  <2> HIDE DEF m, x, y, total
  <2> QED BY <2>2
<1>4. total <= maxChoices
  <2> DEFINE h == NumBits(nVotes)
  <2>1. h \in Nat /\ (Power2[h] <= 2 * nVotes \/ Power2[h] = 1) /\ Power2[h] \in Nat
    BY <1>0, NumBitsRight, Power2Type
  <2>2. SumOver(Candidates, v) = total
    BY SumOverIsSum
  <2>3. AssertLtEq(bitsVotes + h, total, maxChoices)
    BY <2>2, Zenon DEF AssertMultiVote
  <2> HIDE DEF h, total
  <2>4. bitsVotes + h \in Nat /\ Power2[bitsVotes + h] = k * Power2[h]
    BY <1>0, <2>1, Power2Sum
  <2>5. k * Power2[h] <= 2 * (nVotes * k)
    <3> DEFINE p == Power2[h]
    <3>1. p \in Nat /\ p <= 2 * nVotes /\ k \in Nat
      BY <1>0, <2>1
    <3> HIDE DEF p, k, low
    <3>2. k * p <= k * (2 * nVotes)
      BY <3>1, <1>0
    <3>3. k * (2 * nVotes) = 2 * (nVotes * k)
      BY <3>1, <1>0
    <3> QED BY <3>2, <3>3 DEF p
  <2>6. 2 * Power2[bitsVotes + h] < P
    <3> DEFINE m == nVotes * k
               q == Power2[bitsVotes + h]
    <3>1. m \in Nat /\ q <= 2 * m /\ 4 * m < P /\ q \in Nat
      BY <1>0, <1>00, <2>4, <2>5, Power2Type
    <3> HIDE DEF m, q
    <3>2. 2 * q < P
      BY <3>1, <1>0
    <3> QED BY <3>2 DEF q
  <2> HIDE DEF k, low
  <2>7. CASE total > maxChoices
    <3>1. 2 * (maxChoices + 1) <= P
      BY <1>0, <1>2, <1>3, <2>7
    <3> QED BY <1>0, <1>2, <1>3, <2>3, <2>4, <2>6, <3>1, LtEqRight
  <2>8. CASE ~(total > maxChoices)
    BY <1>0, <1>2, <2>8
  <2> QED BY <2>7, <2>8
<1>5. v \in [Candidates -> low..maxVotesCand]
  <2> HIDE DEF low
  <2> QED BY <1>1 DEF Vectors
<1> QED BY <1>4, <1>5 DEF low, total

\* The highest point of a Borda list.
HighestPoint == Max({orderedPoints[i] : i \in DOMAIN orderedPoints})
Points       == Sum(orderedPoints, DOMAIN orderedPoints)

\* The points of a list are as many as its length, distinct, and at most the highest.
LEMMA PointsType ==
  /\ IsFiniteSet(DOMAIN orderedPoints)
  /\ Cardinality(DOMAIN orderedPoints) = Size(orderedPoints)
  /\ Size(orderedPoints) \in 1..nVotes
  /\ HighestPoint \in Nat
  /\ \A i \in DOMAIN orderedPoints :
       /\ orderedPoints[i] \in Nat \ {0} /\ orderedPoints[i] <= HighestPoint
       /\ \A j \in DOMAIN orderedPoints : orderedPoints[i] = orderedPoints[j] => i = j
<1> DEFINE D == DOMAIN orderedPoints
           n == Size(orderedPoints)
           V == {orderedPoints[i] : i \in D}
<1>1. n \in 1..nVotes /\ D = 0..(n - 1) /\ nVotes \in Nat
  BY BallotAssumption
<1>2. \A i \in D : orderedPoints[i] \in Nat \ {0}
                     /\ \A j \in D : orderedPoints[i] = orderedPoints[j] => i = j
  BY BallotAssumption
<1>3. Cardinality(D) = n
  BY DEF Size
<1> HIDE DEF n
<1>4. IsFiniteSet(D)
  <2>1. n - 1 \in Int
    BY <1>1
  <2> HIDE DEF D
  <2> QED BY <1>1, <2>1, FS_Interval
<1>5. IsFiniteSet(V)
  <2> HIDE DEF D
  <2> QED BY <1>4, ImageIsFinite
<1>6. V \in SUBSET Int /\ V \subseteq Nat /\ V # {}
  <2>1. 0 \in D
    BY <1>1
  <2> HIDE DEF D
  <2> QED BY <2>1, <1>2
<1>7. Max(V) \in V /\ \A y \in V : y <= Max(V)
  <2> HIDE DEF V
  <2> QED BY <1>5, <1>6, MinMaxExist
<1>8. Max(V) = HighestPoint
  BY DEF HighestPoint
<1>9. HighestPoint \in Nat
  BY <1>6, <1>7, <1>8
<1>10. \A i \in D : orderedPoints[i] <= HighestPoint
  <2>1. \A i \in D : orderedPoints[i] \in V
    OBVIOUS
  <2> HIDE DEF V
  <2> QED BY <2>1, <1>7, <1>8
<1> HIDE DEF D
<1>11. D = DOMAIN orderedPoints /\ n = Size(orderedPoints)
  BY DEF D, n
<1> QED BY <1>1, <1>2, <1>3, <1>4, <1>9, <1>10, <1>11

\* A Borda list gives every point once and nothing to the others.
LEMMA PointlistWeighs ==
  ASSUME NEW v \in Vectors, AssertPointlistBorda(v)
  PROVE  v \in [Candidates -> 0..HighestPoint] /\ Sum(v, Candidates) = Points
<1> DEFINE D == DOMAIN orderedPoints
           p(i) == orderedPoints[i]
           class(x) == {c \in Candidates : v[c] = x}
           F == [i \in D |-> class(p(i))]
           U == {c \in Candidates : \E i \in D : v[c] = p(i)}
           Z == class(0)
           n == Size(orderedPoints)
<1>0. /\ IsFiniteSet(D) /\ Cardinality(D) = n /\ n \in 1..nVotes /\ HighestPoint \in Nat
      /\ \A i \in D : p(i) \in Nat \ {0} /\ p(i) <= HighestPoint
      /\ \A i, j \in D : p(i) = p(j) => i = j
  BY PointsType
<1>1. DOMAIN v = Candidates
  BY DEF Vectors
<1>2. \A x : CountEqual(v, x) = Cardinality(class(x))
  BY <1>1, Zenon DEF CountEqual, IdxEqual
<1>3. Cardinality(Z) = nVotes - n
  <2>1. CountEqual(v, 0) = nVotes - n
    BY DEF AssertPointlistBorda
  <2> QED BY <1>2, <2>1, Zenon
<1>4. \A i \in D : Cardinality(class(p(i))) = 1
  <2>1. \A i \in D : CountEqual(v, p(i)) = 1
    BY DEF AssertPointlistBorda
  <2> QED BY <1>2, <2>1, Zenon
<1>5. IsFiniteSet(Candidates) /\ Cardinality(Candidates) = nVotes
  BY CandidatesFinite
<1>6. IsFiniteSet(U) /\ IsFiniteSet(Z) /\ U \in SUBSET Candidates /\ Z \in SUBSET Candidates
  BY <1>5, FS_Subset
<1>7. F \in [D -> SUBSET Candidates]
  OBVIOUS
<1>8. \A i, j \in D : i # j => F[i] \intersect F[j] = {}
  BY <1>0
<1>9. \A c \in Candidates : c \in U <=> \E i \in D : c \in F[i]
  OBVIOUS
<1>10. Cardinality(U) = n
  <2> DEFINE one == [c \in Candidates |-> 1]
             ones == [i \in D |-> 1]
  <2>1. \A c \in Candidates : one[c] \in Nat /\ one[c] = 1
    OBVIOUS
  <2>2. \A i \in D : ones[i] = 1
    OBVIOUS
  <2> HIDE DEF one, ones, F, U, Z, D
  <2>3. \A i \in D : ones[i] = Sum(one, F[i])
    <3>1. ASSUME NEW i \in D PROVE Sum(one, F[i]) = 1
      <4>1. F[i] = class(p(i))
        BY DEF F
      <4>2. F[i] \in SUBSET Candidates
        BY <1>7
      <4>3. IsFiniteSet(F[i]) /\ \A c \in F[i] : one[c] = 1
        BY <4>2, <2>1, <1>5, FS_Subset
      <4>4. Cardinality(F[i]) = 1
        BY <4>1, <1>4
      <4>5. Sum(one, F[i]) = 1 * Cardinality(F[i])
        BY <4>3, SumConstant
      <4> QED BY <4>4, <4>5
    <3> QED BY <3>1, <2>2
  <2>4. Sum(ones, D) = Sum(one, U)
    BY <1>0, <1>5, <1>6, <1>7, <1>8, <1>9, <2>1, <2>3, SumFamily
  <2>5. Sum(ones, D) = 1 * Cardinality(D)
    BY <1>0, <2>2, SumConstant
  <2>6. \A c \in U : one[c] = 1
    BY <1>6, <2>1
  <2>7. Sum(one, U) = 1 * Cardinality(U)
    BY <1>6, <2>6, SumConstant
  <2>8. Cardinality(U) \in Nat /\ Cardinality(D) \in Nat
    BY <1>0, <1>6, FS_CardinalityType
  <2>9. 1 * Cardinality(U) = Cardinality(U) /\ 1 * Cardinality(D) = Cardinality(D)
    BY <2>8
  <2>10. Cardinality(U) = Cardinality(D)
    BY <2>4, <2>5, <2>7, <2>9, Zenon
  <2> QED BY <1>0, <2>10
<1>11. Z \intersect U = {}
  BY <1>0
<1>12. Z \union U = Candidates
  <2> HIDE DEF Z, U
  <2>1. Cardinality(Z \union U) = Cardinality(Z) + Cardinality(U) - Cardinality(Z \intersect U)
    BY <1>6, FS_Union
  <2>2. Cardinality(Z \intersect U) = 0
    BY <1>11, FS_EmptySet
  <2>3. Cardinality(Z \union U) = Cardinality(Candidates)
    <3>1. nVotes \in Nat /\ n \in Nat
      BY <1>0, ConstantsType
    <3> QED BY <2>1, <2>2, <3>1, <1>3, <1>5, <1>10
  <2>4. Z \union U \in SUBSET Candidates
    BY <1>6
  <2> QED BY <2>3, <2>4, <1>5, FS_Subset
<1>13. \A c \in Candidates : v[c] \in 0..HighestPoint /\ v[c] \in Nat
  <2>1. ASSUME NEW c \in Candidates PROVE v[c] \in 0..HighestPoint /\ v[c] \in Nat
    <3>1. c \in Z \/ c \in U
      BY <1>12
    <3>2. v[c] = 0 \/ \E i \in D : v[c] = p(i)
      BY <3>1
    <3> QED BY <3>2, <1>0
  <2> QED BY <2>1
<1>14. Sum(v, U) = Points
  <2> HIDE DEF F, U, Z
  <2>1. \A i \in D : p(i) = Sum(v, F[i])
    <3>1. ASSUME NEW i \in D PROVE Sum(v, F[i]) = p(i)
      <4>1. F[i] = class(p(i)) /\ F[i] \in SUBSET Candidates
        BY <1>7 DEF F
      <4>2. IsFiniteSet(F[i]) /\ \A c \in F[i] : v[c] = p(i)
        BY <4>1, <1>5, FS_Subset
      <4>3. Cardinality(F[i]) = 1 /\ p(i) \in Nat
        BY <4>1, <1>4, <1>0
      <4>4. Sum(v, F[i]) = p(i) * Cardinality(F[i])
        BY <4>2, <4>3, SumConstant
      <4> QED BY <4>3, <4>4
    <3> QED BY <3>1
  <2> HIDE DEF D
  <2>2. Sum(orderedPoints, D) = Sum(v, U)
    BY <1>0, <1>13, <1>5, <1>6, <1>7, <1>8, <1>9, <2>1, SumFamily
  <2> QED BY <2>2 DEF Points, D
<1>15. Sum(v, Candidates) = Points
  <2>1. \A c \in Z : v[c] = 0
    OBVIOUS
  <2> HIDE DEF Z, U
  <2>2. Sum(v, Z) = 0
    BY <2>1, <1>6, SumZeros
  <2>3. Sum(v, Z \union U) = Sum(v, Z) + Sum(v, U)
    BY <1>13, <1>6, <1>11, <1>12, SumUnion
  <2>4. Sum(v, U) \in Nat
    <3>1. \A c \in U : v[c] \in Nat
      BY <1>13, <1>6
    <3> QED BY <3>1, <1>6, SumType
  <2>5. Sum(v, Candidates) = Sum(v, Z) + Sum(v, U)
    BY <2>3, <1>12, Zenon
  <2>6. Sum(v, Candidates) = Sum(v, U)
    BY <2>2, <2>4, <2>5
  <2> QED BY <2>6, <1>14
<1>16. v \in [Candidates -> 0..HighestPoint]
  BY <1>1, <1>13 DEF Vectors
<1> QED BY <1>15, <1>16

\* A multiple of a list has that multiple of its sum.
LEMMA SumTimes ==
  ASSUME NEW S, IsFiniteSet(S), NEW k \in Nat, NEW f, NEW h,
         \A x \in S : f[x] \in Nat /\ h[x] = k * f[x]
  PROVE  Sum(h, S) = k * Sum(f, S)
<1> DEFINE Q == {T \in SUBSET S : Sum(h, T) = k * Sum(f, T)}
<1>0. \A x \in S : h[x] \in Nat
  OBVIOUS
<1>1. {} \in Q
  <2>1. Sum(f, {}) = 0 /\ Sum(h, {}) = 0
    BY SumEquation, FS_EmptySet
  <2> QED BY <2>1
<1>2. ASSUME NEW T \in SUBSET S, NEW x \in S, T \in Q, x \notin T PROVE T \union {x} \in Q
  <2>1. IsFiniteSet(T) /\ T \union {x} \in SUBSET S /\ \A y \in T \union {x} : y \in S
    BY FS_Subset
  <2>2. Sum(f, T \union {x}) = f[x] + Sum(f, T)
    BY <1>2, <2>1, SumAdd
  <2>3. Sum(h, T \union {x}) = h[x] + Sum(h, T)
    BY <1>0, <1>2, <2>1, SumAdd
  <2>4. Sum(f, T) \in Nat
    BY <2>1, SumType
  <2>5. k * (f[x] + Sum(f, T)) = k * f[x] + k * Sum(f, T)
    <3> DEFINE y == f[x]
               z == Sum(f, T)
    <3>1. y \in Nat /\ z \in Nat
      BY <2>4
    <3> HIDE DEF y, z
    <3>2. k * (y + z) = k * y + k * z
      BY <3>1
    <3> QED BY <3>2 DEF y, z
  <2>6. Sum(h, T) = k * Sum(f, T) /\ h[x] = k * f[x]
    BY <1>2
  <2> QED BY <2>1, <2>2, <2>3, <2>5, <2>6
<1> HIDE DEF Q
<1>3. S \in Q
  BY <1>1, <1>2, FiniteSetInduction
<1> QED BY <1>3 DEF Q

\* Those ranked worse than c, as bad, and better.
Worse(r, c)  == {x \in Candidates : r[x] > r[c]}
Same(r, c)   == {x \in Candidates : r[x] = r[c]}
Better(r, c) == {x \in Candidates : r[x] < r[c]}

\* They are all of the candidates.
LEMMA RanksPartition ==
  ASSUME NEW r \in Rankings, NEW c \in Candidates
  PROVE  /\ Cardinality(Worse(r, c)) \in Nat /\ Cardinality(Better(r, c)) \in Nat
         /\ Cardinality(Same(r, c)) \in Nat \ {0}
         /\ Cardinality(Worse(r, c)) + Cardinality(Same(r, c)) + Cardinality(Better(r, c)) = nVotes
<1> DEFINE W == Worse(r, c)
           E == Same(r, c)
           B == Better(r, c)
<1>1. \A x \in Candidates : r[x] \in Nat
  BY ConstantsType DEF Rankings
<1>2. /\ W \in SUBSET Candidates /\ E \in SUBSET Candidates /\ B \in SUBSET Candidates /\ c \in E
      /\ W \intersect E = {} /\ (W \union E) \intersect B = {} /\ (W \union E) \union B = Candidates
  BY <1>1 DEF Worse, Same, Better
<1> HIDE DEF W, E, B
<1>3. IsFiniteSet(Candidates) /\ Cardinality(Candidates) = nVotes
  BY CandidatesFinite
<1>4. IsFiniteSet(W) /\ IsFiniteSet(E) /\ IsFiniteSet(B)
  BY <1>2, <1>3, FS_Subset
<1>5. Cardinality(W) \in Nat /\ Cardinality(E) \in Nat /\ Cardinality(B) \in Nat
  BY <1>4, FS_CardinalityType
<1>6. Cardinality(E) # 0
  BY <1>2, <1>4, FS_EmptySet
<1>7. Cardinality({}) = 0
  BY FS_EmptySet
<1>8. IsFiniteSet(W \union E) /\ Cardinality(W \union E) = Cardinality(W) + Cardinality(E)
  <2>1. Cardinality(W \union E) = Cardinality(W) + Cardinality(E) - Cardinality(W \intersect E)
    BY <1>4, FS_Union
  <2>2. Cardinality(W \intersect E) = 0
    BY <1>2, <1>7, Zenon
  <2>3. IsFiniteSet(W \union E)
    BY <1>4, FS_Union
  <2> QED BY <1>5, <2>1, <2>2, <2>3
<1>9. Cardinality(Candidates) = Cardinality(W \union E) + Cardinality(B)
  <2>1. Cardinality((W \union E) \union B)
          = Cardinality(W \union E) + Cardinality(B) - Cardinality((W \union E) \intersect B)
    BY <1>4, <1>8, FS_Union
  <2>2. Cardinality((W \union E) \intersect B) = 0
    BY <1>2, <1>7, Zenon
  <2>3. Cardinality((W \union E) \union B) = Cardinality(Candidates)
    BY <1>2, Zenon
  <2> QED BY <1>5, <1>8, <2>1, <2>2, <2>3
<1>10. Cardinality(W) + Cardinality(E) + Cardinality(B) = nVotes
  BY <1>3, <1>5, <1>8, <1>9
<1> QED BY <1>5, <1>6, <1>10 DEF W, E, B

\* As often as a candidate is ranked worse, one is ranked better.
LEMMA WorseAsOftenAsBetter ==
  ASSUME NEW r \in Rankings
  PROVE  Sum([c \in Candidates |-> Cardinality(Worse(r, c))], Candidates)
           = Sum([c \in Candidates |-> Cardinality(Better(r, c))], Candidates)
<1> DEFINE S == Candidates
           m == [c \in S |-> Marks(S, Worse(r, c))]
<1>0. IsFiniteSet(S) /\ \A x \in S : r[x] \in Nat
  BY CandidatesFinite, ConstantsType DEF Rankings
<1>1. m \in [S -> [S -> Nat]]
  BY DEF Marks
<1>2. Sum(RowSums(m, S, S), S) = Sum(ColumnSums(m, S, S), S)
  <2> HIDE DEF m
  <2> QED BY <1>0, <1>1, RowsAndColumns
<1>3. RowSums(m, S, S) = [c \in S |-> Cardinality(Worse(r, c))]
  <2>1. ASSUME NEW c \in S PROVE Sum(m[c], S) = Cardinality(Worse(r, c))
    <3>1. m[c] = Marks(S, Worse(r, c)) /\ Worse(r, c) \in SUBSET S
      BY DEF Worse
    <3>2. Sum(Marks(S, Worse(r, c)), S) = Cardinality(Worse(r, c))
      BY <1>0, <3>1, SumOfMarks
    <3> QED BY <3>1, <3>2, Zenon
  <2> HIDE DEF m
  <2> QED BY <2>1 DEF RowSums
<1>4. ColumnSums(m, S, S) = [c \in S |-> Cardinality(Better(r, c))]
  <2>1. ASSUME NEW x \in S PROVE Sum([c \in S |-> m[c][x]], S) = Cardinality(Better(r, x))
    <3>1. Better(r, x) \in SUBSET S
      BY DEF Better
    <3>2. ASSUME NEW c \in S PROVE m[c][x] = IF c \in Better(r, x) THEN 1 ELSE 0
      <4>1. m[c][x] = IF x \in Worse(r, c) THEN 1 ELSE 0
        BY DEF Marks
      <4>2. x \in Worse(r, c) <=> c \in Better(r, x)
        BY <1>0 DEF Worse, Better
      <4> QED BY <4>1, <4>2
    <3>3. [c \in S |-> m[c][x]] = Marks(S, Better(r, x))
      <4> HIDE DEF m
      <4> QED BY <3>2 DEF Marks
    <3>4. Sum(Marks(S, Better(r, x)), S) = Cardinality(Better(r, x))
      BY <1>0, <3>1, SumOfMarks
    <3> QED BY <3>3, <3>4, Zenon
  <2> HIDE DEF m
  <2> QED BY <2>1 DEF ColumnSums
<1> QED BY <1>2, <1>3, <1>4, Zenon

\* With numBits(nVotes) bits the comparison of ranks is right.
LEMMA RanksCompared ==
  ASSUME NEW r \in Rankings, NEW c \in Candidates
  PROVE  /\ CountGreater(NumBits(nVotes), r, r[c]) = Cardinality(Worse(r, c))
         /\ CountEqual(r, r[c]) = Cardinality(Same(r, c))
<1> DEFINE h == NumBits(nVotes)
<1>0. nVotes \in Nat /\ 0 < nVotes /\ P \in Nat /\ 4 * nVotes < P
  BY ConstantsType, ManyMoreNumbers
<1>1. h \in Nat /\ Power2[h] \in Nat /\ Power2[h] >= nVotes + 1
      /\ (Power2[h] <= 2 * nVotes \/ Power2[h] = 1)
  BY <1>0, NumBitsRight, Power2Type
<1> HIDE DEF h
<1>2. DOMAIN r = Candidates /\ \A x \in Candidates : r[x] \in 0..nVotes
  BY DEF Rankings
<1>3. ASSUME NEW x \in Candidates PROVE GreaterThan(h, r[x], r[c]) <=> r[x] > r[c]
  <2>1. r[x] \in 0..nVotes /\ r[c] \in 0..nVotes
    BY <1>2
  <2>2. r[c] \in Int /\ r[x] \in Int /\ 0 <= r[c] + Power2[h] - r[x] /\ r[c] + Power2[h] - r[x] < P
    BY <1>0, <1>1, <2>1
  <2>3. LessThan(h, r[c], r[x]) <=> r[c] < r[x]
    BY <1>1, <2>2, ComparisonRight
  <2> QED BY <2>1, <2>2, <2>3 DEF GreaterThan
<1>4. {x \in DOMAIN r : GreaterThan(h, r[x], r[c])} = Worse(r, c)
  BY <1>2, <1>3 DEF Worse
<1>5. IdxEqual(r, r[c]) = Same(r, c)
  BY <1>2 DEF IdxEqual, Same
<1> QED BY <1>4, <1>5, Zenon DEF CountGreater, CountEqual, h

\* The points that a ballot can give a candidate.
HighestTournament == Max({a, b}) * (nVotes - 1)

\* A ranking gives every candidate a bounded number of points, and whatever the ranking is, the
\* same number of points if a tie is worth half a win.
LEMMA TournamentWeighs ==
  ASSUME NEW r \in Rankings
  PROVE  LET v == BordaTournamentStyleBallot(r)
         IN  /\ v \in [Candidates -> 0..HighestTournament]
             /\ HighestTournament \in Nat
             /\ a = 2 * b => Sum(v, Candidates) = b * (nVotes * (nVotes - 1))
<1> DEFINE v == BordaTournamentStyleBallot(r)
           G(c) == Cardinality(Worse(r, c))
           E(c) == Cardinality(Same(r, c))
           L(c) == Cardinality(Better(r, c))
           n == nVotes
           top == Max({a, b})
<1>0. n \in Nat /\ 0 < n /\ a \in Nat /\ b \in Nat
  BY ConstantsType
<1>1. \A c \in Candidates : /\ G(c) \in Nat /\ L(c) \in Nat /\ E(c) \in Nat \ {0}
                            /\ G(c) + E(c) + L(c) = n
  BY RanksPartition
<1>2. v = [c \in Candidates |-> a * G(c) + b * (E(c) - 1)]
  BY RanksCompared DEF BordaTournamentStyleBallot
<1>3. top \in Nat /\ a <= top /\ b <= top
  <2>1. {a, b} \in SUBSET Int /\ {a, b} # {} /\ IsFiniteSet({a, b})
    <3>1. IsFiniteSet({a} \union {b}) /\ {a} \union {b} = {a, b}
      BY FS_Singleton, FS_Union
    <3> QED BY <1>0, <3>1
  <2>2. Max({a, b}) \in {a, b} /\ \A y \in {a, b} : y <= Max({a, b})
    BY <2>1, MinMaxExist
  <2> QED BY <1>0, <2>2
<1> HIDE DEF v, G, E, L, n, top
<1>4. top * (n - 1) \in Nat
  BY <1>0, <1>3
<1>5. ASSUME NEW c \in Candidates PROVE v[c] \in 0..(top * (n - 1))
  <2> DEFINE g == G(c)
             e == E(c) - 1
  <2>1. g \in Nat /\ e \in Nat /\ g + e <= n - 1
    BY <1>1, <1>0
  <2> HIDE DEF g, e
  <2>2. a * g <= top * g /\ b * e <= top * e /\ a * g \in Nat /\ b * e \in Nat
    BY <1>0, <1>3, <2>1
  <2>3. top * (g + e) <= top * (n - 1) /\ top * (g + e) = top * g + top * e
    BY <1>0, <1>3, <2>1
  <2>4. v[c] = a * g + b * e
    BY <1>2 DEF g, e
  <2>5. top * g \in Nat /\ top * e \in Nat
    BY <1>3, <2>1
  <2> QED BY <2>2, <2>3, <2>4, <2>5, <1>4
<1>6. v \in [Candidates -> 0..(top * (n - 1))]
  BY <1>2, <1>5
<1>7. ASSUME a = 2 * b PROVE Sum(v, Candidates) = b * (n * (n - 1))
  <2> DEFINE S == Candidates
             gs == [c \in S |-> G(c)]
             ls == [c \in S |-> L(c)]
             w  == [c \in S |-> 2 * G(c) + (E(c) - 1)]
             ns == [c \in S |-> n]
             u  == [c \in S |-> w[c] + L(c)]
             m  == [c \in S |-> n - 1]
  <2>0. IsFiniteSet(S) /\ Cardinality(S) = n
    BY CandidatesFinite DEF n
  <2>1. \A c \in S : /\ gs[c] \in Nat /\ ls[c] \in Nat /\ w[c] \in Nat /\ m[c] = n - 1
                     /\ u[c] = w[c] + ls[c] /\ u[c] = gs[c] + m[c]
    BY <1>0, <1>1
  <2>2. \A c \in S : w[c] \in Nat /\ v[c] = b * w[c]
    <3>1. ASSUME NEW c \in S PROVE v[c] = b * w[c]
      <4> DEFINE g == G(c)
                 e == E(c) - 1
      <4>1. g \in Nat /\ e \in Nat
        BY <1>1
      <4>2. v[c] = a * g + b * e /\ w[c] = 2 * g + e
        BY <1>2
      <4> HIDE DEF g, e, w
      <4>3. (2 * b) * g + b * e = b * (2 * g + e)
        BY <4>1, <1>0
      <4> QED BY <4>2, <4>3, <1>7
    <3> QED BY <2>1, <3>1
  <2>3. Sum(gs, S) = Sum(ls, S)
    BY WorseAsOftenAsBetter DEF G, L
  <2> HIDE DEF gs, ls, w, u, m, S
  <2>4. n - 1 \in Nat
    BY <1>0
  <2>5. \A c \in S : m[c] = n - 1 /\ m[c] \in Nat
    BY <2>1, <2>4
  <2>6. Sum(u, S) = Sum(w, S) + Sum(ls, S)
    BY <2>0, <2>1, SumOfSums
  <2>7. Sum(u, S) = Sum(gs, S) + Sum(m, S)
    BY <2>0, <2>1, <2>5, SumOfSums
  <2>8. Sum(m, S) = (n - 1) * Cardinality(S)
    BY <2>0, <2>4, <2>5, SumConstant
  <2>9. Sum(w, S) \in Nat /\ Sum(ls, S) \in Nat /\ Sum(m, S) \in Nat
    BY <2>0, <2>1, <2>5, SumType
  <2>10. Sum(w, S) = (n - 1) * n
    BY <2>0, <2>3, <2>6, <2>7, <2>8, <2>9
  <2>11. Sum(v, S) = b * Sum(w, S)
    BY <1>0, <2>0, <2>2, SumTimes
  <2>12. (n - 1) * n = n * (n - 1)
    BY <1>0
  <2> QED BY <2>10, <2>11, <2>12 DEF S
<1> QED BY <1>4, <1>6, <1>7 DEF v, n, top, HighestTournament

\* Of two candidates at most one is preferred.
LEMMA CondorcetWeighs ==
  ASSUME NEW r \in Rankings
  PROVE  LET v == CondorcetBallot(r)
         IN  /\ v \in Matrix(Candidates, 0..1)
             /\ \A i, j \in Candidates : v[i][j] + v[j][i] <= 1
<1> DEFINE v == CondorcetBallot(r)
           gt(i, j) == GreaterThan(bitsVotes, r[i], r[j])
           up(i, j) == IF gt(i, j) \/ r[i] = r[j] THEN 0 ELSE 1
           down(i, j) == IF gt(i, j) THEN 1 ELSE 0
<1>1. v = [i \in Candidates |-> [j \in Candidates |->
             IF i < j THEN up(i, j) ELSE IF i > j THEN down(j, i) ELSE 0]]
  BY DEF CondorcetBallot
<1>2. \A i, j : up(i, j) \in 0..1 /\ down(i, j) \in 0..1 /\ up(i, j) + down(i, j) <= 1
  OBVIOUS
<1> HIDE DEF v, gt, up, down
<1>3. \A i, j \in Candidates : v[i][j] = IF i < j THEN up(i, j) ELSE IF i > j THEN down(j, i) ELSE 0
  BY <1>1
<1>4. v \in Matrix(Candidates, 0..1)
  BY <1>1, <1>2 DEF Matrix
<1>5. Candidates \subseteq Int
  BY ConstantsType DEF Candidates
<1>6. ASSUME NEW i \in Candidates, NEW j \in Candidates PROVE v[i][j] + v[j][i] <= 1
  <2>1. CASE i < j
    <3>1. v[i][j] = up(i, j) /\ v[j][i] = down(i, j)
      BY <1>3, <1>5, <2>1
    <3> QED BY <1>2, <3>1
  <2>2. CASE i > j
    <3>1. v[i][j] = down(j, i) /\ v[j][i] = up(j, i)
      BY <1>3, <1>5, <2>2
    <3> QED BY <1>2, <3>1
  <2>3. CASE i = j
    <3>1. v[i][j] = 0 /\ v[j][i] = 0
      BY <1>3, <1>5, <2>3
    <3> QED BY <3>1
  <2> QED BY <1>5, <2>1, <2>2, <2>3
<1> QED BY <1>4, <1>6 DEF v
-----------------------------------------------------------------------------
(***************************************************************************)
(* The greatest and the least entry of a list.                             *)
(***************************************************************************)
\* What the recursions of maxValue and minValue say.
RunsToMax(n, list, f) ==
  f = [i \in DOMAIN list |->
         IF i = 0 THEN list[0]
         ELSE IF GreaterThan(n, list[i], f[i - 1]) THEN list[i] ELSE f[i - 1]]

RunsToMin(n, list, f) ==
  f = [i \in DOMAIN list |->
         IF i = 0 THEN list[0]
         ELSE IF LessThan(n, list[i], f[i - 1]) THEN list[i] ELSE f[i - 1]]

\* The candidates before the last, as recursions need them.
LEMMA CandidatesAre ==
  /\ Candidates = 0..(nVotes - 1) /\ nVotes - 1 \in Nat /\ 0 \in Candidates /\ nVotes - 1 \in Candidates
  /\ \A i \in Candidates : i \in Nat
  /\ \A i \in Candidates \ {0} : i - 1 \in Candidates /\ i \in 1..(nVotes - 1)
BY ConstantsType DEF Candidates

\* The recursion of maxValue has a solution.
LEMMA RunningMaxEquation ==
  ASSUME NEW n, NEW list, DOMAIN list = Candidates
  PROVE  RunsToMax(n, list, RunningMax(n, list))
<1> DEFINE m == nVotes - 1
           V == {list[i] : i \in Candidates}
           step == [k \in 1..m |-> [v \in V |-> IF GreaterThan(n, list[k], v) THEN list[k] ELSE v]]
<1>1. m \in Nat /\ Candidates = 0..m /\ 0 \in Candidates
  BY CandidatesAre
<1>2. list[0] \in V /\ step \in [1..m -> [V -> V]]
  <2> HIDE DEF m
  <2>1. \A k \in 1..m : list[k] \in V
    BY <1>1
  <2> HIDE DEF V
  <2>2. \A k \in 1..m : [v \in V |-> IF GreaterThan(n, list[k], v) THEN list[k] ELSE v] \in [V -> V]
    BY <2>1
  <2>3. list[0] \in V
    BY <1>1 DEF V
  <2> QED BY <2>2, <2>3
<1>3. PICK f \in [0..m -> V] : Stepwise(m, list[0], step, f)
  <2> HIDE DEF m, V, step
  <2> QED BY <1>1, <1>2, RecursionExists
<1>4. f = [k \in 0..m |-> IF k = 0 THEN list[0] ELSE step[k][f[k - 1]]]
  BY <1>3 DEF Stepwise
<1>5. ASSUME NEW k \in 0..m, k # 0
      PROVE  step[k][f[k - 1]] = IF GreaterThan(n, list[k], f[k - 1]) THEN list[k] ELSE f[k - 1]
  <2> HIDE DEF m
  <2>1. k \in 1..m /\ k - 1 \in 0..m
    BY <1>1, <1>5
  <2>2. f[k - 1] \in V
    BY <2>1, <1>3
  <2> HIDE DEF V
  <2> QED BY <2>1, <2>2
<1>6. RunsToMax(n, list, f)
  <2> HIDE DEF m, V, step
  <2>1. [k \in 0..m |-> IF k = 0 THEN list[0] ELSE step[k][f[k - 1]]]
          = [k \in 0..m |-> IF k = 0 THEN list[0]
                            ELSE IF GreaterThan(n, list[k], f[k - 1]) THEN list[k] ELSE f[k - 1]]
    BY <1>5
  <2>2. DOMAIN list = 0..m
    BY <1>1
  <2> QED BY <1>4, <2>1, <2>2, Zenon DEF RunsToMax
<1>7. RunsToMax(n, list, CHOOSE g : RunsToMax(n, list, g))
  <2> HIDE DEF m, V, step
  <2> QED BY <1>6, Zenon
<1>8. RunningMax(n, list) = CHOOSE g : RunsToMax(n, list, g)
  BY Zenon DEF RunningMax, RunsToMax
<1> QED BY <1>7, <1>8, Zenon

\* So has that of minValue.
LEMMA RunningMinEquation ==
  ASSUME NEW n, NEW list, DOMAIN list = Candidates
  PROVE  RunsToMin(n, list, RunningMin(n, list))
<1> DEFINE m == nVotes - 1
           V == {list[i] : i \in Candidates}
           step == [k \in 1..m |-> [v \in V |-> IF LessThan(n, list[k], v) THEN list[k] ELSE v]]
<1>1. m \in Nat /\ Candidates = 0..m /\ 0 \in Candidates
  BY CandidatesAre
<1>2. list[0] \in V /\ step \in [1..m -> [V -> V]]
  <2> HIDE DEF m
  <2>1. \A k \in 1..m : list[k] \in V
    BY <1>1
  <2> HIDE DEF V
  <2>2. \A k \in 1..m : [v \in V |-> IF LessThan(n, list[k], v) THEN list[k] ELSE v] \in [V -> V]
    BY <2>1
  <2>3. list[0] \in V
    BY <1>1 DEF V
  <2> QED BY <2>2, <2>3
<1>3. PICK f \in [0..m -> V] : Stepwise(m, list[0], step, f)
  <2> HIDE DEF m, V, step
  <2> QED BY <1>1, <1>2, RecursionExists
<1>4. f = [k \in 0..m |-> IF k = 0 THEN list[0] ELSE step[k][f[k - 1]]]
  BY <1>3 DEF Stepwise
<1>5. ASSUME NEW k \in 0..m, k # 0
      PROVE  step[k][f[k - 1]] = IF LessThan(n, list[k], f[k - 1]) THEN list[k] ELSE f[k - 1]
  <2> HIDE DEF m
  <2>1. k \in 1..m /\ k - 1 \in 0..m
    BY <1>1, <1>5
  <2>2. f[k - 1] \in V
    BY <2>1, <1>3
  <2> HIDE DEF V
  <2> QED BY <2>1, <2>2
<1>6. RunsToMin(n, list, f)
  <2> HIDE DEF m, V, step
  <2>1. [k \in 0..m |-> IF k = 0 THEN list[0] ELSE step[k][f[k - 1]]]
          = [k \in 0..m |-> IF k = 0 THEN list[0]
                            ELSE IF LessThan(n, list[k], f[k - 1]) THEN list[k] ELSE f[k - 1]]
    BY <1>5
  <2>2. DOMAIN list = 0..m
    BY <1>1
  <2> QED BY <1>4, <2>1, <2>2, Zenon DEF RunsToMin
<1>7. RunsToMin(n, list, CHOOSE g : RunsToMin(n, list, g))
  <2> HIDE DEF m, V, step
  <2> QED BY <1>6, Zenon
<1>8. RunningMin(n, list) = CHOOSE g : RunsToMin(n, list, g)
  BY Zenon DEF RunningMin, RunsToMin
<1> QED BY <1>7, <1>8, Zenon

\* Their values, one by one.
LEMMA RunningMaxSteps ==
  ASSUME NEW n, NEW list, DOMAIN list = Candidates
  PROVE  LET run == RunningMax(n, list)
         IN  /\ run[0] = list[0]
             /\ \A i \in Candidates \ {0} :
                  run[i] = IF GreaterThan(n, list[i], run[i - 1]) THEN list[i] ELSE run[i - 1]
<1> DEFINE run == RunningMax(n, list)
<1>0. RunsToMax(n, list, run) /\ DOMAIN list = Candidates
  BY RunningMaxEquation
<1> HIDE DEF run
<1>1. run = [i \in Candidates |->
               IF i = 0 THEN list[0]
               ELSE IF GreaterThan(n, list[i], run[i - 1]) THEN list[i] ELSE run[i - 1]]
  BY <1>0, Zenon DEF RunsToMax
<1>2. \A i \in Candidates :
        run[i] = IF i = 0 THEN list[0]
                 ELSE IF GreaterThan(n, list[i], run[i - 1]) THEN list[i] ELSE run[i - 1]
  BY <1>1, Zenon
<1>3. 0 \in Candidates
  BY CandidatesAre
<1> QED BY <1>2, <1>3 DEF run

\* Those of minValue.
LEMMA RunningMinSteps ==
  ASSUME NEW n, NEW list, DOMAIN list = Candidates
  PROVE  LET run == RunningMin(n, list)
         IN  /\ run[0] = list[0]
             /\ \A i \in Candidates \ {0} :
                  run[i] = IF LessThan(n, list[i], run[i - 1]) THEN list[i] ELSE run[i - 1]
<1> DEFINE run == RunningMin(n, list)
<1>0. RunsToMin(n, list, run) /\ DOMAIN list = Candidates
  BY RunningMinEquation
<1> HIDE DEF run
<1>1. run = [i \in Candidates |->
               IF i = 0 THEN list[0]
               ELSE IF LessThan(n, list[i], run[i - 1]) THEN list[i] ELSE run[i - 1]]
  BY <1>0, Zenon DEF RunsToMin
<1>2. \A i \in Candidates :
        run[i] = IF i = 0 THEN list[0]
                 ELSE IF LessThan(n, list[i], run[i - 1]) THEN list[i] ELSE run[i - 1]
  BY <1>1, Zenon
<1>3. 0 \in Candidates
  BY CandidatesAre
<1> QED BY <1>2, <1>3 DEF run

\* Both run through entries of the list, whatever the comparisons say.
LEMMA RunningType ==
  ASSUME NEW n, NEW V, NEW list \in [Candidates -> V]
  PROVE  /\ \A i \in Candidates : RunningMax(n, list)[i] \in V
         /\ \A i \in Candidates : RunningMin(n, list)[i] \in V
<1> DEFINE up == RunningMax(n, list)
           down == RunningMin(n, list)
           N == {i \in Nat : i \in Candidates => up[i] \in V /\ down[i] \in V}
<1>0. DOMAIN list = Candidates /\ \A i \in Candidates : list[i] \in V
  OBVIOUS
<1>1. /\ up[0] = list[0]
      /\ \A i \in Candidates \ {0} :
           up[i] = IF GreaterThan(n, list[i], up[i - 1]) THEN list[i] ELSE up[i - 1]
  BY <1>0, RunningMaxSteps
<1>2. /\ down[0] = list[0]
      /\ \A i \in Candidates \ {0} :
           down[i] = IF LessThan(n, list[i], down[i - 1]) THEN list[i] ELSE down[i - 1]
  BY <1>0, RunningMinSteps
<1> HIDE DEF up, down
<1>3. 0 \in N
  BY <1>0, <1>1, <1>2
<1>4. ASSUME NEW i \in Nat, i \in N PROVE i + 1 \in N
  <2>1. SUFFICES ASSUME i + 1 \in Candidates PROVE up[i + 1] \in V /\ down[i + 1] \in V
    OBVIOUS
  <2>2. i + 1 \in Candidates \ {0} /\ i \in Candidates /\ (i + 1) - 1 = i
    BY <2>1, CandidatesAre
  <2>3. up[i] \in V /\ down[i] \in V
    BY <2>2, <1>4
  <2>4. up[i + 1] = IF GreaterThan(n, list[i + 1], up[i]) THEN list[i + 1] ELSE up[i]
    BY <2>2, <1>1
  <2>5. down[i + 1] = IF LessThan(n, list[i + 1], down[i]) THEN list[i + 1] ELSE down[i]
    BY <2>2, <1>2
  <2> QED BY <2>2, <2>3, <2>4, <2>5, <1>0
<1> HIDE DEF N
<1>5. Nat \subseteq N
  BY <1>3, <1>4, NatSetInduction
<1>6. \A i \in Candidates : i \in N
  BY <1>5, CandidatesAre
<1> QED BY <1>6 DEF N, up, down

\* The comparisons on the way do not leave the field.
MaxInRange(n, list) ==
  \A i \in Candidates \ {0} : 0 <= RunningMax(n, list)[i - 1] + Power2[n] - list[i]

MinInRange(n, list) ==
  \A i \in Candidates \ {0} : 0 <= list[i] + Power2[n] - RunningMin(n, list)[i - 1]

\* They do not if they are satisfied, or if no entry exceeds 2^n.
LEMMA SatisfiedInRange ==
  ASSUME NEW n \in Nat, NEW L \in Int, NEW K \in Nat, L <= 0, K - L + Power2[n] < P,
         NEW list \in [Candidates -> L..K]
  PROVE  /\ MaxSatisfied(n, list) => MaxInRange(n, list)
         /\ MinSatisfied(n, list) => MinInRange(n, list)
<1> DEFINE up == RunningMax(n, list)
           down == RunningMin(n, list)
           h == Power2[n]
<1>0. L \in Int /\ P \in Nat /\ h \in Nat /\ K - L + h < P
  BY PrimeAssumption, Power2Type
<1>1. \A i \in Candidates : up[i] \in L..K /\ down[i] \in L..K
  BY RunningType
<1>2. ASSUME NEW i \in Candidates \ {0} PROVE i - 1 \in Candidates
  BY CandidatesAre
<1>3. ASSUME MaxSatisfied(n, list) PROVE MaxInRange(n, list)
  <2>1. ASSUME NEW i \in Candidates \ {0} PROVE 0 <= up[i - 1] + h - list[i]
    <3>1. Comparable(n, up[i - 1], list[i])
      BY <1>3 DEF MaxSatisfied
    <3>2. up[i - 1] \in Int /\ list[i] \in Int /\ list[i] - up[i - 1] + h <= P
      <4> HIDE DEF up, h
      <4>1. up[i - 1] \in L..K /\ list[i] \in L..K
        BY <1>1, <1>2
      <4> QED BY <4>1, <1>0
    <3>3. ~(up[i - 1] + h - list[i] < 0)
      <4> HIDE DEF up
      <4> QED BY <3>1, <3>2, BelowIncomparable
    <3> HIDE DEF up, h
    <3> QED BY <3>2, <3>3, <1>0
  <2> QED BY <2>1 DEF MaxInRange
<1>4. ASSUME MinSatisfied(n, list) PROVE MinInRange(n, list)
  <2>1. ASSUME NEW i \in Candidates \ {0} PROVE 0 <= list[i] + h - down[i - 1]
    <3>1. Comparable(n, list[i], down[i - 1])
      BY <1>4 DEF MinSatisfied
    <3>2. down[i - 1] \in Int /\ list[i] \in Int /\ down[i - 1] - list[i] + h <= P
      <4> HIDE DEF down, h
      <4>1. down[i - 1] \in L..K /\ list[i] \in L..K
        BY <1>1, <1>2
      <4> QED BY <4>1, <1>0
    <3>3. ~(list[i] + h - down[i - 1] < 0)
      <4> HIDE DEF down
      <4> QED BY <3>1, <3>2, BelowIncomparable
    <3> HIDE DEF down, h
    <3> QED BY <3>2, <3>3, <1>0
  <2> QED BY <2>1 DEF MinInRange
<1> QED BY <1>3, <1>4

\* If they are not satisfied, some entry is negative, or 2^n or more.
LEMMA UnsatisfiedIsFull ==
  ASSUME NEW n \in Nat, NEW L \in Int, NEW K \in Nat, L <= 0, K - L + Power2[n] < P,
         NEW list \in [Candidates -> L..K],
         \A c \in Candidates : 0 <= list[c] /\ list[c] < Power2[n]
  PROVE  MaxSatisfied(n, list) /\ MinSatisfied(n, list)
<1> DEFINE up == RunningMax(n, list)
           down == RunningMin(n, list)
           h == Power2[n]
           V == {x \in L..K : 0 <= x /\ x < h}
<1>0. L \in Int /\ P \in Nat /\ h \in Nat /\ K - L + h < P
  BY PrimeAssumption, Power2Type
<1>1. list \in [Candidates -> V]
  OBVIOUS
<1>2. \A i \in Candidates : up[i] \in V /\ down[i] \in V
  <2> HIDE DEF V
  <2> QED BY <1>1, RunningType
<1>3. ASSUME NEW x \in V, NEW y \in V PROVE Comparable(n, x, y)
  <2>1. x \in Int /\ y \in Int /\ 0 <= x + h - y /\ x + h - y < P /\ x < y + h
    <3> HIDE DEF h
    <3> QED BY <1>0
  <2> QED BY <2>1, ComparisonRight
<1>4. ASSUME NEW i \in Candidates \ {0} PROVE up[i - 1] \in V /\ down[i - 1] \in V /\ list[i] \in V
  <2>1. i - 1 \in Candidates /\ i \in Candidates
    BY CandidatesAre
  <2> HIDE DEF V, up, down
  <2> QED BY <2>1, <1>1, <1>2
<1> HIDE DEF V
<1>5. \A i \in Candidates \ {0} :
        Comparable(n, up[i - 1], list[i]) /\ Comparable(n, list[i], down[i - 1])
  BY <1>3, <1>4
<1>6. DOMAIN list = Candidates
  OBVIOUS
<1> QED BY <1>5, <1>6, Zenon DEF MaxSatisfied, MinSatisfied
\* In range, the last entry of the run is the greatest, or the least, of the list.
LEMMA RunningRight ==
  ASSUME NEW n \in Nat, NEW L \in Int, NEW K \in Nat, L <= 0, K - L + Power2[n] < P,
         NEW list \in [Candidates -> L..K]
  PROVE  /\ MaxInRange(n, list) =>
              /\ \E j \in Candidates : MaxValue(n, list) = list[j]
              /\ \A j \in Candidates : list[j] <= MaxValue(n, list)
         /\ MinInRange(n, list) =>
              /\ \E j \in Candidates : MinValue(n, list) = list[j]
              /\ \A j \in Candidates : MinValue(n, list) <= list[j]
<1> DEFINE up == RunningMax(n, list)
           down == RunningMin(n, list)
           h == Power2[n]
           V == {list[j] : j \in Candidates}
           last == nVotes - 1
<1>0. L \in Int /\ P \in Nat /\ h \in Nat /\ K - L + h < P
  BY PrimeAssumption, Power2Type
<1>1. list \in [Candidates -> V] /\ DOMAIN list = Candidates /\ V \subseteq L..K
      /\ \A i \in Candidates : list[i] \in L..K
  OBVIOUS
<1>2. \A i \in Candidates : up[i] \in V /\ down[i] \in V
  <2> HIDE DEF V
  <2> QED BY <1>1, RunningType
<1>3. MaxValue(n, list) = up[last] /\ MinValue(n, list) = down[last] /\ last \in Candidates
  <2>1. Size(list) = nVotes
    BY <1>1, CandidatesFinite, Zenon DEF Size
  <2> QED BY <2>1, CandidatesAre, Zenon DEF MaxValue, MinValue
<1>4. /\ up[0] = list[0]
      /\ \A i \in Candidates \ {0} :
           up[i] = IF GreaterThan(n, list[i], up[i - 1]) THEN list[i] ELSE up[i - 1]
  BY <1>1, RunningMaxSteps
<1>5. /\ down[0] = list[0]
      /\ \A i \in Candidates \ {0} :
           down[i] = IF LessThan(n, list[i], down[i - 1]) THEN list[i] ELSE down[i - 1]
  BY <1>1, RunningMinSteps
<1>6. ASSUME MaxInRange(n, list) PROVE \A j \in Candidates : list[j] <= up[last]
  <2> DEFINE N == {i \in Nat : i \in Candidates => \A j \in 0..i : list[j] <= up[i]}
  <2>0. \A i \in Candidates \ {0} : 0 <= up[i - 1] + h - list[i]
    BY <1>6 DEF MaxInRange
  <2> HIDE DEF up, h, V, last
  <2>1. 0 \in N
    BY <1>1, <1>4
  <2>2. ASSUME NEW i \in Nat, i \in N PROVE i + 1 \in N
    <3>1. SUFFICES ASSUME i + 1 \in Candidates PROVE \A j \in 0..(i + 1) : list[j] <= up[i + 1]
      OBVIOUS
    <3>2. i + 1 \in Candidates \ {0} /\ i \in Candidates /\ (i + 1) - 1 = i
      BY <3>1, CandidatesAre
    <3>3. \A j \in 0..i : list[j] <= up[i]
      BY <3>2, <2>2
    <3>4. up[i + 1] = IF GreaterThan(n, list[i + 1], up[i]) THEN list[i + 1] ELSE up[i]
      BY <3>2, <1>4
    <3>5. up[i] \in L..K /\ list[i + 1] \in L..K
      BY <3>2, <1>1, <1>2
    <3>6. up[i] \in Int /\ list[i + 1] \in Int /\ 0 <= up[i] + Power2[n] - list[i + 1]
          /\ up[i] + Power2[n] - list[i + 1] < P
      BY <2>0, <3>2, <3>5, <1>0 DEF h
    <3>7. GreaterThan(n, list[i + 1], up[i]) <=> up[i] < list[i + 1]
      BY <3>6, ComparisonRight DEF GreaterThan
    <3>8. up[i] <= up[i + 1] /\ list[i + 1] <= up[i + 1] /\ up[i + 1] \in Int
      BY <3>4, <3>5, <3>7
    <3>9. ASSUME NEW j \in 0..(i + 1) PROVE list[j] <= up[i + 1]
      <4>1. CASE j = i + 1
        BY <4>1, <3>8
      <4>2. CASE j # i + 1
        <5>1. j \in 0..i /\ j \in Candidates
          BY <4>2, <3>2, CandidatesAre
        <5>2. list[j] <= up[i] /\ list[j] \in L..K
          BY <5>1, <3>3, <1>1
        <5> QED BY <5>2, <3>5, <3>8
      <4> QED BY <4>1, <4>2
    <3> QED BY <3>9
  <2> HIDE DEF N
  <2>3. Nat \subseteq N
    BY <2>1, <2>2, NatSetInduction
  <2>4. last \in N
    BY <2>3, CandidatesAre DEF last
  <2>5. \A j \in 0..last : list[j] <= up[last]
    BY <2>4, <1>3 DEF N
  <2> QED BY <2>5, CandidatesAre DEF last
<1>7. ASSUME MinInRange(n, list) PROVE \A j \in Candidates : down[last] <= list[j]
  <2> DEFINE N == {i \in Nat : i \in Candidates => \A j \in 0..i : down[i] <= list[j]}
  <2>0. \A i \in Candidates \ {0} : 0 <= list[i] + h - down[i - 1]
    BY <1>7 DEF MinInRange
  <2> HIDE DEF down, h, V, last
  <2>1. 0 \in N
    BY <1>1, <1>5
  <2>2. ASSUME NEW i \in Nat, i \in N PROVE i + 1 \in N
    <3>1. SUFFICES ASSUME i + 1 \in Candidates PROVE \A j \in 0..(i + 1) : down[i + 1] <= list[j]
      OBVIOUS
    <3>2. i + 1 \in Candidates \ {0} /\ i \in Candidates /\ (i + 1) - 1 = i
      BY <3>1, CandidatesAre
    <3>3. \A j \in 0..i : down[i] <= list[j]
      BY <3>2, <2>2
    <3>4. down[i + 1] = IF LessThan(n, list[i + 1], down[i]) THEN list[i + 1] ELSE down[i]
      BY <3>2, <1>5
    <3>5. down[i] \in L..K /\ list[i + 1] \in L..K
      BY <3>2, <1>1, <1>2
    <3>6. down[i] \in Int /\ list[i + 1] \in Int /\ 0 <= list[i + 1] + Power2[n] - down[i]
          /\ list[i + 1] + Power2[n] - down[i] < P
      BY <2>0, <3>2, <3>5, <1>0 DEF h
    <3>7. LessThan(n, list[i + 1], down[i]) <=> list[i + 1] < down[i]
      BY <3>6, ComparisonRight
    <3>8. down[i + 1] <= down[i] /\ down[i + 1] <= list[i + 1] /\ down[i + 1] \in Int
      BY <3>4, <3>5, <3>7
    <3>9. ASSUME NEW j \in 0..(i + 1) PROVE down[i + 1] <= list[j]
      <4>1. CASE j = i + 1
        BY <4>1, <3>8
      <4>2. CASE j # i + 1
        <5>1. j \in 0..i /\ j \in Candidates
          BY <4>2, <3>2, CandidatesAre
        <5>2. down[i] <= list[j] /\ list[j] \in L..K
          BY <5>1, <3>3, <1>1
        <5> QED BY <5>2, <3>5, <3>8
      <4> QED BY <4>1, <4>2
    <3> QED BY <3>9
  <2> HIDE DEF N
  <2>3. Nat \subseteq N
    BY <2>1, <2>2, NatSetInduction
  <2>4. last \in N
    BY <2>3, CandidatesAre DEF last
  <2>5. \A j \in 0..last : down[last] <= list[j]
    BY <2>4, <1>3 DEF N
  <2> QED BY <2>5, CandidatesAre DEF last
<1>8. (\E j \in Candidates : up[last] = list[j]) /\ (\E j \in Candidates : down[last] = list[j])
  <2>1. up[last] \in V /\ down[last] \in V
    <3> HIDE DEF V
    <3> QED BY <1>2, <1>3
  <2> QED BY <2>1
<1> HIDE DEF up, down, last
<1> QED BY <1>3, <1>6, <1>7, <1>8

\* In range, the indicators mark the greatest, or the least, entries.
LEMMA IndicatorsRight ==
  ASSUME NEW n \in Nat, NEW L \in Int, NEW K \in Nat, L <= 0, K - L + Power2[n] < P,
         NEW list \in [Candidates -> L..K]
  PROVE  /\ MaxInRange(n, list) =>
              MaximumIndicator(n, list) = {c \in Candidates : \A d \in Candidates : list[d] <= list[c]}
         /\ MinInRange(n, list) =>
              MinimumIndicator(n, list) = {c \in Candidates : \A d \in Candidates : list[c] <= list[d]}
<1>0. DOMAIN list = Candidates /\ \A i \in Candidates : list[i] \in Int
  OBVIOUS
<1>1. ASSUME MaxInRange(n, list)
      PROVE  MaximumIndicator(n, list) = {c \in Candidates : \A d \in Candidates : list[d] <= list[c]}
  <2> DEFINE top == MaxValue(n, list)
  <2>1. (\E j \in Candidates : top = list[j]) /\ \A j \in Candidates : list[j] <= top
    BY <1>1, RunningRight
  <2>2. MaximumIndicator(n, list) = {c \in Candidates : list[c] = top}
    BY <1>0, Zenon DEF MaximumIndicator, IdxEqual
  <2> HIDE DEF top
  <2>3. ASSUME NEW c \in Candidates PROVE list[c] = top <=> \A d \in Candidates : list[d] <= list[c]
    BY <1>0, <2>1
  <2> QED BY <2>2, <2>3
<1>2. ASSUME MinInRange(n, list)
      PROVE  MinimumIndicator(n, list) = {c \in Candidates : \A d \in Candidates : list[c] <= list[d]}
  <2> DEFINE top == MinValue(n, list)
  <2>1. (\E j \in Candidates : top = list[j]) /\ \A j \in Candidates : top <= list[j]
    BY <1>2, RunningRight
  <2>2. MinimumIndicator(n, list) = {c \in Candidates : list[c] = top}
    BY <1>0, Zenon DEF MinimumIndicator, IdxEqual
  <2> HIDE DEF top
  <2>3. ASSUME NEW c \in Candidates PROVE list[c] = top <=> \A d \in Candidates : list[c] <= list[d]
    BY <1>0, <2>1
  <2> QED BY <2>2, <2>3
<1> QED BY <1>1, <1>2

\* Entries from L to K and n bits, compared within the field.
Fits(n, L, K) == L \in Int /\ K \in Nat /\ L <= 0 /\ K - L + Power2[n] < P

\* The same for entries that fit.
LEMMA IndicatorsFit ==
  ASSUME NEW n \in Nat, NEW L, NEW K, Fits(n, L, K), NEW list \in [Candidates -> L..K]
  PROVE  /\ MaxInRange(n, list) =>
              MaximumIndicator(n, list) = {c \in Candidates : \A d \in Candidates : list[d] <= list[c]}
         /\ MinInRange(n, list) =>
              MinimumIndicator(n, list) = {c \in Candidates : \A d \in Candidates : list[c] <= list[d]}
<1>1. L \in Int /\ K \in Nat /\ L <= 0 /\ K - L + Power2[n] < P
  BY DEF Fits
<1> QED BY <1>1, IndicatorsRight

\* The threshold is compared with every entry.
LEMMA ThresholdRight ==
  ASSUME NEW n \in Nat, NEW L, NEW K, Fits(n, L, K), K - L + Power2[n] + 1 < P,
         NEW list \in [Candidates -> L..K], NEW t \in 0..K
  PROVE  /\ ThresholdSatisfied(n, list, t) =>
              ThresholdIndicator(n, list, t) = {c \in Candidates : list[c] >= t}
         /\ ~ThresholdSatisfied(n, list, t) /\ t <= Power2[n] =>
              \E c \in Candidates : list[c] \notin 0..(Power2[n] - 1)
<1> DEFINE h == Power2[n]
<1>0. L \in Int /\ K \in Nat /\ L <= 0 /\ P \in Nat /\ h \in Nat /\ h > 0 /\ K - L + h + 1 < P
  BY PrimeAssumption, Power2Type DEF Fits
<1>1. DOMAIN list = Candidates /\ \A c \in Candidates : list[c] \in L..K
  OBVIOUS
<1>2. ASSUME NEW c \in Candidates, Comparable(n, t, list[c] + 1)
      PROVE  GreaterEqThan(n, list[c], t) <=> list[c] >= t
  <2>0. list[c] \in L..K
    BY <1>1
  <2>1. t \in Int /\ list[c] + 1 \in Int /\ (list[c] + 1) - t + h <= P /\ t + h - (list[c] + 1) < P
    <3> HIDE DEF h
    <3> QED BY <1>0, <2>0
  <2>2. ~(t + h - (list[c] + 1) < 0)
    BY <2>1, <1>2, BelowIncomparable
  <2>3. 0 <= t + h - (list[c] + 1)
    <3> HIDE DEF h
    <3> QED BY <2>2, <2>0, <1>0
  <2>4. LessThan(n, t, list[c] + 1) <=> t < list[c] + 1
    BY <2>1, <2>3, ComparisonRight
  <2> QED BY <2>0, <2>4 DEF GreaterEqThan
<1>3. ASSUME ThresholdSatisfied(n, list, t)
      PROVE  ThresholdIndicator(n, list, t) = {c \in Candidates : list[c] >= t}
  <2>1. \A c \in Candidates : Comparable(n, t, list[c] + 1)
    BY <1>3, <1>1 DEF ThresholdSatisfied
  <2>2. \A c \in Candidates : GreaterEqThan(n, list[c], t) <=> list[c] >= t
    BY <2>1, <1>2
  <2> QED BY <2>2, <1>1 DEF ThresholdIndicator
<1>4. ASSUME t <= h, \A c \in Candidates : list[c] \in 0..(h - 1)
      PROVE  ThresholdSatisfied(n, list, t)
  <2>1. ASSUME NEW c \in Candidates PROVE Comparable(n, t, list[c] + 1)
    <3>1. list[c] \in L..K /\ list[c] < h
      <4> HIDE DEF h
      <4> QED BY <1>0, <1>1, <1>4
    <3>2. /\ t \in Int /\ list[c] + 1 \in Int /\ 0 <= t + h - (list[c] + 1)
          /\ t + h - (list[c] + 1) < P /\ t < (list[c] + 1) + h
      <4> HIDE DEF h
      <4> QED BY <1>0, <1>4, <3>1
    <3> QED BY <3>2, ComparisonRight
  <2> QED BY <2>1, <1>1 DEF ThresholdSatisfied
<1>5. ~ThresholdSatisfied(n, list, t) /\ t <= h => \E c \in Candidates : list[c] \notin 0..(h - 1)
  <2> HIDE DEF h
  <2> QED BY <1>4
<1> QED BY <1>3, <1>5

\* Those whom fewer than m exceed.
FewerAbove(list, m) ==
  {c \in Candidates : Cardinality({d \in Candidates : list[d] > list[c]}) < m}

\* Entries are counted that exceed an entry, and the count compared with m.
LEMMA HighestRight ==
  ASSUME NEW n \in Nat, NEW L \in Int, NEW K \in Nat, L <= 0, K - L + Power2[n] < P,
         nVotes + Power2[n] < P, NEW list \in [Candidates -> L..K], NEW m \in 1..nVotes
  PROVE  /\ HighestMSatisfied(n, list, m) => HighestMEntries(n, list, m) = FewerAbove(list, m)
         /\ ~HighestMSatisfied(n, list, m) /\ nVotes <= Power2[n] =>
              \E c \in Candidates : list[c] \notin 0..(Power2[n] - 1)
<1> DEFINE h == Power2[n]
           A(c) == {d \in Candidates : list[d] > list[c]}
           above(c) == Cardinality(A(c))
           count(c) == CountGreater(n, list, list[c])
<1>0. L \in Int /\ P \in Nat /\ h \in Nat /\ h > 0 /\ K - L + h < P /\ nVotes + h < P /\ nVotes \in Nat /\ m \in Nat
  BY PrimeAssumption, Power2Type, ConstantsType
<1>1. DOMAIN list = Candidates /\ \A c \in Candidates : list[c] \in L..K
  OBVIOUS
<1>2. \A c \in Candidates : above(c) \in 0..(nVotes - 1)
  <2>1. ASSUME NEW c \in Candidates PROVE above(c) \in 0..(nVotes - 1)
    <3>1. A(c) \in SUBSET Candidates /\ c \notin A(c)
      BY <1>1
    <3> HIDE DEF A
    <3>2. IsFiniteSet(A(c)) /\ Cardinality(A(c)) <= nVotes /\ Cardinality(A(c)) # nVotes
      BY <3>1, CandidatesFinite, FS_Subset
    <3>3. Cardinality(A(c)) \in Nat
      BY <3>2, FS_CardinalityType
    <3> QED BY <3>2, <3>3, <1>0
  <2> QED BY <2>1
<1>3. ASSUME NEW c \in Candidates, \A d \in Candidates : Comparable(n, list[c], list[d])
      PROVE  count(c) = above(c)
  <2>1. ASSUME NEW d \in Candidates PROVE GreaterThan(n, list[d], list[c]) <=> list[d] > list[c]
    <3>1. list[c] \in L..K /\ list[d] \in L..K /\ Comparable(n, list[c], list[d])
      BY <1>1, <1>3
    <3>2. list[c] \in Int /\ list[d] \in Int /\ list[d] - list[c] + h <= P /\ list[c] + h - list[d] < P
      <4> HIDE DEF h
      <4> QED BY <3>1, <1>0
    <3>3. ~(list[c] + h - list[d] < 0)
      BY <3>1, <3>2, BelowIncomparable
    <3>4. 0 <= list[c] + h - list[d]
      <4> HIDE DEF h
      <4> QED BY <3>2, <3>3, <1>0
    <3>5. LessThan(n, list[c], list[d]) <=> list[c] < list[d]
      BY <3>2, <3>4, ComparisonRight
    <3> QED BY <3>1, <3>5 DEF GreaterThan
  <2>2. {d \in DOMAIN list : GreaterThan(n, list[d], list[c])} = A(c)
    BY <2>1, <1>1
  <2> HIDE DEF A
  <2> QED BY <2>2, Zenon DEF CountGreater
<1> HIDE DEF count, above, A
<1>4. ASSUME HighestMSatisfied(n, list, m)
      PROVE  HighestMEntries(n, list, m) = {c \in Candidates : above(c) < m}
  <2>1. \A c \in Candidates : count(c) = above(c) /\ Comparable(n, count(c), m)
    <3>1. \A c \in Candidates : /\ \A d \in Candidates : Comparable(n, list[c], list[d])
                                /\ Comparable(n, count(c), m)
      BY <1>4, <1>1, Zenon DEF HighestMSatisfied, count
    <3> QED BY <3>1, <1>3
  <2>2. ASSUME NEW c \in Candidates PROVE LessThan(n, count(c), m) <=> above(c) < m
    <3>1. above(c) \in 0..(nVotes - 1) /\ Comparable(n, above(c), m)
      <4>1. Comparable(n, above(c), m)
        BY <2>1, Zenon
      <4> QED BY <4>1, <1>2
    <3>2. above(c) \in Int /\ m \in Int /\ m - above(c) + h <= P /\ above(c) + h - m < P
      <4> HIDE DEF h
      <4> QED BY <3>1, <1>0
    <3>3. ~(above(c) + h - m < 0)
      BY <3>1, <3>2, BelowIncomparable
    <3>4. 0 <= above(c) + h - m
      <4> HIDE DEF h
      <4> QED BY <3>2, <3>3, <1>0
    <3>5. LessThan(n, above(c), m) <=> above(c) < m
      BY <3>2, <3>4, ComparisonRight
    <3> QED BY <3>5, <2>1
  <2>3. HighestMEntries(n, list, m) = {c \in Candidates : LessThan(n, count(c), m)}
    BY <1>1, Zenon DEF HighestMEntries, count
  <2> QED BY <2>2, <2>3
<1>5. ASSUME nVotes <= h, \A c \in Candidates : list[c] \in 0..(h - 1) PROVE HighestMSatisfied(n, list, m)
  <2>1. ASSUME NEW c \in Candidates, NEW d \in Candidates PROVE Comparable(n, list[c], list[d])
    <3>1. list[c] \in L..K /\ list[d] \in L..K /\ list[c] \in 0..(h - 1) /\ list[d] \in 0..(h - 1)
      BY <1>1, <1>5
    <3>2. /\ list[c] \in Int /\ list[d] \in Int /\ 0 <= list[c] + h - list[d]
          /\ list[c] + h - list[d] < P /\ list[c] < list[d] + h
      <4> HIDE DEF h
      <4> QED BY <1>0, <3>1
    <3> QED BY <3>2, ComparisonRight
  <2>2. ASSUME NEW c \in Candidates PROVE Comparable(n, count(c), m)
    <3>1. count(c) = above(c) /\ above(c) \in 0..(nVotes - 1)
      BY <1>2, <1>3, <2>1
    <3>2. /\ above(c) \in Int /\ m \in Int /\ 0 <= above(c) + h - m
          /\ above(c) + h - m < P /\ above(c) < m + h
      <4> HIDE DEF h
      <4> QED BY <1>0, <1>5, <3>1
    <3>3. Comparable(n, above(c), m)
      BY <3>2, ComparisonRight
    <3> QED BY <3>1, <3>3, Zenon
  <2> QED BY <2>1, <2>2, <1>1, Zenon DEF HighestMSatisfied, count
<1>6. ~HighestMSatisfied(n, list, m) /\ nVotes <= h =>
        \E c \in Candidates : list[c] \notin 0..(h - 1)
  <2> HIDE DEF h
  <2> QED BY <1>5
<1> QED BY <1>4, <1>6, Zenon DEF above, A, FewerAbove

\* The same for entries that fit.
LEMMA HighestFits ==
  ASSUME NEW n \in Nat, NEW L, NEW K, Fits(n, L, K), nVotes + Power2[n] < P,
         NEW list \in [Candidates -> L..K], NEW m \in 1..nVotes
  PROVE  HighestMSatisfied(n, list, m) => HighestMEntries(n, list, m) = FewerAbove(list, m)
<1>1. L \in Int /\ K \in Nat /\ L <= 0 /\ K - L + Power2[n] < P
  BY DEF Fits
<1> QED BY <1>1, HighestRight
-----------------------------------------------------------------------------
(***************************************************************************)
(* The Smith set.                                                          *)
(***************************************************************************)
\* Those over whom more voters prefer i.
Beaten(i) == {j \in Candidates : tally[i][j] > tally[j][i]}

\* The table of a tally.
LEMMA TableEntries ==
  ASSUME NEW S, NEW V, NEW m \in Matrix(S, V)
  PROVE  /\ m \in [Candidates -> [S -> V]]
         /\ \A i \in Candidates : m[i] \in [S -> V]
         /\ \A i \in Candidates, j \in S : m[i][j] \in V
BY DEF Matrix

\* Nobody wins a match against themselves.
LEMMA WonMatchesType ==
  ASSUME NEW n
  PROVE  /\ WonMatches(n, tally) \in [Candidates -> 0..nVotes]
         /\ \A i \in Candidates : WonMatches(n, tally)[i] < nVotes
<1>1. nVotes \in Nat /\ IsFiniteSet(Candidates) /\ Cardinality(Candidates) = nVotes
  BY ConstantsType, CandidatesFinite
<1>2. ASSUME NEW i \in Candidates
      PROVE  Cardinality({j \in Candidates : IsGreater(n, tally, i, j)}) \in 0..(nVotes - 1)
  <2> DEFINE W == {j \in Candidates : IsGreater(n, tally, i, j)}
  <2>1. W \in SUBSET Candidates /\ i \notin W
    BY DEF IsGreater
  <2> HIDE DEF W
  <2>2. IsFiniteSet(W) /\ Cardinality(W) <= nVotes /\ Cardinality(W) # nVotes
    BY <1>1, <2>1, FS_Subset
  <2>3. Cardinality(W) \in Nat
    BY <2>2, FS_CardinalityType
  <2>4. Cardinality(W) \in 0..(nVotes - 1)
    BY <1>1, <2>2, <2>3
  <2> QED BY <2>4 DEF W
<1>3. \A i \in Candidates : WonMatches(n, tally)[i] \in 0..(nVotes - 1)
  BY <1>2 DEF WonMatches
<1>4. WonMatches(n, tally) = [i \in Candidates |-> WonMatches(n, tally)[i]]
  BY DEF WonMatches
<1>5. \A i \in Candidates : WonMatches(n, tally)[i] \in 0..nVotes /\ WonMatches(n, tally)[i] < nVotes
  BY <1>1, <1>3
<1> HIDE DEF WonMatches
<1> QED BY <1>4, <1>5

\* If the comparisons are satisfied, matches are won by those preferred.
LEMMA MatchesRight ==
  ASSUME NEW n \in Nat, NEW K \in Nat, K + Power2[n] < P, tally \in Matrix(Candidates, 0..K),
         SmithSatisfied(n, tally)
  PROVE  /\ \A i, j \in Candidates : IsGreater(n, tally, i, j) <=> j \in Beaten(i)
         /\ \A i \in Candidates : WonMatches(n, tally)[i] = Cardinality(Beaten(i))
<1> DEFINE h == Power2[n]
<1>0. P \in Nat /\ h \in Nat /\ K + h < P
  BY PrimeAssumption, Power2Type
<1>1. ASSUME NEW i \in Candidates, NEW j \in Candidates
      PROVE  IsGreater(n, tally, i, j) <=> j \in Beaten(i)
  <2>1. tally[i][j] \in 0..K /\ tally[j][i] \in 0..K
    BY TableEntries
  <2>2. CASE i = j
    BY <2>1, <2>2 DEF IsGreater, Beaten
  <2>3. CASE i # j
    <3> DEFINE x == tally[j][i]
               y == tally[i][j]
    <3>1. Comparable(n, x, y)
      BY <2>3 DEF SmithSatisfied
    <3>2. x \in 0..K /\ y \in 0..K
      BY <2>1
    <3> HIDE DEF x, y
    <3>3. x \in Int /\ y \in Int /\ y - x + h <= P /\ x + h - y < P
      <4> HIDE DEF h
      <4> QED BY <3>2, <1>0
    <3>4. ~(x + h - y < 0)
      BY <3>1, <3>3, BelowIncomparable
    <3>5. 0 <= x + h - y
      <4> HIDE DEF h
      <4> QED BY <3>3, <3>4, <1>0
    <3>6. LessThan(n, x, y) <=> x < y
      BY <3>3, <3>5, ComparisonRight
    <3>7. GreaterThan(n, y, x) <=> y > x
      BY <3>2, <3>6 DEF GreaterThan
    <3> QED BY <2>3, <3>7 DEF IsGreater, Beaten, x, y
  <2> QED BY <2>2, <2>3
<1>2. ASSUME NEW i \in Candidates PROVE WonMatches(n, tally)[i] = Cardinality(Beaten(i))
  <2>1. {j \in Candidates : IsGreater(n, tally, i, j)} = Beaten(i)
    <3>1. Beaten(i) \subseteq Candidates
      BY DEF Beaten
    <3> QED BY <1>1, <3>1
  <2>2. WonMatches(n, tally)[i] = Cardinality({j \in Candidates : IsGreater(n, tally, i, j)})
    BY DEF WonMatches
  <2> QED BY <2>1, <2>2, Zenon
<1> QED BY <1>1, <1>2

\* What the recursion of computeSmithSet says.
RunsThroughSmithSet(n, m, f) ==
  f = [i \in Candidates |->
         IF i = 0 THEN MaximumIndicator(n, WonMatches(n, m))
         ELSE {j \in Candidates : JoinsSmithSet(n, m, j, f[i - 1])}]

\* It has a solution.
LEMMA SmithSetEquation ==
  ASSUME NEW n, NEW m
  PROVE  RunsThroughSmithSet(n, m, RunningSmithSet(n, m))
<1> DEFINE k == nVotes - 1
           V == SUBSET Candidates
           first == MaximumIndicator(n, WonMatches(n, m))
           joined(S) == {j \in Candidates : JoinsSmithSet(n, m, j, S)}
           step == [i \in 1..k |-> [S \in V |-> joined(S)]]
<1>1. k \in Nat /\ Candidates = 0..k
  BY CandidatesAre
<1>2. first \in V
  <2>1. DOMAIN WonMatches(n, m) = Candidates
    BY DEF WonMatches
  <2> QED BY <2>1 DEF MaximumIndicator, IdxEqual
<1>3. step \in [1..k -> [V -> V]]
  <2>1. \A S \in V : joined(S) \in V
    OBVIOUS
  <2> HIDE DEF joined, k, V
  <2> QED BY <2>1
<1>4. PICK f \in [0..k -> V] : Stepwise(k, first, step, f)
  <2> HIDE DEF k, V, step, first
  <2> QED BY <1>1, <1>2, <1>3, RecursionExists
<1>5. f = [i \in 0..k |-> IF i = 0 THEN first ELSE step[i][f[i - 1]]]
  BY <1>4 DEF Stepwise
<1>6. ASSUME NEW i \in 0..k, i # 0 PROVE step[i][f[i - 1]] = joined(f[i - 1])
  <2> HIDE DEF k, joined
  <2>1. i \in 1..k /\ i - 1 \in 0..k
    BY <1>1, <1>6
  <2>2. f[i - 1] \in V
    BY <2>1, <1>4
  <2> HIDE DEF V
  <2> QED BY <2>1, <2>2
<1>7. RunsThroughSmithSet(n, m, f)
  <2> HIDE DEF k, V, step
  <2>1. [i \in 0..k |-> IF i = 0 THEN first ELSE step[i][f[i - 1]]]
          = [i \in 0..k |-> IF i = 0 THEN first ELSE joined(f[i - 1])]
    <3> HIDE DEF joined, first
    <3> QED BY <1>6
  <2> QED BY <1>1, <1>5, <2>1, Zenon DEF RunsThroughSmithSet
<1>8. RunsThroughSmithSet(n, m, CHOOSE g : RunsThroughSmithSet(n, m, g))
  <2> HIDE DEF k, V, step, first, joined
  <2> QED BY <1>7, Zenon
<1>9. RunningSmithSet(n, m) = CHOOSE g : RunsThroughSmithSet(n, m, g)
  BY Zenon DEF RunningSmithSet, RunsThroughSmithSet
<1> QED BY <1>8, <1>9, Zenon

\* Those with most won matches are in every dominating set, for its members win over everybody
\* outside and an outsider only over outsiders.
LEMMA MostMatchesDominate ==
  ASSUME NEW K \in Nat, tally \in Matrix(Candidates, 0..K),
         NEW S \in SUBSET Candidates, S # {}, Dominates(S),
         NEW c \in Candidates,
         \A d \in Candidates : Cardinality(Beaten(d)) <= Cardinality(Beaten(c))
  PROVE  c \in S
<1>1. SUFFICES ASSUME c \notin S PROVE FALSE
  OBVIOUS
<1>2. PICK s \in S : TRUE
  OBVIOUS
<1>3. \A i, j \in Candidates : tally[i][j] \in Int
  <2>1. \A i, j \in Candidates : tally[i][j] \in 0..K
    BY TableEntries
  <2> QED BY <2>1
<1> DEFINE out == Candidates \ S
           rest == out \ {c}
<1>4. out \subseteq Beaten(s) /\ s \in Candidates
  BY DEF Dominates, Beaten
<1>5. Beaten(c) \subseteq rest
  <2>1. ASSUME NEW j \in Candidates, tally[c][j] > tally[j][c] PROVE j \in rest
    <3>1. j # c
      BY <2>1, <1>3
    <3>2. j \notin S
      <4>1. j \in S => tally[j][c] > tally[c][j]
        BY <1>1 DEF Dominates
      <4> QED BY <4>1, <2>1, <1>3
    <3> QED BY <3>1, <3>2
  <2> QED BY <2>1 DEF Beaten
<1>6. /\ IsFiniteSet(Candidates) /\ out \in SUBSET Candidates /\ c \in out
      /\ Beaten(s) \in SUBSET Candidates
  BY <1>1, CandidatesFinite DEF Beaten
<1> HIDE DEF out
<1>7. IsFiniteSet(out) /\ IsFiniteSet(Beaten(s))
  BY <1>6, FS_Subset
<1>8. IsFiniteSet(rest) /\ Cardinality(rest) = Cardinality(out) - 1
  BY <1>6, <1>7, FS_RemoveElement
<1> HIDE DEF rest
<1>9. Cardinality(Beaten(c)) <= Cardinality(rest)
  BY <1>5, <1>8, FS_Subset
<1>10. Cardinality(out) <= Cardinality(Beaten(s))
  BY <1>4, <1>7, FS_Subset
<1>11. /\ Cardinality(out) \in Nat /\ Cardinality(rest) \in Nat /\ Cardinality(Beaten(s)) \in Nat
       /\ Cardinality(Beaten(c)) \in Nat
  <2>1. IsFiniteSet(Beaten(c))
    BY <1>5, <1>8, FS_Subset
  <2> QED BY <2>1, <1>7, <1>8, FS_CardinalityType
<1>12. Cardinality(Beaten(s)) <= Cardinality(Beaten(c))
  BY <1>4
<1> QED BY <1>8, <1>9, <1>10, <1>11, <1>12

\* No round leaves a dominating set.
LEMMA RoundsStayInDominating ==
  ASSUME NEW n \in Nat, NEW K \in Nat, K + Power2[n] < P, nVotes + Power2[n] < P,
         tally \in Matrix(Candidates, 0..K), SmithSatisfied(n, tally),
         NEW S \in SUBSET Candidates, S # {}, Dominates(S),
         NEW r \in Candidates
  PROVE  RunningSmithSet(n, tally)[r] \subseteq S
<1> DEFINE run == RunningSmithSet(n, tally)
           won == WonMatches(n, tally)
           first == MaximumIndicator(n, won)
           N == {i \in Nat : i \in Candidates => run[i] \subseteq S}
<1>0. \A i, j \in Candidates : tally[i][j] \in Int
  <2>1. \A i, j \in Candidates : tally[i][j] \in 0..K
    BY TableEntries
  <2> QED BY <2>1
<1>1. /\ \A i, j \in Candidates : IsGreater(n, tally, i, j) <=> j \in Beaten(i)
      /\ \A i \in Candidates : won[i] = Cardinality(Beaten(i))
  BY MatchesRight
<1>2. run = [i \in Candidates |->
               IF i = 0 THEN first ELSE {j \in Candidates : JoinsSmithSet(n, tally, j, run[i - 1])}]
  <2>1. RunsThroughSmithSet(n, tally, run)
    BY SmithSetEquation
  <2> HIDE DEF run
  <2> QED BY <2>1, Zenon DEF RunsThroughSmithSet
<1> HIDE DEF run
<1>3. first \subseteq S
  <2>1. won \in [Candidates -> 0..nVotes] /\ nVotes \in Nat
    BY WonMatchesType, ConstantsType
  <2>2. MaxSatisfied(n, won)
    BY DEF SmithSatisfied
  <2> HIDE DEF won
  <2>3. MaxInRange(n, won)
    BY <2>1, <2>2, SatisfiedInRange
  <2>4. first = {c \in Candidates : \A d \in Candidates : won[d] <= won[c]}
    BY <2>1, <2>3, IndicatorsRight
  <2>5. ASSUME NEW c \in first PROVE c \in S
    <3>1. c \in Candidates /\ \A d \in Candidates : won[d] <= won[c]
      BY <2>4
    <3>2. \A d \in Candidates : Cardinality(Beaten(d)) <= Cardinality(Beaten(c))
      BY <1>1, <3>1
    <3> QED BY <3>1, <3>2, MostMatchesDominate
  <2> QED BY <2>5
<1> HIDE DEF first, won
<1>4. 0 \in N
  <2>1. run[0] = first
    BY <1>2, CandidatesAre
  <2> QED BY <2>1, <1>3
<1>5. ASSUME NEW i \in Nat, i \in N PROVE i + 1 \in N
  <2>1. SUFFICES ASSUME i + 1 \in Candidates PROVE run[i + 1] \subseteq S
    OBVIOUS
  <2>2. i + 1 \in Candidates \ {0} /\ i \in Candidates /\ (i + 1) - 1 = i
    BY <2>1, CandidatesAre
  <2>3. run[i] \subseteq S
    BY <2>2, <1>5
  <2>4. run[i + 1] = {j \in Candidates : JoinsSmithSet(n, tally, j, run[i])}
    <3>1. \A k \in Candidates : k # 0 =>
            run[k] = {j \in Candidates : JoinsSmithSet(n, tally, j, run[k - 1])}
      BY <1>2, Zenon
    <3> QED BY <2>2, <3>1
  <2>5. ASSUME NEW j \in Candidates, JoinsSmithSet(n, tally, j, run[i]) PROVE j \in S
    <3>1. PICK k \in run[i] : IsGreater(n, tally, j, k)
      BY <2>5 DEF JoinsSmithSet
    <3>2. k \in S /\ k \in Candidates
      BY <2>3
    <3>3. k \in Beaten(j)
      BY <3>1, <3>2, <1>1
    <3>4. tally[j][k] > tally[k][j]
      BY <3>3 DEF Beaten
    <3>5. j \notin S => tally[k][j] > tally[j][k]
      BY <3>2 DEF Dominates
    <3> QED BY <3>2, <3>4, <3>5, <1>0
  <2> QED BY <2>4, <2>5
<1> HIDE DEF N
<1>6. Nat \subseteq N
  BY <1>4, <1>5, NatSetInduction
<1>7. r \in N
  BY <1>6, CandidatesAre
<1> QED BY <1>7 DEF N, run

\* There is a Smith set: of the dominating sets, which are nested, one with fewest members.
Dominating == {S \in SUBSET Candidates : S # {} /\ Dominates(S)}

\* The Smith set is one of them.
LEMMA SmithSetExists ==
  ASSUME NEW K \in Nat, tally \in Matrix(Candidates, 0..K)
  PROVE  SmithSet \in Dominating
<1>0. \A i, j \in Candidates : tally[i][j] \in Int
  <2>1. \A i, j \in Candidates : tally[i][j] \in 0..K
    BY TableEntries
  <2> QED BY <2>1
<1>1. ASSUME NEW S \in Dominating, NEW T \in Dominating PROVE S \subseteq T \/ T \subseteq S
  <2>1. SUFFICES ASSUME NEW s \in S, s \notin T, NEW t \in T, t \notin S PROVE FALSE
    OBVIOUS
  <2>2. s \in Candidates /\ t \in Candidates
    BY DEF Dominating
  <2>3. tally[s][t] > tally[t][s] /\ tally[t][s] > tally[s][t]
    BY <2>1, <2>2 DEF Dominating, Dominates
  <2> QED BY <2>2, <2>3, <1>0
<1>2. Candidates \in Dominating
  BY CandidatesAre DEF Dominating, Dominates
<1>3. \A S \in Dominating : IsFiniteSet(S) /\ S # {} /\ Cardinality(S) \in Nat \ {0}
  <2>1. ASSUME NEW S \in Dominating PROVE IsFiniteSet(S) /\ S # {} /\ Cardinality(S) \in Nat \ {0}
    <3>1. S \in SUBSET Candidates /\ S # {}
      BY DEF Dominating
    <3>2. IsFiniteSet(S)
      BY <3>1, CandidatesFinite, FS_Subset
    <3>3. Cardinality(S) \in Nat /\ Cardinality(S) # 0
      BY <3>1, <3>2, FS_CardinalityType, FS_EmptySet
    <3> QED BY <3>1, <3>2, <3>3
  <2> QED BY <2>1
<1> DEFINE sizes == {Cardinality(S) : S \in Dominating}
<1>4. PICK k \in sizes : \A j \in sizes : k <= j
  <2>1. sizes \in SUBSET (Nat \ {0}) /\ Cardinality(Candidates) \in sizes
    BY <1>2, <1>3
  <2> HIDE DEF sizes
  <2> QED BY <2>1, LeastExists
<1>5. PICK S \in Dominating : Cardinality(S) = k
  OBVIOUS
<1>6. ASSUME NEW T \in Dominating PROVE S \subseteq T
  <2>1. CASE S \subseteq T
    BY <2>1
  <2>2. CASE T \subseteq S
    <3>1. Cardinality(S) <= Cardinality(T)
      BY <1>4, <1>5
    <3>2. IsFiniteSet(S) /\ T \in SUBSET S /\ Cardinality(S) \in Nat /\ Cardinality(T) \in Nat
      BY <1>3, <2>2
    <3>3. Cardinality(T) <= Cardinality(S) /\ (Cardinality(S) = Cardinality(T) => S = T)
      BY <3>2, FS_Subset
    <3>4. S = T
      BY <3>1, <3>2, <3>3
    <3> QED BY <3>4
  <2> QED BY <1>1, <2>1, <2>2
<1> DEFINE least(A) == /\ A \in SUBSET Candidates /\ A # {} /\ Dominates(A)
                       /\ \A T \in SUBSET Candidates : T # {} /\ Dominates(T) => A \subseteq T
<1>7. least(S)
  <2>1. S \in SUBSET Candidates /\ S # {} /\ Dominates(S)
    BY DEF Dominating
  <2>2. ASSUME NEW T \in SUBSET Candidates, T # {}, Dominates(T) PROVE S \subseteq T
    <3>1. T \in Dominating
      BY <2>2 DEF Dominating
    <3> QED BY <3>1, <1>6
  <2> QED BY <2>1, <2>2
<1>8. SmithSet = CHOOSE A \in SUBSET Candidates :
        A # {} /\ Dominates(A) /\ \A T \in SUBSET Candidates : T # {} /\ Dominates(T) => A \subseteq T
  BY DEF SmithSet
<1>9. least(SmithSet)
  BY <1>7, <1>8, Zenon
<1> QED BY <1>9 DEF Dominating

\* The Smith set can be proved if no entry is full and the candidates can be told apart.
LEMMA SmithSatisfiable ==
  ASSUME NEW n \in Nat, NEW K \in Nat, K + Power2[n] < P, nVotes + Power2[n] < P,
         tally \in Matrix(Candidates, 0..K), nVotes <= Power2[n],
         \A c, d \in Candidates : tally[c][d] < Power2[n]
  PROVE  SmithSatisfied(n, tally)
<1> DEFINE h == Power2[n]
           won == WonMatches(n, tally)
<1>0. P \in Nat /\ h \in Nat /\ K + h < P /\ nVotes \in Nat
  BY PrimeAssumption, Power2Type, ConstantsType
<1>1. ASSUME NEW i \in Candidates, NEW j \in Candidates PROVE Comparable(n, tally[j][i], tally[i][j])
  <2>1. tally[i][j] \in 0..K /\ tally[j][i] \in 0..K /\ tally[i][j] < h /\ tally[j][i] < h
    BY TableEntries
  <2>2. /\ tally[j][i] \in Int /\ tally[i][j] \in Int /\ 0 <= tally[j][i] + h - tally[i][j]
        /\ tally[j][i] + h - tally[i][j] < P /\ tally[j][i] < tally[i][j] + h
    <3> HIDE DEF h
    <3> QED BY <1>0, <2>1
  <2> QED BY <2>2, ComparisonRight
<1>2. MaxSatisfied(n, won)
  <2>1. won \in [Candidates -> 0..nVotes] /\ \A i \in Candidates : won[i] < nVotes
    BY WonMatchesType
  <2> HIDE DEF won
  <2>2. \A i \in Candidates : 0 <= won[i] /\ won[i] < Power2[n]
    <3>1. \A i \in Candidates : won[i] \in 0..nVotes
      BY <2>1
    <3> QED BY <2>1, <3>1, <1>0
  <2>3. 0 \in Int /\ 0 <= 0 /\ nVotes - 0 + Power2[n] < P
    <3> HIDE DEF won
    <3> QED BY <1>0
  <2> QED BY <1>0, <2>1, <2>2, <2>3, UnsatisfiedIsFull
<1> QED BY <1>1, <1>2 DEF SmithSatisfied
-----------------------------------------------------------------------------
(***************************************************************************)
(* The median of the grades.                                               *)
(***************************************************************************)
\* The field is odd.
LEMMA FieldIsOdd == \E q \in Nat : P = 2 * q + 1 /\ (P + 1) \div 2 = q + 1
<1>1. P \in Nat /\ P > 2 /\ P % 2 # 0
  BY PrimeAssumption
<1>2. PICK q \in Nat : P = 2 * q + 1
  <2>1. P % 2 = 1 /\ P \div 2 \in Nat /\ P = 2 * (P \div 2) + 1
    BY <1>1
  <2> QED BY <2>1
<1>3. (P + 1) \div 2 = q + 1
  BY <1>2
<1> QED BY <1>2, <1>3

\* Half of an even number is that in the field, and half of an odd one more than half of the field.
LEMMA HalfRight ==
  ASSUME NEW w \in Nat, NEW q \in Nat, P = 2 * q + 1, (P + 1) \div 2 = q + 1, w < q
  PROVE  FieldHalf(2 * w) = w /\ FieldHalf(2 * w + 1) = w + q + 1
<1>1. P \in Nat /\ P > 2
  BY PrimeAssumption
<1>2. (2 * w) * (q + 1) = P * w + w /\ (2 * w + 1) * (q + 1) = P * w + (w + q + 1)
  <2>1. /\ (2 * w) * (q + 1) = w * (2 * q + 1) + w
        /\ (2 * w + 1) * (q + 1) = w * (2 * q + 1) + (w + q + 1)
        /\ w * (2 * q + 1) = (2 * q + 1) * w
    OBVIOUS
  <2> QED BY <2>1
<1>3. w \in 0..(P - 1) /\ w + q + 1 \in 0..(P - 1) /\ w \in Int
  OBVIOUS
<1>4. (P * w + w) % P = w /\ (P * w + (w + q + 1)) % P = w + q + 1
  BY <1>1, <1>3, ModUnique
<1> QED BY <1>2, <1>4 DEF FieldHalf

\* The votes for grade i and those above it.
From(c, i) == Sum(tally[c], i..(nGrades - 1))
Halves(c)  == {g \in Grades : 2 * From(c, g) >= voters}

\* A table of grades in which every voter counts once.
GradedByAll(K) ==
  /\ tally \in Matrix(Grades, 0..K)
  /\ \A c \in Candidates : Sum(tally[c], Grades) = voters

\* Fewer votes are counted from a higher grade, and all from the lowest.
LEMMA FromType ==
  ASSUME NEW K \in Nat, GradedByAll(K), voters \in Nat, NEW c \in Candidates
  PROVE  /\ \A i \in Grades : From(c, i) \in 0..voters
         /\ From(c, 0) = voters /\ 0 \in Grades
         /\ \A i, j \in Grades : i <= j => From(c, j) <= From(c, i)
<1>1. nGrades \in Nat /\ 0 < nGrades /\ IsFiniteSet(Grades) /\ Grades = 0..(nGrades - 1)
  BY ConstantsType, CandidatesFinite DEF Grades
<1>2. \A g \in Grades : tally[c][g] \in Nat
  <2>1. \A g \in Grades : tally[c][g] \in 0..K
    BY TableEntries DEF GradedByAll
  <2> QED BY <2>1
<1> DEFINE f == tally[c]
<1>3. Sum(f, Grades) = voters /\ \A g \in Grades : f[g] \in Nat
  BY <1>2 DEF GradedByAll
<1> HIDE DEF f
<1>4. ASSUME NEW i \in Grades PROVE i..(nGrades - 1) \in SUBSET Grades /\ IsFiniteSet(i..(nGrades - 1))
  <2>1. i..(nGrades - 1) \in SUBSET Grades
    BY <1>1
  <2> QED BY <2>1, <1>1, FS_Subset
<1>5. ASSUME NEW i \in Grades PROVE Sum(f, i..(nGrades - 1)) \in 0..voters
  <2> DEFINE T == i..(nGrades - 1)
  <2>1. T \in SUBSET Grades /\ IsFiniteSet(T)
    BY <1>4
  <2> HIDE DEF T
  <2>2. Sum(f, T) <= Sum(f, Grades)
    BY <1>1, <1>3, <2>1, SumSubset
  <2>3. Sum(f, T) \in Nat
    <3>1. \A g \in T : f[g] \in Nat
      BY <1>3, <2>1
    <3> QED BY <2>1, <3>1, SumType
  <2>4. Sum(f, T) \in 0..voters
    BY <1>3, <2>2, <2>3
  <2> QED BY <2>4 DEF T
<1>6. ASSUME NEW i \in Grades, NEW j \in Grades, i <= j
      PROVE  Sum(f, j..(nGrades - 1)) <= Sum(f, i..(nGrades - 1))
  <2> DEFINE S == i..(nGrades - 1)
             T == j..(nGrades - 1)
  <2>1. S \in SUBSET Grades /\ IsFiniteSet(S) /\ T \in SUBSET S
    BY <1>1, <1>4, <1>6
  <2> HIDE DEF S, T
  <2>2. \A g \in S : f[g] \in Nat
    BY <1>3, <2>1
  <2>3. Sum(f, T) <= Sum(f, S)
    BY <2>1, <2>2, SumSubset
  <2> QED BY <2>3 DEF S, T
<1>7. Sum(f, 0..(nGrades - 1)) = voters /\ 0 \in Grades
  BY <1>1, <1>3
<1> QED BY <1>5, <1>6, <1>7 DEF From, f

\* No sum of votes leaves the field.
LEMMA SumFromRight ==
  ASSUME NEW K \in Nat, GradedByAll(K), voters \in Nat, voters < P, NEW c \in Candidates
  PROVE  /\ DOMAIN tally[c] = Grades /\ SumOver(Grades, tally[c]) = voters
         /\ \A i \in Grades : SumFrom(tally[c], i) = From(c, i)
<1> DEFINE f == tally[c]
<1>0. P \in Nat /\ nGrades \in Nat /\ Grades = 0..(nGrades - 1)
  BY PrimeAssumption, ConstantsType DEF Grades
<1>1. \A i \in Grades : From(c, i) \in 0..voters
  BY FromType
<1>2. f \in [Grades -> 0..K] /\ DOMAIN f = Grades
  BY TableEntries DEF GradedByAll
<1>3. SumOver(Grades, f) = voters
  BY SumOverIsSum DEF GradedByAll
<1>4. ASSUME NEW i \in Grades PROVE SumFrom(f, i) = From(c, i)
  <2>1. {j \in DOMAIN f : j >= i} = i..(nGrades - 1)
    BY <1>0, <1>2
  <2>2. SumOver({j \in DOMAIN f : j >= i}, f) = From(c, i)
    BY <2>1, SumOverIsSum, Zenon DEF From
  <2>3. From(c, i) \in Int /\ 0 <= From(c, i) /\ From(c, i) < P
    BY <1>0, <1>1
  <2>4. From(c, i) % P = From(c, i)
    BY <2>3, <1>0, ModSmall
  <2> QED BY <2>2, <2>4, Zenon DEF SumFrom
<1> QED BY <1>2, <1>3, <1>4

\* Half of the voters, and the greater half of an odd number.
IsHalf(w) == w \in Nat /\ 2 * w \in {voters, voters + 1}

\* With satisfying hints the half is that of the voters.  The half of an odd number in the field
\* passes as a bit, and is too great to be compared with the number.
LEMMA SumHalveRight ==
  ASSUME NEW n \in Nat, NEW K \in Nat, GradedByAll(K), voters \in Nat,
         voters <= Power2[n], voters + 2 * Power2[n] < P, NEW c \in Candidates
  PROVE  IsHalf(SumHalve(n, tally[c], FALSE))
<1> DEFINE f == tally[c]
           h == Power2[n]
<1>0. P \in Nat /\ h \in Nat /\ h > 0 /\ voters <= h /\ voters + 2 * h < P
  BY PrimeAssumption, Power2Type
<1>1. /\ \A i \in Grades : From(c, i) \in 0..voters
      /\ From(c, 0) = voters /\ 0 \in Grades
  BY FromType
<1>2. DOMAIN f = Grades /\ SumOver(Grades, f) = voters /\ \A i \in Grades : SumFrom(f, i) = From(c, i)
  <2>1. voters < P
    <3> HIDE DEF h
    <3> QED BY <1>0
  <2> QED BY <2>1, SumFromRight
<1> HIDE DEF f
<1>3. SumHalve(n, f, FALSE) =
        IF IndexMedianSatisfied(n, f, FieldHalf(voters)) THEN FieldHalf(voters)
        ELSE FieldHalf(voters + 1)
  BY <1>2, Zenon DEF SumHalve
<1>4. \A half : IndexMedianSatisfied(n, f, half) <=>
        /\ AssertBit(half * 2 - voters)
        /\ \A i \in Grades : Comparable(n, From(c, i), half)
  BY <1>2 DEF IndexMedianSatisfied
<1>5. PICK q \in Nat : P = 2 * q + 1 /\ (P + 1) \div 2 = q + 1
  BY FieldIsOdd
<1>6. PICK w \in Nat : voters = 2 * w \/ voters = 2 * w + 1
  <2>1. voters \div 2 \in Nat /\ (voters = 2 * (voters \div 2) \/ voters = 2 * (voters \div 2) + 1)
    OBVIOUS
  <2> QED BY <2>1
<1>7. w < q /\ w < h /\ (voters = 2 * w + 1 => w + 1 < q /\ w + h < q)
  <2> HIDE DEF h
  <2> QED BY <1>0, <1>5, <1>6
<1>8. CASE voters = 2 * w
  <2>1. FieldHalf(voters) = w
    BY <1>5, <1>7, <1>8, HalfRight
  <2>2. AssertBit(w * 2 - voters)
    <3>1. w * 2 - voters = 0 /\ (0 * (1 - 0)) % P = 0
      BY <1>0, <1>8
    <3> QED BY <3>1 DEF AssertBit
  <2>3. ASSUME NEW i \in Grades PROVE Comparable(n, From(c, i), w)
    <3> DEFINE x == From(c, i)
    <3>1. x \in 0..voters
      BY <1>1
    <3> HIDE DEF x
    <3>2. x \in Int /\ w \in Int /\ 0 <= x + h - w /\ x + h - w < P /\ x < w + h
      <4> HIDE DEF h
      <4> QED BY <3>1, <1>0, <1>7, <1>8
    <3>3. Comparable(n, x, w)
      BY <3>2, ComparisonRight
    <3> QED BY <3>3 DEF x
  <2>4. IndexMedianSatisfied(n, f, w)
    BY <2>2, <2>3, <1>4
  <2>5. SumHalve(n, f, FALSE) = w
    BY <1>3, <2>1, <2>4
  <2> QED BY <2>5, <1>8 DEF IsHalf, f
<1>9. CASE voters = 2 * w + 1
  <2>1. FieldHalf(voters) = w + q + 1
    BY <1>5, <1>7, <1>9, HalfRight
  <2>2. voters + 1 = 2 * (w + 1) /\ FieldHalf(2 * (w + 1)) = w + 1
    <3>1. voters + 1 = 2 * (w + 1) /\ w + 1 \in Nat
      BY <1>9
    <3>2. FieldHalf(2 * (w + 1)) = w + 1
      BY <3>1, <1>5, <1>7, HalfRight
    <3> QED BY <3>1, <3>2
  <2>3. ~Comparable(n, voters, w + q + 1)
    <3>1. /\ voters \in Int /\ w + q + 1 \in Int /\ voters + h - (w + q + 1) < 0
          /\ (w + q + 1) - voters + h <= P
      <4> HIDE DEF h
      <4> QED BY <1>0, <1>5, <1>7, <1>9
    <3> QED BY <3>1, BelowIncomparable
  <2>4. ~IndexMedianSatisfied(n, f, w + q + 1)
    BY <2>3, <1>1, <1>4
  <2>5. SumHalve(n, f, FALSE) = w + 1
    BY <1>3, <2>1, <2>2, <2>4
  <2>6. IsHalf(w + 1)
    BY <2>2 DEF IsHalf
  <2> QED BY <2>5, <2>6 DEF f
<1> QED BY <1>6, <1>8, <1>9

\* getIndexMedian counts down to the highest grade that half of the voters gave or exceeded.
LEMMA MedianRight ==
  ASSUME NEW n \in Nat, NEW K \in Nat, GradedByAll(K), voters \in Nat, NEW w, IsHalf(w),
         voters <= Power2[n], voters + Power2[n] < P, NEW c \in Candidates
  PROVE  /\ HighestMedian(c) \in Grades
         /\ IndexMedian(n, tally[c], w) = nGrades - HighestMedian(c)
<1> DEFINE f == tally[c]
           h == Power2[n]
           top == HighestMedian(c)
           U == {i \in Grades : LessThan(n, SumFrom(f, i), w)}
<1>0. P \in Nat /\ h \in Nat /\ h > 0 /\ voters + h < P /\ nGrades \in Nat /\ 0 < nGrades
      /\ Grades = 0..(nGrades - 1) /\ IsFiniteSet(Grades) /\ Cardinality(Grades) = nGrades
  BY PrimeAssumption, Power2Type, ConstantsType, CandidatesFinite DEF Grades
<1>1. /\ \A i \in Grades : From(c, i) \in 0..voters
      /\ From(c, 0) = voters /\ 0 \in Grades
      /\ \A i, j \in Grades : i <= j => From(c, j) <= From(c, i)
  BY FromType
<1>2. DOMAIN f = Grades /\ \A i \in Grades : SumFrom(f, i) = From(c, i)
  <2>1. voters < P
    <3> HIDE DEF h
    <3> QED BY <1>0
  <2> QED BY <2>1, SumFromRight
<1>3. w \in Nat /\ (2 * w = voters \/ 2 * w = voters + 1)
  BY DEF IsHalf
<1>6. ASSUME NEW i \in Grades PROVE LessThan(n, SumFrom(f, i), w) <=> i \notin Halves(c)
  <2> DEFINE x == From(c, i)
  <2>0. x \in 0..voters /\ voters <= h
    BY <1>1
  <2>1. x \in Int /\ w \in Int /\ 0 <= x + h - w /\ x + h - w < P
    <3> HIDE DEF h, x
    <3> QED BY <1>0, <1>3, <2>0
  <2>2. LessThan(n, x, w) <=> x < w
    <3> HIDE DEF x
    <3> QED BY <2>1, ComparisonRight
  <2>3. i \in Halves(c) <=> 2 * x >= voters
    BY DEF Halves
  <2>4. SumFrom(f, i) = x
    BY <1>2
  <2> HIDE DEF x, f
  <2> QED BY <2>0, <2>2, <2>3, <2>4, <1>3
<1> HIDE DEF f
<1>7. 0 \in Halves(c) /\ Halves(c) \in SUBSET Grades
      /\ \A i, j \in Grades : i <= j /\ j \in Halves(c) => i \in Halves(c)
  <2>1. 0 \in Halves(c)
    BY <1>1 DEF Halves
  <2>2. ASSUME NEW i \in Grades, NEW j \in Grades, i <= j, j \in Halves(c) PROVE i \in Halves(c)
    <3>1. From(c, j) <= From(c, i) /\ From(c, j) \in 0..voters /\ From(c, i) \in 0..voters
      BY <1>1, <2>2
    <3>2. 2 * From(c, j) >= voters
      BY <2>2 DEF Halves
    <3>3. 2 * From(c, i) >= voters
      BY <3>1, <3>2
    <3> QED BY <3>3 DEF Halves
  <2> QED BY <2>1, <2>2 DEF Halves
<1>8. top = Max(Halves(c))
  <2>1. \A g \in Grades : SumOver(g..(nGrades - 1), tally[c]) = From(c, g)
    BY SumOverIsSum DEF From
  <2>2. {g \in Grades : 2 * SumOver(g..(nGrades - 1), tally[c]) >= voters} = Halves(c)
    BY <2>1 DEF Halves
  <2> QED BY <2>2, Zenon DEF HighestMedian
<1>9. top \in Halves(c) /\ \A y \in Halves(c) : y <= top
  <2>1. Halves(c) \in SUBSET Int /\ Halves(c) # {} /\ IsFiniteSet(Halves(c))
    BY <1>0, <1>7, FS_Subset
  <2> HIDE DEF top
  <2> QED BY <1>8, <2>1, MinMaxExist
<1> HIDE DEF top
<1>10. top \in Grades /\ U = (top + 1)..(nGrades - 1)
  <2>1. top \in Grades
    BY <1>7, <1>9
  <2>2. ASSUME NEW i \in Grades PROVE i \in Halves(c) <=> i <= top
    BY <1>0, <1>7, <1>9, <2>1
  <2>3. U = {i \in Grades : ~(i <= top)}
    BY <1>6, <2>2
  <2> HIDE DEF U
  <2> QED BY <1>0, <2>1, <2>3
<1>11. Cardinality(U) = nGrades - 1 - top
  <2>1. top + 1 \in Int /\ nGrades - 1 \in Int /\ top \in Int /\ top + 1 <= nGrades
    BY <1>0, <1>10
  <2>2. Cardinality((top + 1)..(nGrades - 1))
          = IF top + 1 > nGrades - 1 THEN 0 ELSE (nGrades - 1) - (top + 1) + 1
    BY <2>1, FS_Interval
  <2>3. Cardinality((top + 1)..(nGrades - 1)) = nGrades - 1 - top
    <3> DEFINE size == Cardinality((top + 1)..(nGrades - 1))
    <3>1. size = IF top + 1 > nGrades - 1 THEN 0 ELSE (nGrades - 1) - (top + 1) + 1
      BY <2>2
    <3> HIDE DEF size, U, h
    <3>2. size = nGrades - 1 - top
      BY <1>0, <2>1, <3>1
    <3> QED BY <3>2 DEF size
  <2> QED BY <1>10, <2>3, Zenon
<1>12. MedianIdx(n, f, w) = top
  <2>1. Size(f) = nGrades
    BY <1>0, <1>2, Zenon DEF Size
  <2>2. MedianIdx(n, f, w) = nGrades - 1 - Cardinality(U)
    BY <1>2, <2>1, Zenon DEF MedianIdx
  <2>3. top \in Int
    BY <1>0, <1>10
  <2> HIDE DEF U
  <2> QED BY <1>0, <1>11, <2>2, <2>3
<1>13. IndexMedian(n, f, w) = nGrades - top
  <2>1. Size(f) = nGrades
    BY <1>0, <1>2, Zenon DEF Size
  <2> QED BY <1>12, <2>1, Zenon DEF IndexMedian
<1> QED BY <1>10, <1>13 DEF f, top

\* What the recursion of computeMajorityJudgement says.
RunsRounds(n, m, hint, f) ==
  f = [r \in Candidates |-> Round(n, IF r = 0 THEN m ELSE f[r - 1].next, hint)]

\* The medians of a round.
MediansOf(n, m, hint) == [c \in Candidates |-> IndexMedian(n, m[c], SumHalve(n, m[c], hint))]

\* A round leaves a table of numbers.
LEMMA RoundNextType ==
  ASSUME NEW n, NEW hint, NEW m \in Matrix(Grades, Int)
  PROVE  Round(n, m, hint).next \in Matrix(Grades, Int)
<1> DEFINE median == MediansOf(n, m, hint)
           best == MinValue(n, median)
           winners == IdxEqual(median, best)
           occurences == [c \in Candidates |-> IF c \notin winners THEN P - 1
                                               ELSE IF best \in Grades THEN m[c][best] ELSE 0]
           least == MinValue(n, occurences)
<1>1. Round(n, m, hint).next =
        [c \in Candidates |-> [g \in Grades |->
           IF c \notin winners THEN 0
           ELSE IF g = best THEN (m[c][g] - least) % P ELSE m[c][g]]]
  BY Zenon DEF Round, MediansOf
<1> HIDE DEF winners, best
<1>2. P \in Nat /\ P > 0
  BY PrimeAssumption
<1>3. \A c \in Candidates, g \in Grades : m[c][g] \in Int
  BY TableEntries
<1>4. occurences \in [Candidates -> Int] /\ DOMAIN occurences = Candidates
  BY <1>2, <1>3
<1> HIDE DEF occurences
<1>5. least \in Int
  <2>1. Size(occurences) - 1 \in Candidates
    <3>1. Size(occurences) = nVotes
      BY <1>4, CandidatesFinite, Zenon DEF Size
    <3> QED BY <3>1, CandidatesAre
  <2>2. \A i \in Candidates : RunningMin(n, occurences)[i] \in Int
    BY <1>4, RunningType
  <2> QED BY <2>1, <2>2 DEF MinValue
<1> HIDE DEF least
<1>6. \A c \in Candidates, g \in Grades : (m[c][g] - least) % P \in Int
  <2>1. \A x \in Int : x % P \in Int
    BY <1>2
  <2>2. \A c \in Candidates, g \in Grades : m[c][g] - least \in Int
    BY <1>3, <1>5
  <2> QED BY <2>1, <2>2
<1>7. \A c \in Candidates, g \in Grades :
        (IF c \notin winners THEN 0
         ELSE IF g = best THEN (m[c][g] - least) % P ELSE m[c][g]) \in Int
  BY <1>3, <1>6
<1> QED BY <1>1, <1>7 DEF Matrix

\* The recursion has a solution.
LEMMA RoundsEquation ==
  ASSUME NEW n, NEW hint, NEW m \in Matrix(Grades, Int)
  PROVE  RunsRounds(n, m, hint, MajorityJudgementRounds(n, m, hint))
<1> DEFINE k == nVotes - 1
           W == Matrix(Grades, Int)
           V == {Round(n, t, hint) : t \in W}
           first == Round(n, m, hint)
           step == [i \in 1..k |-> [R \in V |-> Round(n, R.next, hint)]]
<1>1. k \in Nat /\ Candidates = 0..k
  BY CandidatesAre
<1>2. first \in V
  OBVIOUS
<1>3. step \in [1..k -> [V -> V]]
  <2>1. ASSUME NEW R \in V PROVE Round(n, R.next, hint) \in V
    <3>1. PICK t \in W : R = Round(n, t, hint)
      OBVIOUS
    <3>2. Round(n, t, hint).next \in W
      BY RoundNextType
    <3>3. R.next \in W
      BY <3>1, <3>2, Zenon
    <3> QED BY <3>3
  <2> HIDE DEF k, V
  <2> QED BY <2>1
<1>4. PICK f \in [0..k -> V] : Stepwise(k, first, step, f)
  <2> HIDE DEF k, V, step, first
  <2> QED BY <1>1, <1>2, <1>3, RecursionExists
<1>5. f = [i \in 0..k |-> IF i = 0 THEN first ELSE step[i][f[i - 1]]]
  BY <1>4 DEF Stepwise
<1>6. ASSUME NEW i \in 0..k, i # 0 PROVE step[i][f[i - 1]] = Round(n, f[i - 1].next, hint)
  <2> HIDE DEF k
  <2>1. i \in 1..k /\ i - 1 \in 0..k
    BY <1>1, <1>6
  <2>2. f[i - 1] \in V
    BY <2>1, <1>4
  <2> HIDE DEF V
  <2> QED BY <2>1, <2>2
<1>7. RunsRounds(n, m, hint, f)
  <2> HIDE DEF k, V, step
  <2>1. ASSUME NEW i \in 0..k
        PROVE  (IF i = 0 THEN first ELSE step[i][f[i - 1]])
                 = Round(n, IF i = 0 THEN m ELSE f[i - 1].next, hint)
    <3>1. CASE i = 0
      BY <3>1
    <3>2. CASE i # 0
      BY <3>2, <1>6
    <3> QED BY <3>1, <3>2
  <2> HIDE DEF first
  <2>2. [i \in 0..k |-> IF i = 0 THEN first ELSE step[i][f[i - 1]]]
          = [i \in 0..k |-> Round(n, IF i = 0 THEN m ELSE f[i - 1].next, hint)]
    BY <2>1
  <2> QED BY <1>1, <1>5, <2>2, Zenon DEF RunsRounds
<1>8. RunsRounds(n, m, hint, CHOOSE g : RunsRounds(n, m, hint, g))
  <2> HIDE DEF k, V, step, first, W
  <2> QED BY <1>7, Zenon
<1>9. MajorityJudgementRounds(n, m, hint) = CHOOSE g : RunsRounds(n, m, hint, g)
  BY Zenon DEF MajorityJudgementRounds, RunsRounds
<1> QED BY <1>8, <1>9, Zenon

\* The first of the rounds is that of the tally.
LEMMA FirstRoundIsOfTally ==
  ASSUME NEW n, NEW hint, tally \in Matrix(Grades, Int)
  PROVE  MajorityJudgementRounds(n, tally, hint)[0] = Round(n, tally, hint)
<1> DEFINE run == MajorityJudgementRounds(n, tally, hint)
<1>1. RunsRounds(n, tally, hint, run)
  BY RoundsEquation
<1> HIDE DEF run
<1>2. run = [r \in Candidates |-> Round(n, IF r = 0 THEN tally ELSE run[r - 1].next, hint)]
  BY <1>1, Zenon DEF RunsRounds
<1>3. 0 \in Candidates
  BY CandidatesAre
<1>4. run[0] = Round(n, IF 0 = 0 THEN tally ELSE run[0 - 1].next, hint)
  BY <1>2, <1>3, Zenon
<1> QED BY <1>4 DEF run

\* Calculated hints that satisfy the constraints of a round are the hints that do.
LEMMA CalculatedRound ==
  ASSUME NEW n, NEW m, Round(n, m, TRUE).satisfied
  PROVE  Round(n, m, TRUE).winners = Round(n, m, FALSE).winners
<1>1. \A c \in Candidates : IndexMedianSatisfied(n, m[c], SumHalve(n, m[c], TRUE))
  BY Zenon DEF Round
<1>2. ASSUME NEW c \in Candidates PROVE SumHalve(n, m[c], TRUE) = SumHalve(n, m[c], FALSE)
  <2>1. SumHalve(n, m[c], TRUE) = FieldHalf(SumOver(DOMAIN m[c], m[c]))
    BY Zenon DEF SumHalve
  <2>2. IndexMedianSatisfied(n, m[c], FieldHalf(SumOver(DOMAIN m[c], m[c])))
    BY <1>1, <2>1
  <2>3. SumHalve(n, m[c], FALSE) = FieldHalf(SumOver(DOMAIN m[c], m[c]))
    BY <2>2, Zenon DEF SumHalve
  <2> QED BY <2>1, <2>3
<1>3. MediansOf(n, m, TRUE) = MediansOf(n, m, FALSE)
  BY <1>2 DEF MediansOf
<1>4. ASSUME NEW hint
      PROVE  Round(n, m, hint).winners
               = IdxEqual(MediansOf(n, m, hint), MinValue(n, MediansOf(n, m, hint)))
  BY Zenon DEF Round, MediansOf
<1> QED BY <1>3, <1>4

\* The first round keeps the candidates with the highest median.
LEMMA FirstRoundRight ==
  ASSUME NEW n \in Nat, NEW K \in Nat, GradedByAll(K), voters \in Nat,
         voters <= Power2[n], voters + 2 * Power2[n] < P, nGrades <= Power2[n], nGrades + Power2[n] < P
  PROVE  MajorityJudgementRounds(n, tally, FALSE)[0].winners
           = {c \in Candidates : \A d \in Candidates : HighestMedian(c) >= HighestMedian(d)}
<1> DEFINE median == MediansOf(n, tally, FALSE)
           h == Power2[n]
           run == MajorityJudgementRounds(n, tally, FALSE)
<1>0. P \in Nat /\ h \in Nat /\ nGrades \in Nat /\ 0 < nGrades /\ Grades = 0..(nGrades - 1)
      /\ nGrades <= h
  BY PrimeAssumption, Power2Type, ConstantsType DEF Grades
<1>1. \A c \in Candidates : /\ HighestMedian(c) \in Grades
                            /\ median[c] = nGrades - HighestMedian(c)
  <2>1. voters + h < P
    <3>1. h \in Nat /\ P \in Nat /\ voters + 2 * h < P
      BY <1>0
    <3> HIDE DEF h
    <3> QED BY <3>1
  <2>2. ASSUME NEW c \in Candidates
        PROVE  /\ HighestMedian(c) \in Grades
               /\ IndexMedian(n, tally[c], SumHalve(n, tally[c], FALSE)) = nGrades - HighestMedian(c)
    BY <2>1, SumHalveRight, MedianRight
  <2> QED BY <2>2 DEF MediansOf
<1>2. median = [c \in Candidates |-> median[c]]
  BY DEF MediansOf
<1> HIDE DEF median
<1>3. \A c \in Candidates : median[c] \in 1..nGrades
  BY <1>0, <1>1
<1>4. median \in [Candidates -> 0..nGrades] /\ median \in [Candidates -> 1..nGrades]
  <2>1. \A c \in Candidates : median[c] \in 0..nGrades
    BY <1>0, <1>3
  <2> QED BY <1>2, <1>3, <2>1
<1>5. MinInRange(n, median)
  <2>1. \A i \in Candidates : RunningMin(n, median)[i] \in 1..nGrades
    BY <1>4, RunningType
  <2>2. ASSUME NEW i \in Candidates \ {0} PROVE 0 <= median[i] + h - RunningMin(n, median)[i - 1]
    <3>1. RunningMin(n, median)[i - 1] \in 1..nGrades /\ median[i] \in 1..nGrades
      BY <2>1, <1>3, CandidatesAre
    <3> HIDE DEF h
    <3> QED BY <3>1, <1>0
  <2> QED BY <2>2 DEF MinInRange
<1>6. MinimumIndicator(n, median) = {c \in Candidates : \A d \in Candidates : median[c] <= median[d]}
  <2>1. Fits(n, 0, nGrades)
    BY <1>0 DEF Fits
  <2> QED BY <1>4, <1>5, <2>1, IndicatorsFit
<1>7. MinimumIndicator(n, median)
        = {c \in Candidates : \A d \in Candidates : HighestMedian(c) >= HighestMedian(d)}
  <2>1. ASSUME NEW c \in Candidates, NEW d \in Candidates
        PROVE  median[c] <= median[d] <=> HighestMedian(c) >= HighestMedian(d)
    <3>1. /\ HighestMedian(c) \in Int /\ HighestMedian(d) \in Int
          /\ median[c] = nGrades - HighestMedian(c) /\ median[d] = nGrades - HighestMedian(d)
      BY <1>0, <1>1
    <3> QED BY <3>1, <1>0
  <2> QED BY <1>6, <2>1
<1>8. tally \in Matrix(Grades, Int)
  BY DEF GradedByAll, Matrix
<1>9. run[0] = Round(n, tally, FALSE)
  BY <1>8, FirstRoundIsOfTally
<1>10. Round(n, tally, FALSE).winners = MinimumIndicator(n, median)
  BY Zenon DEF Round, MinimumIndicator, median, MediansOf
<1> QED BY <1>7, <1>9, <1>10
-----------------------------------------------------------------------------
(***************************************************************************)
(* The bits of the comparisons, and the kinds of elections.                *)
(***************************************************************************)
AllKinds == {"single", "multi", "pointlist", "tournament", "condorcet", "majority"}

\* The highest value of each kind.
LEMMA HighestOfKind ==
  /\ HighestAssignable["single"] = 1 /\ HighestAssignable["condorcet"] = 1
  /\ HighestAssignable["majority"] = 1 /\ HighestAssignable["multi"] = maxVotesCand
  /\ HighestAssignable["pointlist"] = HighestPoint
  /\ HighestAssignable["tournament"] = HighestTournament
BY DEF HighestAssignable, HighestPoint, HighestTournament

\* The ballots of each kind.
LEMMA BallotsOfKind ==
  /\ Ballots["single"] = {v : v \in {w \in Vectors : AssertSingleVote(w)}}
  /\ Ballots["multi"] = {v : v \in {w \in Vectors : AssertMultiVote(w)}}
  /\ Ballots["pointlist"] = {v : v \in {w \in Vectors : AssertPointlistBorda(w)}}
  /\ Ballots["tournament"] = {BordaTournamentStyleBallot(r) : r \in Rankings}
  /\ Ballots["condorcet"] = {CondorcetBallot(r) : r \in Rankings}
  /\ Ballots["majority"] = {m \in Matrix(Grades, 0..1) : AssertMajorityJudgement(m)}
BY DEF Ballots

\* The highest value is positive, and what all voters can assign far below the modulus.
LEMMA HighestType ==
  ASSUME NEW k \in Kinds
  PROVE  /\ k \in AllKinds
         /\ HighestAssignable[k] \in Nat \ {0}
         /\ MaxVoters * HighestAssignable[k] \in Nat
         /\ 4 * (MaxVoters * HighestAssignable[k]) < P
         /\ MaxVoters <= MaxVoters * HighestAssignable[k]
<1>1. k \in AllKinds /\ 0 < HighestAssignable[k] /\ 4 * (MaxVoters * HighestAssignable[k]) < P
  BY ElectionAssumption DEF AllKinds
<1>2. maxVotesCand \in Nat /\ HighestPoint \in Nat /\ MaxVoters \in Nat
  BY ConstantsType, PointsType
<1>3. HighestTournament \in Nat
  <2> DEFINE r == [c \in Candidates |-> 0]
  <2>1. r \in Rankings
    BY ConstantsType DEF Rankings
  <2> HIDE DEF r
  <2> QED BY <2>1, TournamentWeighs
<1>4. HighestAssignable[k] \in Nat
  BY <1>1, <1>2, <1>3, HighestOfKind DEF AllKinds
<1> DEFINE H == HighestAssignable[k]
<1> HIDE DEF H
<1>5. H \in Nat /\ 0 < H
  BY <1>1, <1>4 DEF H
<1>6. MaxVoters * H \in Nat /\ MaxVoters <= MaxVoters * H
  BY <1>2, <1>5
<1> QED BY <1>1, <1>4, <1>6 DEF H

\* Only the multi vote admits entries below zero.
LEMMA LowestType ==
  ASSUME NEW k
  PROVE  /\ LowestAssignable(k) \in Int /\ LowestAssignable(k) <= 0
         /\ k # "multi" => LowestAssignable(k) = 0
BY LowestOfMulti DEF LowestAssignable

\* The bits that the comments ask for hold every entry that the voters can reach together, and
\* no comparison of such entries leaves the field.
LEMMA BitsRight ==
  ASSUME kind \in Kinds
  PROVE  /\ bits \in Nat /\ Power2[bits] \in Nat
         /\ MaxEntry \in Nat /\ MaxEntry <= Power2[bits]
         /\ MinEntry \in Int /\ MinEntry <= 0 /\ (kind # "multi" => MinEntry = 0)
         /\ MaxEntry - MinEntry + Power2[bits] + 1 < P
         /\ Power2[bits] + Power2[bits] < P
         /\ nVotes + Power2[bits] < P
         /\ MaxVoters <= MaxEntry
         /\ kind = "majority" => MaxVoters + 2 * Power2[bits] < P
<1> DEFINE H == HighestAssignable[kind]
           M == MaxVoters * H
<1>1. M \in Nat /\ 4 * M < P /\ MaxVoters <= M /\ MaxVoters \in Nat /\ 1 < MaxVoters /\ P \in Nat
  BY HighestType, ConstantsType
<1>2. MaxEntry = M /\ bits = NumBits(M - 1)
  BY DEF MaxEntry, bits
<1> HIDE DEF M
<1>3. M - 1 \in Nat
  BY <1>1
<1> DEFINE n == NumBits(M - 1)
           h == Power2[n]
<1>4. n \in Nat /\ h >= (M - 1) + 1 /\ (h <= 2 * (M - 1) \/ h = 1)
  BY <1>3, NumBitsRight
<1>5. h \in Nat
  BY <1>4, Power2Type
<1>6. 4 * nVotes < P /\ nVotes \in Nat
  BY ManyMoreNumbers
<1> HIDE DEF n, h
<1>7. M <= h /\ M + h + 1 < P /\ h + h < P /\ nVotes + h < P
  BY <1>1, <1>4, <1>5, <1>6
<1>8. bits = n /\ Power2[bits] = h
  BY <1>2, Zenon DEF n, h
<1> DEFINE L == LowestAssignable(kind)
           D == MaxVoters * L
<1>9. L \in Int /\ L <= 0 /\ (kind # "multi" => L = 0)
  BY LowestType
<1>10. MinEntry = D
  BY DEF MinEntry
<1>11. D \in Int /\ D <= 0 /\ (kind # "multi" => D = 0) /\ M - D + h + 1 < P
  <2>1. CASE kind # "multi"
    <3>1. L = 0
      BY <1>9, <2>1
    <3> HIDE DEF L
    <3>2. D = 0
      BY <1>1, <3>1
    <3> HIDE DEF D
    <3> QED BY <1>1, <1>5, <1>7, <3>2
  <2>2. CASE kind = "multi"
    <3> DEFINE k == Power2[bitsVotes]
               v == MaxVoters
               E == v * k
               x == maxVotesCand
    <3>1. L = x + 1 - k /\ H = x
      BY <2>2, LowestOfMulti, HighestOfKind
    <3>2. x \in Nat /\ k \in Nat /\ x + 1 <= k /\ v \in Nat /\ 1 < v
      BY ConstantsType
    <3>3. 4 * E < P
      BY <2>2, ElectionAssumption
    <3> HIDE DEF k, v, x, L
    <3>4. PICK y \in Nat : k = x + 1 + y
      <4>1. k - (x + 1) \in Nat /\ k = x + 1 + (k - (x + 1))
        BY <3>2
      <4> QED BY <4>1
    <3>5. v * (x + 1 + y) = v * x + v + v * y /\ v * (0 - y) = 0 - v * y /\ v * y \in Nat /\ v * x \in Nat
      BY <3>2
    <3>6. D = 0 - v * y /\ E = v * x + v + v * y /\ M = v * x
      <4>1. x + 1 - k = 0 - y
        BY <3>2, <3>4
      <4> QED BY <3>1, <3>4, <3>5, <4>1 DEF M, v
    <3> HIDE DEF D, E
    <3> QED BY <1>1, <1>4, <1>5, <2>2, <3>2, <3>3, <3>5, <3>6
  <2> QED BY <2>1, <2>2
<1> HIDE DEF D
<1>12. kind = "majority" => MaxVoters + 2 * h < P
  <2> SUFFICES ASSUME kind = "majority" PROVE MaxVoters + 2 * h < P
    OBVIOUS
  <2>1. 8 * MaxVoters < P /\ H = 1
    BY ElectionAssumption, HighestOfKind
  <2>2. M = MaxVoters
    BY <1>1, <2>1 DEF M
  <2> QED BY <1>1, <1>4, <1>5, <2>1, <2>2
<1> QED BY <1>1, <1>2, <1>4, <1>5, <1>7, <1>8, <1>10, <1>11, <1>12

-----------------------------------------------------------------------------
(***************************************************************************)
(* The invariant.                                                          *)
(***************************************************************************)
IsResult(of, satisfied, winners, rounds) ==
  result = [of |-> of, satisfied |-> satisfied, winners |-> winners, rounds |-> rounds]

\* A result is one that a circuit computes of the tally, which no longer changes.
ListResult ==
  \/ IsResult("most", MaxSatisfied(bits, tally), MaximumIndicator(bits, tally), NoResult.rounds)
  \/ IsResult("least", MinSatisfied(bits, tally), MinimumIndicator(bits, tally), NoResult.rounds)
  \/ IsResult("threshold", ThresholdSatisfied(bits, tally, threshold),
              ThresholdIndicator(bits, tally, threshold), NoResult.rounds)
  \/ IsResult("highest", HighestMSatisfied(bits, tally, mEntries),
              HighestMEntries(bits, tally, mEntries), NoResult.rounds)

MedianResult ==
  \E of \in {"median", "calculated"} :
    LET run == MajorityJudgementRounds(bits, tally, of = "calculated")
    IN IsResult(of, \A r \in Candidates : run[r].satisfied, run[nVotes - 1].winners,
                [r \in Candidates |-> run[r].winners])

ResultInv ==
  \/ result = NoResult
  \/ kind \notin MatrixKinds /\ ListResult
  \/ kind = "condorcet" /\ IsResult("smith", SmithSatisfied(bits, tally), SmithSetOut,
                                    RunningSmithSet(bits, tally))
  \/ kind = "majority" /\ MedianResult

\* No entry is more, or less, than the voters so far can have given.
TallyInv ==
  LET most  == voters * HighestAssignable[kind]
      least == voters * LowestAssignable(kind)
  IN IF kind \in MatrixKinds THEN tally \in Matrix(Columns(kind), 0..most)
                             ELSE tally \in [Candidates -> least..most]

EInv ==
  /\ kind \in Kinds /\ voters \in 0..MaxVoters
  /\ TallyInv
  /\ EveryBallotWeighsTheSame
  /\ ResultInv

\* A list that a ballot is added to entry by entry.
AddsList(t, f, v) == t = [c \in Candidates |-> f[c] + v[c]]

\* Bounds of the list, of the ballot and of what they add up to.
AddsBounds(l, m, e, h, L, M) ==
  l \in Int /\ m \in Int /\ e \in Int /\ h \in Int /\ L = l + e /\ M = m + h

\* Its entries and its sum.
LEMMA ListAdd ==
  ASSUME NEW l, NEW m, NEW e, NEW h, NEW L, NEW M, AddsBounds(l, m, e, h, L, M),
         NEW f \in [Candidates -> l..m], NEW v \in [Candidates -> e..h], NEW t, AddsList(t, f, v)
  PROVE  /\ t \in [Candidates -> L..M]
         /\ Sum(t, Candidates) = Sum(f, Candidates) + Sum(v, Candidates)
         /\ Sum(f, Candidates) \in Int /\ Sum(v, Candidates) \in Int
<1>1. \A c \in Candidates : f[c] \in Int /\ v[c] \in Int /\ t[c] = f[c] + v[c]
  BY DEF AddsList, AddsBounds
<1>2. \A c \in Candidates : f[c] + v[c] \in L..M
  BY DEF AddsBounds
<1>3. t \in [Candidates -> L..M]
  BY <1>2 DEF AddsList
<1>4. Sum(t, Candidates) = Sum(f, Candidates) + Sum(v, Candidates)
  BY <1>1, CandidatesFinite, IntegerSumOfSums
<1>5. Sum(f, Candidates) \in Int
  BY <1>1, CandidatesFinite, IntegerSumType
<1>6. Sum(v, Candidates) \in Int
  BY <1>1, CandidatesFinite, IntegerSumType
<1> QED BY <1>3, <1>4, <1>5, <1>6

\* A table that a ballot is added to entry by entry.
AddsTable(t, f, v, S) == t = [c \in Candidates |-> [g \in S |-> f[c][g] + v[c][g]]]
SumsAdd(t, f, v, S) ==
  /\ \A c \in Candidates : Sum(t[c], S) = Sum(f[c], S) + Sum(v[c], S)
  /\ \A c \in Candidates, g \in S :
       t[c][g] = f[c][g] + v[c][g] /\ f[c][g] \in Nat /\ v[c][g] \in Nat

\* Its entries and the sums of its rows.
LEMMA TableAdd ==
  ASSUME NEW m \in Nat, NEW h \in Nat, NEW M, M = m + h, NEW S, IsFiniteSet(S),
         NEW f \in Matrix(S, 0..m), NEW v \in Matrix(S, 0..h), NEW t, AddsTable(t, f, v, S)
  PROVE  t \in Matrix(S, 0..M) /\ SumsAdd(t, f, v, S)
<1>1. \A c \in Candidates, g \in S : f[c][g] \in 0..m /\ v[c][g] \in 0..h
  BY TableEntries
<1>2. \A c \in Candidates, g \in S : t[c][g] = f[c][g] + v[c][g]
  BY DEF AddsTable
<1>3. \A c \in Candidates, g \in S : f[c][g] + v[c][g] \in 0..M
  BY <1>1
<1>4. t \in Matrix(S, 0..M)
  BY <1>3 DEF Matrix, AddsTable
<1>5. \A c \in Candidates, g \in S : f[c][g] \in Nat /\ v[c][g] \in Nat
  BY <1>1
<1>6. ASSUME NEW c \in Candidates PROVE Sum(t[c], S) = Sum(f[c], S) + Sum(v[c], S)
  <2> DEFINE fc == f[c]
             vc == v[c]
             tc == t[c]
  <2>1. \A g \in S : fc[g] \in Nat /\ vc[g] \in Nat /\ tc[g] = fc[g] + vc[g]
    BY <1>2, <1>5
  <2> HIDE DEF fc, vc, tc
  <2>2. Sum(tc, S) = Sum(fc, S) + Sum(vc, S)
    BY <2>1, SumOfSums
  <2> QED BY <2>2 DEF fc, vc, tc
<1> QED BY <1>2, <1>4, <1>5, <1>6 DEF SumsAdd
\* What the sum s of a list of n ballots of kind k is.
ListWeighs(k, s, n) ==
  /\ k = "single"    => s <= n
  /\ k = "multi"     => s <= n * maxChoices
  /\ k = "pointlist" => s = n * Points
  /\ k = "tournament" /\ a = 2 * b => s = n * (b * (nVotes * (nVotes - 1)))

\* A ballot that is a list weighs what one ballot may weigh.
LEMMA ListBallots ==
  ASSUME NEW k \in Kinds, k \notin MatrixKinds, NEW v \in Ballots[k]
  PROVE  /\ v \in [Candidates -> LowestAssignable(k)..HighestAssignable[k]]
         /\ ListWeighs(k, Sum(v, Candidates), 1)
<1>1. k \in {"single", "multi", "pointlist", "tournament"}
  BY HighestType DEF AllKinds, MatrixKinds
<1>2. maxChoices \in Nat /\ b \in Nat /\ nVotes \in Nat /\ nVotes * (nVotes - 1) \in Int
  BY ConstantsType
<1>3. CASE k = "single"
  <2>1. v \in Vectors /\ AssertSingleVote(v)
    BY <1>3, BallotsOfKind
  <2>2. v \in [Candidates -> 0..1] /\ Sum(v, Candidates) <= 1
    BY <2>1, SingleVoteWeighs
  <2> QED BY <1>3, <2>2, HighestOfKind, LowestType DEF ListWeighs
<1>4. CASE k = "multi"
  <2>1. v \in Vectors /\ AssertMultiVote(v)
    BY <1>4, BallotsOfKind
  <2>2. /\ v \in [Candidates -> LowestAssignable("multi")..maxVotesCand]
        /\ Sum(v, Candidates) <= maxChoices
    BY <2>1, MultiVoteWeighs
  <2>3. 1 * maxChoices = maxChoices
    BY <1>2
  <2> QED BY <1>4, <2>2, <2>3, HighestOfKind DEF ListWeighs
<1>5. CASE k = "pointlist"
  <2>1. v \in Vectors /\ AssertPointlistBorda(v)
    BY <1>5, BallotsOfKind
  <2>2. v \in [Candidates -> 0..HighestPoint] /\ Sum(v, Candidates) = Points
    BY <2>1, PointlistWeighs
  <2>3. Points \in Nat
    <3>1. IsFiniteSet(DOMAIN orderedPoints) /\ \A i \in DOMAIN orderedPoints : orderedPoints[i] \in Nat
      BY PointsType
    <3> QED BY <3>1, SumType DEF Points
  <2>4. 1 * Points = Points
    BY <2>3
  <2> QED BY <1>5, <2>2, <2>4, HighestOfKind, LowestType DEF ListWeighs
<1>6. CASE k = "tournament"
  <2>1. PICK r \in Rankings : v = BordaTournamentStyleBallot(r)
    BY <1>6, BallotsOfKind
  <2>2. /\ v \in [Candidates -> 0..HighestTournament]
        /\ a = 2 * b => Sum(v, Candidates) = b * (nVotes * (nVotes - 1))
    BY <2>1, TournamentWeighs
  <2> DEFINE w == nVotes * (nVotes - 1)
  <2>3. w \in Int
    BY <1>2
  <2> HIDE DEF w
  <2>4. 1 * (b * w) = b * w
    BY <1>2, <2>3
  <2> QED BY <1>6, <2>2, <2>4, HighestOfKind, LowestType DEF ListWeighs, w
<1> QED BY <1>1, <1>3, <1>4, <1>5, <1>6

\* A further ballot.
LEMMA WeighsAddUp ==
  ASSUME NEW k, NEW s \in Int, NEW x \in Int, NEW n \in Nat,
         ListWeighs(k, s, n), ListWeighs(k, x, 1)
  PROVE  ListWeighs(k, s + x, n + 1)
<1>1. maxChoices \in Nat /\ b \in Nat /\ nVotes \in Nat
  BY ConstantsType
<1>2. k = "single" => s + x <= n + 1
  BY DEF ListWeighs
<1>3. k = "multi" => s + x <= (n + 1) * maxChoices
  BY <1>1 DEF ListWeighs
<1>4. ASSUME k = "pointlist" PROVE s + x = (n + 1) * Points
  <2>0. s = n * Points /\ x = 1 * Points
    BY <1>4 DEF ListWeighs
  <2>1. Points \in Int
    <3>1. IsFiniteSet(DOMAIN orderedPoints) /\ \A i \in DOMAIN orderedPoints : orderedPoints[i] \in Nat
      BY PointsType
    <3> QED BY <3>1, SumType DEF Points
  <2> QED BY <2>0, <2>1
<1>5. ASSUME k = "tournament", a = 2 * b PROVE s + x = (n + 1) * (b * (nVotes * (nVotes - 1)))
  <2> DEFINE w == b * (nVotes * (nVotes - 1))
  <2>1. s = n * w /\ x = 1 * w
    BY <1>5 DEF ListWeighs
  <2>2. w \in Int
    BY <1>1
  <2> HIDE DEF w
  <2>3. s + x = (n + 1) * w
    BY <2>1, <2>2
  <2> QED BY <2>3 DEF w
<1> QED BY <1>2, <1>3, <1>4, <1>5 DEF ListWeighs

\* Tables: pairs of entries, or the rows, add up to at most the number of voters, or just that.
PairsWeigh(t, n) == \A i, j \in Candidates : t[i][j] + t[j][i] <= n
RowsWeigh(t, n)  == \A c \in Candidates : Sum(t[c], Grades) = n

\* A ballot that is a table weighs what one ballot may weigh.
LEMMA TableBallots ==
  ASSUME NEW k \in MatrixKinds, NEW v \in Ballots[k]
  PROVE  /\ v \in Matrix(Columns(k), 0..1) /\ HighestAssignable[k] = 1
         /\ IsFiniteSet(Columns(k))
         /\ k = "condorcet" => PairsWeigh(v, 1)
         /\ k = "majority" => RowsWeigh(v, 1)
<1>1. CASE k = "condorcet"
  <2>1. PICK r \in Rankings : v = CondorcetBallot(r)
    BY <1>1, BallotsOfKind
  <2>2. v \in Matrix(Candidates, 0..1) /\ \A i, j \in Candidates : v[i][j] + v[j][i] <= 1
    BY <2>1, CondorcetWeighs
  <2> QED BY <1>1, <2>2, HighestOfKind, CandidatesFinite DEF Columns, PairsWeigh
<1>2. CASE k = "majority"
  <2>1. v \in Matrix(Grades, 0..1) /\ AssertMajorityJudgement(v)
    BY <1>2, BallotsOfKind
  <2>2. ASSUME NEW c \in Candidates PROVE Sum(v[c], Grades) = 1
    <3>1. SumOver(Grades, v[c]) = 1
      BY <2>1 DEF AssertMajorityJudgement
    <3> QED BY <3>1, SumOverIsSum
  <2> QED BY <1>2, <2>1, <2>2, HighestOfKind, CandidatesFinite DEF Columns, RowsWeigh
<1> QED BY <1>1, <1>2 DEF MatrixKinds

\* What EveryBallotWeighsTheSame says of a tally t of n ballots of kind k.
WeighsTheSame(k, t, n) ==
  /\ k = "single"     => SumOver(Candidates, t) <= n
  /\ k = "multi"      => /\ SumOver(Candidates, t) <= n * maxChoices
                         /\ \A c \in Candidates : t[c] <= n * maxVotesCand
  /\ k = "pointlist"  => SumOver(Candidates, t) = n * SumOver(DOMAIN orderedPoints, orderedPoints)
  /\ k = "tournament" /\ a = 2 * b => SumOver(Candidates, t) = n * b * nVotes * (nVotes - 1)
  /\ k = "condorcet"  => \A i, j \in Candidates : t[i][j] + t[j][i] <= n
  /\ k = "majority"   => \A c \in Candidates : SumOver(Grades, t[c]) = n

\* It says that of the lists, or of the tables.
LEMMA WeightsAre ==
  ASSUME NEW k, NEW t, NEW n \in Nat
  PROVE  /\ k \notin MatrixKinds =>
              (WeighsTheSame(k, t, n) <=>
                 /\ ListWeighs(k, Sum(t, Candidates), n)
                 /\ k = "multi" => \A c \in Candidates : t[c] <= n * maxVotesCand)
         /\ k = "condorcet" => (WeighsTheSame(k, t, n) <=> PairsWeigh(t, n))
         /\ k = "majority" => (WeighsTheSame(k, t, n) <=> RowsWeigh(t, n))
<1> DEFINE w == n * (b * (nVotes * (nVotes - 1)))
           u == n * b * nVotes * (nVotes - 1)
<1>1. /\ SumOver(Candidates, t) = Sum(t, Candidates)
      /\ SumOver(DOMAIN orderedPoints, orderedPoints) = Points
      /\ \A c \in Candidates : SumOver(Grades, t[c]) = Sum(t[c], Grades)
  BY SumOverIsSum DEF Points
<1>2. u = w
  <2>1. b \in Nat /\ nVotes \in Nat
    BY ConstantsType
  <2> QED BY <2>1
<1> HIDE DEF u, w
<1>3. ListWeighs(k, Sum(t, Candidates), n) <=>
        /\ k = "single"     => SumOver(Candidates, t) <= n
        /\ k = "multi"      => SumOver(Candidates, t) <= n * maxChoices
        /\ k = "pointlist"  =>
             SumOver(Candidates, t) = n * SumOver(DOMAIN orderedPoints, orderedPoints)
        /\ k = "tournament" /\ a = 2 * b => SumOver(Candidates, t) = w
  BY <1>1 DEF ListWeighs, w
<1>4. RowsWeigh(t, n) <=> \A c \in Candidates : SumOver(Grades, t[c]) = n
  BY <1>1 DEF RowsWeigh
<1>5. (k = "tournament" /\ a = 2 * b => SumOver(Candidates, t) = w)
        <=> (k = "tournament" /\ a = 2 * b => SumOver(Candidates, t) = n * b * nVotes * (nVotes - 1))
  BY <1>2 DEF u
<1>6. WeighsTheSame(k, t, n) <=>
        /\ ListWeighs(k, Sum(t, Candidates), n)
        /\ k = "multi" => \A c \in Candidates : t[c] <= n * maxVotesCand
        /\ k = "condorcet" => PairsWeigh(t, n)
        /\ k = "majority" => RowsWeigh(t, n)
  BY <1>3, <1>4, <1>5, Zenon DEF PairsWeigh, WeighsTheSame
<1>7. /\ k = "condorcet" => ListWeighs(k, Sum(t, Candidates), n) /\ k # "multi" /\ k # "majority"
      /\ k = "majority" => ListWeighs(k, Sum(t, Candidates), n) /\ k # "multi" /\ k # "condorcet"
  BY DEF ListWeighs
<1>8. k \notin MatrixKinds => k # "condorcet" /\ k # "majority"
  BY DEF MatrixKinds
<1> QED BY <1>6, <1>7, <1>8
-----------------------------------------------------------------------------
(***************************************************************************)
(* The invariant holds.                                                    *)
(***************************************************************************)
\* The property is that of the tally.
LEMMA WeighsEvery == EveryBallotWeighsTheSame <=> WeighsTheSame(kind, tally, voters)
BY DEF EveryBallotWeighsTheSame, WeighsTheSame

\* Nothing is counted at first.
LEMMA InitIsInductive == Init => EInv
<1> SUFFICES ASSUME Init PROVE EInv
  OBVIOUS
<1>1. kind \in Kinds /\ voters = 0 /\ result = NoResult
  BY DEF Init
<1>2. MaxVoters \in Nat
  BY ConstantsType
<1>3. 0 * HighestAssignable[kind] = 0 /\ 0 * LowestAssignable(kind) = 0
  BY <1>1, HighestType, LowestType
<1>4. CASE kind \in MatrixKinds
  <2> DEFINE S == Columns(kind)
  <2>1. tally = [c \in Candidates |-> [g \in S |-> 0]]
    BY <1>4 DEF Init
  <2>2. tally \in Matrix(S, 0..0)
    BY <2>1 DEF Matrix
  <2>3. TallyInv
    BY <1>1, <1>3, <1>4, <2>2 DEF TallyInv
  <2>4. WeighsTheSame(kind, tally, voters)
    <3>1. CASE kind = "condorcet"
      <4>1. \A i, j \in Candidates : tally[i][j] = 0
        BY <2>1, <3>1 DEF Columns
      <4>2. PairsWeigh(tally, voters)
        BY <1>1, <4>1 DEF PairsWeigh
      <4> QED BY <1>1, <3>1, <4>2, WeightsAre
    <3>2. CASE kind = "majority"
      <4>1. \A c \in Candidates, g \in Grades : tally[c][g] = 0
        BY <2>1, <3>2 DEF Columns
      <4>2. ASSUME NEW c \in Candidates PROVE Sum(tally[c], Grades) = 0
        <5> DEFINE row == tally[c]
        <5>1. \A g \in Grades : row[g] = 0
          BY <4>1
        <5> HIDE DEF row
        <5>2. Sum(row, Grades) = 0
          BY <5>1, CandidatesFinite, SumZeros
        <5> QED BY <5>2 DEF row
      <4>3. RowsWeigh(tally, voters)
        BY <1>1, <4>2 DEF RowsWeigh
      <4> QED BY <1>1, <3>2, <4>3, WeightsAre
    <3> QED BY <1>4, <3>1, <3>2 DEF MatrixKinds
  <2> QED BY <1>1, <1>2, <2>3, <2>4, WeighsEvery DEF EInv, ResultInv
<1>5. CASE kind \notin MatrixKinds
  <2>1. tally = [c \in Candidates |-> 0]
    BY <1>5 DEF Init
  <2>2. TallyInv
    BY <1>1, <1>3, <1>5, <2>1 DEF TallyInv
  <2>3. Sum(tally, Candidates) = 0
    BY <2>1, CandidatesFinite, SumZeros
  <2>4. /\ 0 * maxChoices = 0 /\ 0 * maxVotesCand = 0 /\ 0 * Points = 0
        /\ 0 * (b * (nVotes * (nVotes - 1))) = 0
    <3>1. maxChoices \in Nat /\ maxVotesCand \in Nat /\ b \in Nat /\ nVotes \in Nat
      BY ConstantsType
    <3>2. Points \in Nat
      <4>1. IsFiniteSet(DOMAIN orderedPoints) /\ \A i \in DOMAIN orderedPoints : orderedPoints[i] \in Nat
        BY PointsType
      <4> QED BY <4>1, SumType DEF Points
    <3> QED BY <3>1, <3>2
  <2>5. ListWeighs(kind, 0, 0)
    BY <2>4 DEF ListWeighs
  <2>6. \A c \in Candidates : tally[c] <= voters * maxVotesCand
    BY <1>1, <2>1, <2>4
  <2>7. WeighsTheSame(kind, tally, voters)
    BY <1>1, <1>5, <2>3, <2>5, <2>6, WeightsAre
  <2> QED BY <1>1, <1>2, <2>2, <2>7, WeighsEvery DEF EInv, ResultInv
<1> QED BY <1>4, <1>5

\* A ballot adds what a ballot weighs, and no entry more than the highest value.
LEMMA CastBallotIsInductive == EInv /\ CastBallot => EInv'
<1> SUFFICES ASSUME EInv, CastBallot PROVE EInv'
  OBVIOUS
<1> DEFINE H == HighestAssignable[kind]
<1>1. /\ kind \in Kinds /\ kind' = kind /\ result = NoResult /\ result' = NoResult
      /\ voters \in 0..MaxVoters /\ voters < MaxVoters /\ voters' = voters + 1
  BY DEF EInv, CastBallot
<1>2. MaxVoters \in Nat /\ H \in Nat /\ voters \in Nat /\ voters' \in Nat
      /\ voters' \in 0..MaxVoters
  BY <1>1, ConstantsType, HighestType
<1>3. ResultInv'
  BY <1>1 DEF ResultInv, NoResult
<1>4. PICK ballot \in Ballots[kind] :
        tally' = [c \in Candidates |->
          IF kind \in MatrixKinds THEN [g \in Columns(kind) |-> tally[c][g] + ballot[c][g]]
          ELSE tally[c] + ballot[c]]
  BY DEF CastBallot
<1>5. PICK k : k = kind
  OBVIOUS
<1>6. PICK n : n = voters
  OBVIOUS
<1>7. CASE kind \in MatrixKinds
  <2> DEFINE S == Columns(k)
  <2>1. PICK t : t = tally
    OBVIOUS
  <2>2. PICK u : u = tally'
    OBVIOUS
  <2>20. u = [c \in Candidates |-> [g \in S |-> t[c][g] + ballot[c][g]]]
    BY <1>4, <1>5, <1>7, <2>1, <2>2
  <2>3. ballot \in Matrix(S, 0..1) /\ HighestAssignable[k] = 1 /\ IsFiniteSet(S)
    BY <1>5, <1>7, TableBallots
  <2>4. t \in Matrix(S, 0..(n * 1)) /\ n \in Nat
    BY <1>2, <1>5, <1>6, <1>7, <2>1, <2>3 DEF EInv, TallyInv
  <2> HIDE DEF S
  <2>40. PICK m \in Nat, M \in Nat, h \in Nat : m = n * 1 /\ M = (n + 1) * 1 /\ h = 1 /\ M = m + h
    <3>1. n * 1 \in Nat /\ (n + 1) * 1 \in Nat /\ 1 \in Nat /\ (n + 1) * 1 = n * 1 + 1
      BY <2>4
    <3> QED BY <3>1
  <2>41. t \in Matrix(S, 0..m) /\ ballot \in Matrix(S, 0..h) /\ AddsTable(u, t, ballot, S)
    BY <2>20, <2>3, <2>4, <2>40 DEF AddsTable
  <2>5. u \in Matrix(S, 0..M) /\ SumsAdd(u, t, ballot, S)
    BY <2>3, <2>40, <2>41, TableAdd
  <2>6. TallyInv'
    BY <1>1, <1>5, <1>6, <1>7, <2>2, <2>3, <2>40, <2>5 DEF TallyInv, S
  <2>7. WeighsTheSame(kind', tally', voters')
    <3>1. CASE kind = "condorcet"
      <4>1. PairsWeigh(ballot, 1) /\ S = Candidates
        BY <1>5, <3>1, TableBallots DEF MatrixKinds, S, Columns
      <4>2. PairsWeigh(t, n)
        BY <1>2, <1>6, <2>1, <3>1, WeightsAre, WeighsEvery DEF EInv
      <4>3. PairsWeigh(u, n + 1)
        <5>1. ASSUME NEW i \in Candidates, NEW j \in Candidates PROVE u[i][j] + u[j][i] <= n + 1
          <6>1. /\ u[i][j] = t[i][j] + ballot[i][j] /\ t[i][j] \in Nat /\ ballot[i][j] \in Nat
                /\ u[j][i] = t[j][i] + ballot[j][i] /\ t[j][i] \in Nat /\ ballot[j][i] \in Nat
            BY <2>5, <4>1 DEF SumsAdd
          <6>2. t[i][j] + t[j][i] <= n /\ ballot[i][j] + ballot[j][i] <= 1
            BY <4>1, <4>2 DEF PairsWeigh
          <6> QED BY <2>4, <6>1, <6>2
        <5> QED BY <5>1 DEF PairsWeigh
      <4> QED BY <1>1, <1>2, <1>6, <2>2, <3>1, <4>3, WeightsAre
    <3>2. CASE kind = "majority"
      <4>1. RowsWeigh(ballot, 1) /\ S = Grades
        BY <1>5, <3>2, TableBallots DEF MatrixKinds, S, Columns
      <4>2. RowsWeigh(t, n)
        BY <1>2, <1>6, <2>1, <3>2, WeightsAre, WeighsEvery DEF EInv
      <4>3. RowsWeigh(u, n + 1)
        BY <2>5, <4>1, <4>2 DEF RowsWeigh, SumsAdd
      <4> QED BY <1>1, <1>2, <1>6, <2>2, <3>2, <4>3, WeightsAre
    <3> QED BY <1>7, <3>1, <3>2 DEF MatrixKinds
  <2> QED BY <1>1, <1>2, <1>3, <2>6, <2>7 DEF EInv, EveryBallotWeighsTheSame, WeighsTheSame
<1>8. CASE kind \notin MatrixKinds
  <2>1. PICK t : t = tally
    OBVIOUS
  <2>2. PICK u : u = tally'
    OBVIOUS
  <2>20. u = [c \in Candidates |-> t[c] + ballot[c]]
    BY <1>4, <1>8, <2>1, <2>2
  <2>3. /\ ballot \in [Candidates -> LowestAssignable(kind)..H]
        /\ ListWeighs(k, Sum(ballot, Candidates), 1)
    BY <1>1, <1>5, <1>8, ListBallots
  <2>4. t \in [Candidates -> (n * LowestAssignable(kind))..(n * H)] /\ n \in Nat
    BY <1>2, <1>6, <1>8, <2>1 DEF EInv, TallyInv
  <2>5. PICK h \in Int, e \in Int : h = H /\ e = LowestAssignable(kind)
    <3>1. H \in Int /\ LowestAssignable(kind) \in Int
      BY <1>2, LowestType
    <3> QED BY <3>1
  <2>50. PICK m \in Int, M \in Int, l \in Int, L \in Int :
           /\ m = n * h /\ M = (n + 1) * h /\ M = m + h
           /\ l = n * e /\ L = (n + 1) * e /\ L = l + e
    <3>1. /\ n * h \in Int /\ (n + 1) * h \in Int /\ (n + 1) * h = n * h + h
          /\ n * e \in Int /\ (n + 1) * e \in Int /\ (n + 1) * e = n * e + e
      BY <2>4, <2>5
    <3> QED BY <3>1
  <2>51. t \in [Candidates -> l..m] /\ ballot \in [Candidates -> e..h] /\ AddsList(u, t, ballot)
    BY <2>20, <2>3, <2>4, <2>5, <2>50 DEF AddsList
  <2>6. /\ u \in [Candidates -> L..M]
        /\ Sum(u, Candidates) = Sum(t, Candidates) + Sum(ballot, Candidates)
        /\ Sum(t, Candidates) \in Int /\ Sum(ballot, Candidates) \in Int
    <3>1. AddsBounds(l, m, e, h, L, M)
      BY <2>50 DEF AddsBounds
    <3> QED BY <2>51, <3>1, ListAdd
  <2>7. TallyInv'
    <3>1. LowestAssignable(kind)' = LowestAssignable(kind)
      BY <1>1 DEF LowestAssignable
    <3> QED BY <1>1, <1>6, <1>8, <2>2, <2>5, <2>50, <2>6, <3>1 DEF TallyInv
  <2>8. ListWeighs(k, Sum(t, Candidates), n)
    BY <1>2, <1>5, <1>6, <1>8, <2>1, WeightsAre, WeighsEvery DEF EInv
  <2>9. ListWeighs(k, Sum(u, Candidates), n + 1)
    BY <2>3, <2>4, <2>6, <2>8, WeighsAddUp
  <2>10. k = "multi" => \A c \in Candidates : u[c] <= (n + 1) * maxVotesCand
    <3>1. k = "multi" => h = maxVotesCand
      BY <1>5, <2>5, HighestOfKind
    <3>2. \A c \in Candidates : u[c] <= M
      BY <2>50, <2>6
    <3> QED BY <2>50, <3>1, <3>2
  <2>11. WeighsTheSame(kind', tally', voters')
    <3>1. /\ ListWeighs(kind', Sum(tally', Candidates), voters')
          /\ kind' = "multi" => \A c \in Candidates : tally'[c] <= voters' * maxVotesCand
      BY <1>1, <1>5, <1>6, <2>2, <2>9, <2>10
    <3> QED BY <1>1, <1>2, <1>8, <3>1, WeightsAre
  <2> QED BY <1>1, <1>2, <1>3, <2>7, <2>11 DEF EInv, EveryBallotWeighsTheSame, WeighsTheSame
<1> QED BY <1>7, <1>8
\* What is counted does not change with an evaluation.
LEMMA CountIsKept ==
  ASSUME EInv, UNCHANGED <<kind, voters, tally>>
  PROVE  /\ kind' \in Kinds /\ voters' \in 0..MaxVoters /\ TallyInv' /\ EveryBallotWeighsTheSame'
         /\ bits' = bits /\ kind' = kind /\ tally' = tally
<1>1. kind' = kind /\ voters' = voters /\ tally' = tally
  OBVIOUS
<1>2. TallyInv'
  BY <1>1 DEF EInv, TallyInv
<1>3. EveryBallotWeighsTheSame'
  BY <1>1, WeighsEvery DEF EInv, EveryBallotWeighsTheSame, WeighsTheSame
<1>4. bits' = bits
  BY <1>1, Zenon DEF bits
<1> QED BY <1>1, <1>2, <1>3, <1>4 DEF EInv

\* A result is that of the function evaluated.
LEMMA EvaluateIsInductive ==
  ASSUME EInv,
         \/ EvaluateMostVotes \/ EvaluateLeastVotes \/ EvaluateThreshold \/ EvaluateHighestEntries
         \/ EvaluateSmithSet \/ EvaluateMajorityJudgement
  PROVE  EInv'
<1>1. UNCHANGED <<kind, voters, tally>>
  BY DEF EvaluateMostVotes, EvaluateLeastVotes, EvaluateThreshold, EvaluateHighestEntries,
         EvaluateSmithSet, EvaluateMajorityJudgement, Evaluate
<1>2. /\ kind' \in Kinds /\ voters' \in 0..MaxVoters /\ TallyInv' /\ EveryBallotWeighsTheSame'
      /\ bits' = bits /\ kind' = kind /\ tally' = tally
  BY <1>1, CountIsKept
<1>3. CASE EvaluateMostVotes
  <2>1. kind' \notin MatrixKinds /\ ListResult'
    BY <1>2, <1>3 DEF EvaluateMostVotes, Evaluate, ListResult, IsResult
  <2> QED BY <1>2, <2>1 DEF EInv, ResultInv
<1>4. CASE EvaluateLeastVotes
  <2>1. kind' \notin MatrixKinds /\ ListResult'
    BY <1>2, <1>4 DEF EvaluateLeastVotes, Evaluate, ListResult, IsResult
  <2> QED BY <1>2, <2>1 DEF EInv, ResultInv
<1>5. CASE EvaluateThreshold
  <2>1. kind' \notin MatrixKinds /\ ListResult'
    BY <1>2, <1>5 DEF EvaluateThreshold, Evaluate, ListResult, IsResult
  <2> QED BY <1>2, <2>1 DEF EInv, ResultInv
<1>6. CASE EvaluateHighestEntries
  <2>1. kind' \notin MatrixKinds /\ ListResult'
    BY <1>2, <1>6 DEF EvaluateHighestEntries, Evaluate, ListResult, IsResult
  <2> QED BY <1>2, <2>1 DEF EInv, ResultInv
<1>7. CASE EvaluateSmithSet
  <2>1. kind' = "condorcet" /\ IsResult("smith", SmithSatisfied(bits, tally), SmithSetOut,
                                        RunningSmithSet(bits, tally))'
    BY <1>2, <1>7 DEF EvaluateSmithSet, Evaluate, IsResult
  <2> QED BY <1>2, <2>1 DEF EInv, ResultInv
<1>8. CASE EvaluateMajorityJudgement
  <2>1. kind' = "majority" /\ MedianResult'
    BY <1>2, <1>8 DEF EvaluateMajorityJudgement, Evaluate, MedianResult, IsResult
  <2> QED BY <1>2, <2>1 DEF EInv, ResultInv
<1> QED BY <1>3, <1>4, <1>5, <1>6, <1>7, <1>8

\* Every step keeps the invariant.
LEMMA StepIsInductive == EInv /\ [Next]_vars => EInv'
<1> SUFFICES ASSUME EInv, [Next]_vars PROVE EInv'
  OBVIOUS
<1>1. CASE CastBallot
  BY <1>1, CastBallotIsInductive
<1>2. CASE \/ EvaluateMostVotes \/ EvaluateLeastVotes \/ EvaluateThreshold \/ EvaluateHighestEntries
           \/ EvaluateSmithSet \/ EvaluateMajorityJudgement
  BY <1>2, EvaluateIsInductive
<1>3. CASE UNCHANGED vars
  <2>1. UNCHANGED <<kind, voters, tally>> /\ result' = result
    BY <1>3 DEF vars
  <2>2. /\ kind' \in Kinds /\ voters' \in 0..MaxVoters /\ TallyInv' /\ EveryBallotWeighsTheSame'
        /\ bits' = bits /\ kind' = kind /\ tally' = tally
    BY <2>1, CountIsKept
  <2>3. ResultInv'
    BY <2>1, <2>2 DEF EInv, ResultInv, ListResult, MedianResult, IsResult
  <2> QED BY <2>2, <2>3 DEF EInv
<1> QED BY <1>1, <1>2, <1>3 DEF Next

\* The invariant: only accepted ballots are counted, and a result is one of the final tally.
THEOREM ElectionInvariant == Spec => []EInv
BY InitIsInductive, StepIsInductive, PTL DEF Spec
-----------------------------------------------------------------------------
(***************************************************************************)
(* What the invariant implies.                                             *)
(***************************************************************************)
\* The entries of the tally, as the lemmas on the result functions need them.
LEMMA TallyEntries ==
  ASSUME EInv
  PROVE  /\ kind \in Kinds /\ voters \in Nat /\ voters <= MaxVoters
         /\ kind \notin MatrixKinds => tally \in [Candidates -> MinEntry..MaxEntry]
         /\ kind \in MatrixKinds => tally \in Matrix(Columns(kind), 0..MaxEntry)
<1> DEFINE H == HighestAssignable[kind]
           L == LowestAssignable(kind)
           most == voters * H
           least == voters * L
<1>1. kind \in Kinds /\ voters \in Nat /\ voters <= MaxVoters /\ MaxVoters \in Nat
  BY ConstantsType DEF EInv
<1>2. H \in Nat /\ L \in Int /\ L <= 0
  BY <1>1, HighestType, LowestType
<1>3. /\ kind \notin MatrixKinds => tally \in [Candidates -> least..most]
      /\ kind \in MatrixKinds => tally \in Matrix(Columns(kind), 0..most)
  BY DEF EInv, TallyInv
<1>4. /\ most \in Nat /\ MaxEntry \in Nat /\ most <= MaxEntry
      /\ least \in Int /\ MinEntry \in Int /\ MinEntry <= least
  <2>1. MaxEntry = MaxVoters * H /\ MinEntry = MaxVoters * L
    BY DEF MaxEntry, MinEntry
  <2> HIDE DEF H, L
  <2>2. PICK d \in Nat, x \in Nat : MaxVoters = voters + d /\ L = 0 - x
    <3>1. MaxVoters - voters \in Nat /\ MaxVoters = voters + (MaxVoters - voters)
          /\ 0 - L \in Nat /\ L = 0 - (0 - L)
      BY <1>1, <1>2
    <3> QED BY <3>1
  <2>3. /\ (voters + d) * H = voters * H + d * H /\ d * H \in Nat /\ voters * H \in Nat
        /\ (voters + d) * (0 - x) = voters * (0 - x) - d * x /\ d * x \in Nat
        /\ voters * (0 - x) \in Int
    BY <1>1, <1>2
  <2> QED BY <2>1, <2>2, <2>3
<1> HIDE DEF most, least
<1>5. 0..most \subseteq 0..MaxEntry /\ least..most \subseteq MinEntry..MaxEntry
  BY <1>4
<1>6. kind \in MatrixKinds => tally \in Matrix(Columns(kind), 0..MaxEntry)
  BY <1>3, <1>5 DEF Matrix
<1>7. kind \notin MatrixKinds => tally \in [Candidates -> MinEntry..MaxEntry]
  BY <1>3, <1>5
<1> QED BY <1>1, <1>6, <1>7

\* A result of a list function is one of lists, and so on.
LEMMA ResultsAre ==
  ASSUME EInv
  PROVE  /\ result.of = "none" => result = NoResult
         /\ result.of \in {"most", "least", "threshold", "highest"} => kind \notin MatrixKinds
         /\ result.of = "most" => /\ result.satisfied = MaxSatisfied(bits, tally)
                                  /\ result.winners = MaximumIndicator(bits, tally)
         /\ result.of = "least" => /\ result.satisfied = MinSatisfied(bits, tally)
                                   /\ result.winners = MinimumIndicator(bits, tally)
         /\ result.of = "threshold" => /\ result.satisfied = ThresholdSatisfied(bits, tally, threshold)
                                       /\ result.winners = ThresholdIndicator(bits, tally, threshold)
         /\ result.of = "highest" => /\ result.satisfied = HighestMSatisfied(bits, tally, mEntries)
                                     /\ result.winners = HighestMEntries(bits, tally, mEntries)
         /\ result.of = "smith" => /\ kind = "condorcet"
                                   /\ result.satisfied = SmithSatisfied(bits, tally)
                                   /\ result.winners = {}
                                   /\ result.rounds = RunningSmithSet(bits, tally)
         /\ result.of \in {"median", "calculated"} =>
              LET run == MajorityJudgementRounds(bits, tally, result.of = "calculated")
              IN  /\ kind = "majority"
                  /\ result.satisfied = \A r \in Candidates : run[r].satisfied
                  /\ result.winners = run[nVotes - 1].winners
                  /\ result.rounds = [r \in Candidates |-> run[r].winners]
         /\ result.of \in {"none", "most", "least", "threshold", "highest", "smith", "median",
                           "calculated"}
<1>1. ResultInv
  BY DEF EInv
<1>2. CASE result = NoResult
  BY <1>2 DEF NoResult
<1>3. CASE kind \notin MatrixKinds /\ ListResult
  <2> DEFINE m1 == MaxSatisfied(bits, tally)
             m2 == MaximumIndicator(bits, tally)
             l1 == MinSatisfied(bits, tally)
             l2 == MinimumIndicator(bits, tally)
             t1 == ThresholdSatisfied(bits, tally, threshold)
             t2 == ThresholdIndicator(bits, tally, threshold)
             h1 == HighestMSatisfied(bits, tally, mEntries)
             h2 == HighestMEntries(bits, tally, mEntries)
             rs == NoResult.rounds
  <2>1. \/ IsResult("most", m1, m2, rs) \/ IsResult("least", l1, l2, rs)
        \/ IsResult("threshold", t1, t2, rs) \/ IsResult("highest", h1, h2, rs)
    BY <1>3, Zenon DEF ListResult
  <2> HIDE DEF m1, m2, l1, l2, t1, t2, h1, h2, rs
  <2>2. /\ result.of \in {"most", "least", "threshold", "highest"}
        /\ result.of = "most" => result.satisfied = m1 /\ result.winners = m2
        /\ result.of = "least" => result.satisfied = l1 /\ result.winners = l2
        /\ result.of = "threshold" => result.satisfied = t1 /\ result.winners = t2
        /\ result.of = "highest" => result.satisfied = h1 /\ result.winners = h2
    BY <2>1 DEF IsResult
  <2>3. /\ result.of # "none" /\ result.of # "smith" /\ result.of \notin {"median", "calculated"}
        /\ result.of \in {"none", "most", "least", "threshold", "highest", "smith", "median",
                          "calculated"}
    BY <2>2
  <2> QED BY <1>3, <2>2, <2>3, Zenon DEF m1, m2, l1, l2, t1, t2, h1, h2
<1>4. CASE kind = "condorcet" /\ IsResult("smith", SmithSatisfied(bits, tally), SmithSetOut,
                                          RunningSmithSet(bits, tally))
  BY <1>4 DEF IsResult, SmithSetOut
<1>5. CASE kind = "majority" /\ MedianResult
  <2> DEFINE run(of) == MajorityJudgementRounds(bits, tally, of = "calculated")
             sat(of) == \A r \in Candidates : run(of)[r].satisfied
             win(of) == run(of)[nVotes - 1].winners
             rds(of) == [r \in Candidates |-> run(of)[r].winners]
  <2>1. \E of \in {"median", "calculated"} : IsResult(of, sat(of), win(of), rds(of))
    BY <1>5, Zenon DEF MedianResult
  <2> HIDE DEF run, sat, win, rds
  <2>2. PICK of \in {"median", "calculated"} : IsResult(of, sat(of), win(of), rds(of))
    BY <2>1
  <2>3. /\ result.of = of /\ result.of \in {"median", "calculated"}
        /\ result.satisfied = sat(of) /\ result.winners = win(of) /\ result.rounds = rds(of)
    BY <2>2 DEF IsResult
  <2>4. /\ result.satisfied = sat(result.of) /\ result.winners = win(result.of)
        /\ result.rounds = rds(result.of)
    BY <2>3
  <2>5. /\ result.of \notin {"none", "most", "least", "threshold", "highest", "smith"}
        /\ result.of \in {"none", "most", "least", "threshold", "highest", "smith", "median",
                          "calculated"}
    BY <2>3
  <2>6. /\ result.of # "none" /\ result.of # "most" /\ result.of # "least"
        /\ result.of # "threshold" /\ result.of # "highest" /\ result.of # "smith"
    BY <2>5
  <2> QED BY <1>5, <2>4, <2>5, <2>6, Zenon DEF run, sat, win, rds
<1> QED BY <1>1, <1>2, <1>3, <1>4, <1>5 DEF ResultInv
\* A result is a truth value and a set of candidates.
LEMMA TypeIsImplied == EInv => TypeOK
<1> SUFFICES ASSUME EInv PROVE TypeOK
  OBVIOUS
<1>1. voters \in 0..MaxVoters
  BY DEF EInv
<1>2. result.satisfied \in BOOLEAN
  <2>1. /\ MaxSatisfied(bits, tally) \in BOOLEAN /\ MinSatisfied(bits, tally) \in BOOLEAN
        /\ ThresholdSatisfied(bits, tally, threshold) \in BOOLEAN
        /\ HighestMSatisfied(bits, tally, mEntries) \in BOOLEAN
        /\ SmithSatisfied(bits, tally) \in BOOLEAN
    BY DEF MaxSatisfied, MinSatisfied, ThresholdSatisfied, HighestMSatisfied, SmithSatisfied
  <2>2. result.of = "none" => result.satisfied \in BOOLEAN
    <3>1. NoResult.satisfied = TRUE
      BY DEF NoResult
    <3>2. result.of = "none" => result = NoResult
      BY ResultsAre
    <3> QED BY <3>1, <3>2
  <2>3. result.of \in {"median", "calculated"} => result.satisfied \in BOOLEAN
    BY ResultsAre
  <2>4. /\ result.of = "most" => result.satisfied \in BOOLEAN
        /\ result.of = "least" => result.satisfied \in BOOLEAN
        /\ result.of = "threshold" => result.satisfied \in BOOLEAN
        /\ result.of = "highest" => result.satisfied \in BOOLEAN
        /\ result.of = "smith" => result.satisfied \in BOOLEAN
    BY <2>1, ResultsAre
  <2> QED BY <2>2, <2>3, <2>4, ResultsAre
<1>3. result.winners \subseteq Candidates
  <2>1. kind \notin MatrixKinds => DOMAIN tally = Candidates
    BY TallyEntries
  <2>2. kind \notin MatrixKinds =>
          /\ MaximumIndicator(bits, tally) \subseteq Candidates
          /\ MinimumIndicator(bits, tally) \subseteq Candidates
          /\ ThresholdIndicator(bits, tally, threshold) \subseteq Candidates
          /\ HighestMEntries(bits, tally, mEntries) \subseteq Candidates
    BY <2>1 DEF MaximumIndicator, MinimumIndicator, ThresholdIndicator, HighestMEntries, IdxEqual
  <2>3. result.of = "none" => result.winners = {}
    BY ResultsAre DEF NoResult
  <2>4. result.of \in {"median", "calculated"} => result.winners \subseteq Candidates
    <3> SUFFICES ASSUME result.of \in {"median", "calculated"} PROVE result.winners \subseteq Candidates
      OBVIOUS
    <3> DEFINE hint == result.of = "calculated"
               run == MajorityJudgementRounds(bits, tally, hint)
               l == nVotes - 1
    <3>1. result.winners = run[l].winners /\ kind = "majority"
      BY ResultsAre
    <3>2. tally \in Matrix(Grades, Int)
      <4>1. tally \in Matrix(Grades, 0..MaxEntry)
        BY <3>1, TallyEntries DEF MatrixKinds, Columns
      <4> QED BY <4>1, TableEntries DEF Matrix
    <3>3. RunsRounds(bits, tally, hint, run)
      BY <3>2, RoundsEquation
    <3>4. l \in Candidates
      BY CandidatesAre
    <3> HIDE DEF run, l, hint
    <3>5. \E m : run[l] = Round(bits, m, hint)
      BY <3>3, <3>4 DEF RunsRounds
    <3>6. PICK m : run[l] = Round(bits, m, hint)
      BY <3>5
    <3>70. Round(bits, m, hint).winners
             = IdxEqual(MediansOf(bits, m, hint), MinValue(bits, MediansOf(bits, m, hint)))
      BY Zenon DEF Round, MediansOf
    <3>7. run[l].winners = IdxEqual(MediansOf(bits, m, hint), MinValue(bits, MediansOf(bits, m, hint)))
      BY <3>6, <3>70, Zenon
    <3>8. run[l].winners \subseteq Candidates
      BY <3>7 DEF IdxEqual, MediansOf
    <3> QED BY <3>1, <3>8
  <2> QED BY <2>2, <2>3, <2>4, ResultsAre
<1> QED BY <1>1, <1>2, <1>3, TallyEntries DEF TypeOK

\* None above is the same as at least all.
LEMMA NoneAbove ==
  ASSUME NEW L \in Int, NEW K \in Int, NEW list \in [Candidates -> L..K], NEW c \in Candidates
  PROVE  /\ Cardinality({d \in Candidates : list[d] > list[c]}) = 0
              <=> \A d \in Candidates : list[d] <= list[c]
         /\ Cardinality({d \in Candidates : list[d] < list[c]}) = 0
              <=> \A d \in Candidates : list[c] <= list[d]
<1> DEFINE A == {d \in Candidates : list[d] > list[c]}
           B == {d \in Candidates : list[d] < list[c]}
<1>1. IsFiniteSet(A) /\ IsFiniteSet(B)
  BY CandidatesFinite, FS_Subset
<1>2. (Cardinality(A) = 0 <=> A = {}) /\ (Cardinality(B) = 0 <=> B = {})
  BY <1>1, FS_EmptySet
<1>3. (A = {} <=> \A d \in Candidates : list[d] <= list[c])
      /\ (B = {} <=> \A d \in Candidates : list[c] <= list[d])
  OBVIOUS
<1> QED BY <1>2, <1>3

\* The list functions reveal what the tally says.
LEMMA ResultsAreImplied == EInv => ResultsFollowTheTally
<1> SUFFICES ASSUME EInv, result.satisfied PROVE ResultsFollowTheTally
  BY DEF ResultsFollowTheTally
<1> DEFINE above(c) == Cardinality({d \in Candidates : tally[d] > tally[c]})
           below(c) == Cardinality({d \in Candidates : tally[d] < tally[c]})
<1>0. /\ bits \in Nat /\ MaxEntry \in Nat /\ MaxEntry \in Int
      /\ MinEntry \in Int /\ MinEntry <= 0 /\ MaxEntry - MinEntry + Power2[bits] < P
      /\ MaxEntry - MinEntry + Power2[bits] + 1 < P /\ nVotes + Power2[bits] < P
      /\ threshold \in 0..MaxEntry /\ mEntries \in 1..nVotes
  <2>1. kind \in Kinds
    BY TallyEntries
  <2>2. P \in Nat /\ MaxVoters \in Nat
    BY ConstantsType
  <2> QED BY <2>1, <2>2, BitsRight, ElectionAssumption
<1>01. Fits(bits, MinEntry, MaxEntry)
  BY <1>0 DEF Fits
<1>1. /\ result.of = "most" => kind \notin MatrixKinds
      /\ result.of = "least" => kind \notin MatrixKinds
      /\ result.of = "threshold" => kind \notin MatrixKinds
      /\ result.of = "highest" => kind \notin MatrixKinds
  BY ResultsAre
<1>2. kind \notin MatrixKinds => tally \in [Candidates -> MinEntry..MaxEntry]
  BY TallyEntries
<1>3. ASSUME result.of = "most" PROVE result.winners = {c \in Candidates : above(c) = 0}
  <2>1. tally \in [Candidates -> MinEntry..MaxEntry]
    BY <1>1, <1>2, <1>3
  <2>2. MaxSatisfied(bits, tally) /\ result.winners = MaximumIndicator(bits, tally)
    BY <1>3, ResultsAre
  <2>3. MaxInRange(bits, tally)
    BY <1>0, <2>1, <2>2, SatisfiedInRange
  <2>4. result.winners = {c \in Candidates : \A d \in Candidates : tally[d] <= tally[c]}
    BY <1>0, <2>1, <2>2, <2>3, IndicatorsRight
  <2>5. \A c \in Candidates : above(c) = 0 <=> \A d \in Candidates : tally[d] <= tally[c]
    BY <1>0, <2>1, NoneAbove
  <2> HIDE DEF above
  <2> QED BY <2>4, <2>5
<1>4. ASSUME result.of = "least" PROVE result.winners = {c \in Candidates : below(c) = 0}
  <2>1. tally \in [Candidates -> MinEntry..MaxEntry]
    BY <1>1, <1>2, <1>4
  <2>2. MinSatisfied(bits, tally) /\ result.winners = MinimumIndicator(bits, tally)
    BY <1>4, ResultsAre
  <2>3. MinInRange(bits, tally)
    BY <1>0, <2>1, <2>2, SatisfiedInRange
  <2>4. result.winners = {c \in Candidates : \A d \in Candidates : tally[c] <= tally[d]}
    BY <1>0, <2>1, <2>2, <2>3, IndicatorsRight
  <2>5. \A c \in Candidates : below(c) = 0 <=> \A d \in Candidates : tally[c] <= tally[d]
    BY <1>0, <2>1, NoneAbove
  <2> HIDE DEF below
  <2> QED BY <2>4, <2>5
<1>5. ASSUME result.of = "threshold" PROVE result.winners = {c \in Candidates : tally[c] >= threshold}
  <2>1. tally \in [Candidates -> MinEntry..MaxEntry]
    BY <1>1, <1>2, <1>5
  <2>2. /\ ThresholdSatisfied(bits, tally, threshold)
        /\ result.winners = ThresholdIndicator(bits, tally, threshold)
    BY <1>5, ResultsAre
  <2>3. ThresholdIndicator(bits, tally, threshold) = {c \in Candidates : tally[c] >= threshold}
    BY <1>0, <1>01, <2>1, <2>2, ThresholdRight
  <2> QED BY <2>2, <2>3
<1>6. ASSUME result.of = "highest" PROVE result.winners = {c \in Candidates : above(c) < mEntries}
  <2>1. tally \in [Candidates -> MinEntry..MaxEntry]
    BY <1>1, <1>2, <1>6
  <2>2. /\ HighestMSatisfied(bits, tally, mEntries)
        /\ result.winners = HighestMEntries(bits, tally, mEntries)
    BY <1>6, ResultsAre
  <2>3. HighestMEntries(bits, tally, mEntries) = FewerAbove(tally, mEntries)
    BY <1>0, <1>01, <2>1, <2>2, HighestFits
  <2> QED BY <2>2, <2>3 DEF FewerAbove
<1> QED BY <1>3, <1>4, <1>5, <1>6 DEF ResultsFollowTheTally
\* A list function without a proof found an entry that is negative or as great as the bits allow,
\* or more candidates than they tell apart.
LEMMA UnprovableIsFull == EInv => OnlyAFullTallyIsUnprovable
<1> SUFFICES ASSUME EInv, ~result.satisfied, kind # "majority"
             PROVE  \/ IF kind = "condorcet" THEN \E c, d \in Candidates : tally[c][d] >= Power2[bits]
                                             ELSE \E c \in Candidates : tally[c] \notin 0..(Power2[bits] - 1)
                    \/ result.of \in {"highest", "smith"} /\ nVotes > Power2[bits]
  BY DEF OnlyAFullTallyIsUnprovable
<1>0. /\ bits \in Nat /\ MaxEntry \in Nat /\ Power2[bits] \in Nat
      /\ MinEntry \in Int /\ MinEntry <= 0 /\ MaxEntry - MinEntry + Power2[bits] < P
      /\ MaxEntry - MinEntry + Power2[bits] + 1 < P /\ nVotes + Power2[bits] < P /\ nVotes \in Nat
      /\ MaxEntry + Power2[bits] < P
      /\ threshold \in 0..MaxEntry /\ threshold <= Power2[bits] /\ mEntries \in 1..nVotes
  <2>1. kind \in Kinds
    BY TallyEntries
  <2>2. P \in Nat /\ MaxVoters \in Nat /\ nVotes \in Nat
    BY ConstantsType
  <2> QED BY <2>1, <2>2, BitsRight, ElectionAssumption
<1>01. Fits(bits, MinEntry, MaxEntry)
  BY <1>0 DEF Fits
<1>1. /\ result.of \in {"most", "least", "threshold", "highest"} =>
           kind # "condorcet" /\ tally \in [Candidates -> MinEntry..MaxEntry]
      /\ result.of \in {"most", "least", "threshold", "highest", "smith"}
  <2>0. result.of \notin {"median", "calculated"}
    BY ResultsAre
  <2>1. result.of # "none"
    <3>1. NoResult.satisfied = TRUE
      BY DEF NoResult
    <3> QED BY <3>1, ResultsAre
  <2>2. result.of \in {"most", "least", "threshold", "highest"} => kind \notin MatrixKinds
    BY ResultsAre
  <2> QED BY <2>0, <2>1, <2>2, ResultsAre, TallyEntries DEF MatrixKinds
<1>2. ASSUME result.of \in {"most", "least"} PROVE \E c \in Candidates : tally[c] \notin 0..(Power2[bits] - 1)
  <2>1. tally \in [Candidates -> MinEntry..MaxEntry]
    BY <1>1, <1>2
  <2>2. ~MaxSatisfied(bits, tally) \/ ~MinSatisfied(bits, tally)
    BY <1>2, ResultsAre
  <2>3. PICK c \in Candidates : ~(0 <= tally[c] /\ tally[c] < Power2[bits])
    BY <1>0, <2>1, <2>2, UnsatisfiedIsFull
  <2> QED BY <1>0, <2>3
<1>3. ASSUME result.of = "threshold" PROVE \E c \in Candidates : tally[c] \notin 0..(Power2[bits] - 1)
  <2>1. tally \in [Candidates -> MinEntry..MaxEntry]
    BY <1>1, <1>3
  <2>2. ~ThresholdSatisfied(bits, tally, threshold)
    BY <1>3, ResultsAre
  <2> QED BY <1>0, <1>01, <2>1, <2>2, ThresholdRight
<1>4. ASSUME result.of = "highest", ~(nVotes > Power2[bits])
      PROVE  \E c \in Candidates : tally[c] \notin 0..(Power2[bits] - 1)
  <2>1. tally \in [Candidates -> MinEntry..MaxEntry]
    BY <1>1, <1>4
  <2>2. ~HighestMSatisfied(bits, tally, mEntries)
    BY <1>4, ResultsAre
  <2>3. nVotes <= Power2[bits]
    BY <1>0, <1>4
  <2> QED BY <1>0, <2>1, <2>2, <2>3, HighestRight
<1>5. ASSUME result.of = "smith", ~(nVotes > Power2[bits])
      PROVE  kind = "condorcet" /\ \E c, d \in Candidates : tally[c][d] >= Power2[bits]
  <2>1. kind = "condorcet" /\ ~SmithSatisfied(bits, tally)
    BY <1>5, ResultsAre
  <2>2. tally \in Matrix(Candidates, 0..MaxEntry)
    BY <2>1, TallyEntries DEF MatrixKinds, Columns
  <2>3. nVotes <= Power2[bits]
    BY <1>0, <1>5
  <2>4. PICK c \in Candidates, d \in Candidates : ~(tally[c][d] < Power2[bits])
    BY <1>0, <2>1, <2>2, <2>3, SmithSatisfiable
  <2>5. tally[c][d] \in 0..MaxEntry
    BY <2>2, TableEntries
  <2>6. tally[c][d] >= Power2[bits]
    BY <1>0, <2>4, <2>5
  <2> QED BY <2>1, <2>6
<1> QED BY <1>1, <1>2, <1>3, <1>4, <1>5

\* The rounds on a comparison matrix stay in its Smith set.
LEMMA RoundsAreImplied == EInv => RoundsStayInSmithSet
<1> SUFFICES ASSUME EInv, result.of = "smith", result.satisfied
             PROVE  \A r \in DOMAIN result.rounds : result.rounds[r] \subseteq SmithSet
  BY DEF RoundsStayInSmithSet
<1>0. /\ bits \in Nat /\ MaxEntry \in Nat /\ MaxEntry + Power2[bits] < P /\ nVotes + Power2[bits] < P
  <2>1. kind \in Kinds
    BY TallyEntries
  <2>2. P \in Nat
    BY ConstantsType
  <2>3. /\ bits \in Nat /\ Power2[bits] \in Nat /\ MaxEntry \in Nat /\ MinEntry \in Int
        /\ MinEntry <= 0 /\ MaxEntry - MinEntry + Power2[bits] + 1 < P /\ nVotes + Power2[bits] < P
    BY <2>1, BitsRight
  <2> QED BY <2>2, <2>3
<1>1. /\ kind = "condorcet" /\ SmithSatisfied(bits, tally)
      /\ result.rounds = RunningSmithSet(bits, tally)
  BY ResultsAre
<1>2. tally \in Matrix(Candidates, 0..MaxEntry)
  BY <1>1, TallyEntries DEF MatrixKinds, Columns
<1>3. DOMAIN result.rounds = Candidates
  BY <1>1, SmithSetEquation DEF RunsThroughSmithSet
<1>4. SmithSet \in SUBSET Candidates /\ SmithSet # {} /\ Dominates(SmithSet)
  BY <1>0, <1>2, SmithSetExists DEF Dominating
<1>5. ASSUME NEW r \in Candidates PROVE RunningSmithSet(bits, tally)[r] \subseteq SmithSet
  BY <1>0, <1>1, <1>2, <1>4, RoundsStayInDominating
<1> QED BY <1>1, <1>3, <1>5

\* The first round on a table of grades keeps the highest medians.
LEMMA FirstRoundIsImplied == EInv => FirstRoundKeepsHighestMedian
<1> SUFFICES ASSUME EInv, result.of = "median" \/ (result.of = "calculated" /\ result.satisfied),
                    nGrades <= Power2[bits]
             PROVE  result.rounds[0]
                      = {c \in Candidates : \A d \in Candidates : HighestMedian(c) >= HighestMedian(d)}
  BY DEF FirstRoundKeepsHighestMedian
<1> DEFINE hint == result.of = "calculated"
           run == MajorityJudgementRounds(bits, tally, hint)
<1>1. /\ kind = "majority" /\ result.rounds = [r \in Candidates |-> run[r].winners]
      /\ result.satisfied = \A r \in Candidates : run[r].satisfied
  BY ResultsAre
<1>0. /\ bits \in Nat /\ MaxEntry \in Nat /\ Power2[bits] \in Nat
      /\ voters \in Nat /\ voters <= Power2[bits] /\ voters + 2 * Power2[bits] < P
      /\ nGrades + Power2[bits] < P
  <2>1. kind \in Kinds /\ voters \in Nat /\ voters <= MaxVoters
    BY TallyEntries
  <2>2. P \in Nat /\ MaxVoters \in Nat /\ nGrades \in Nat
    BY ConstantsType
  <2>3. /\ bits \in Nat /\ Power2[bits] \in Nat /\ MaxEntry \in Nat /\ MaxEntry <= Power2[bits]
        /\ Power2[bits] + Power2[bits] < P /\ MaxVoters <= MaxEntry
        /\ MaxVoters + 2 * Power2[bits] < P
    BY <1>1, <2>1, BitsRight
  <2> QED BY <2>1, <2>2, <2>3
<1>3. tally \in Matrix(Grades, 0..MaxEntry)
  BY <1>1, TallyEntries DEF MatrixKinds, Columns
<1>4. RowsWeigh(tally, voters)
  BY <1>0, <1>1, WeighsEvery, WeightsAre DEF EInv
<1>5. GradedByAll(MaxEntry)
  BY <1>3, <1>4 DEF GradedByAll, RowsWeigh
<1>6. MajorityJudgementRounds(bits, tally, FALSE)[0].winners
        = {c \in Candidates : \A d \in Candidates : HighestMedian(c) >= HighestMedian(d)}
  BY <1>0, <1>5, FirstRoundRight
<1>7. tally \in Matrix(Grades, Int)
  BY <1>3, TableEntries DEF Matrix
<1>8. /\ run[0] = Round(bits, tally, hint)
      /\ MajorityJudgementRounds(bits, tally, FALSE)[0] = Round(bits, tally, FALSE)
  BY <1>7, FirstRoundIsOfTally
<1> HIDE DEF run
<1>9. 0 \in Candidates /\ result.rounds[0] = run[0].winners
  BY <1>1, CandidatesAre
<1>10. Round(bits, tally, hint).winners = Round(bits, tally, FALSE).winners
  <2>1. CASE result.of = "median"
    BY <2>1
  <2>2. CASE result.of = "calculated" /\ result.satisfied
    <3>1. hint = TRUE
      BY <2>2
    <3>2. Round(bits, tally, hint).satisfied
      BY <1>1, <1>8, <1>9, <2>2
    <3> QED BY <3>1, <3>2, CalculatedRound
  <2> QED BY <2>1, <2>2
<1> QED BY <1>6, <1>8, <1>9, <1>10
-----------------------------------------------------------------------------
\* Entries stay within what the voters can assign together, whatever ballots of field elements
\* the validity circuits accept: below zero for the multi vote only.
THEOREM TypeCorrect == Spec => []TypeOK
BY ElectionInvariant, TypeIsImplied, PTL

\* Every sum of accepted ballots weighs the number of voters, as totals go: no ballot of field
\* elements that the circuits of the voting directory accept counts twice.  For the multi vote
\* the total is net of the entries below zero, and of a single vote it is no more than that.
THEOREM BallotsWeighTheSame == Spec => []EveryBallotWeighsTheSame
<1>1. EInv => EveryBallotWeighsTheSame
  BY DEF EInv
<1> QED BY <1>1, ElectionInvariant, PTL

\* The indicators of listGates mark what the tally says, if they can be proved at all.
THEOREM ResultsRevealTheTally == Spec => []ResultsFollowTheTally
BY ElectionInvariant, ResultsAreImplied, PTL

\* With the documented bits, there is a proof unless an entry is full or negative or there are
\* too many candidates.
THEOREM UnprovableOnlyIfFull == Spec => []OnlyAFullTallyIsUnprovable
BY ElectionInvariant, UnprovableIsFull, PTL

\* The rounds of computeSmithSet never leave the Smith set.
THEOREM SmithRounds == Spec => []RoundsStayInSmithSet
BY ElectionInvariant, RoundsAreImplied, PTL

\* With hints that satisfy its constraints, the first round of computeMajorityJudgement keeps the
\* candidates with the highest median, of any number of voters.
THEOREM FirstRound == Spec => []FirstRoundKeepsHighestMedian
BY ElectionInvariant, FirstRoundIsImplied, PTL
=============================================================================
