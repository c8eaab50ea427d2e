---------------------------- MODULE LibraryFacts ----------------------------
(***************************************************************************)
(* Lemmas about what the modules take from the community modules.          *)
(*                                                                         *)
(* First finite sets: their least and greatest elements, the images of     *)
(* functions, and sums as MapThenSumSet computes them, whose summands are  *)
(* given as a function f.  Induction is stated for a property that is      *)
(* given as the set of what has it.                                        *)
(*                                                                         *)
(* Then sequences: joined, cut and appended to, sequences of sequences run *)
(* together by FlattenSeq, functions defined step by step, and the         *)
(* ascending sequences that list sets of numbers.                          *)
(*                                                                         *)
(* Last arithmetic modulo a prime: residues, powers, inverses and roots of *)
(* unity, sums over them, and the values of a polynomial on a coset of     *)
(* them, from which it is folded and interpolated.                         *)
(***************************************************************************)
EXTENDS SequencesExt, FiniteSetTheorems, WellFoundedInduction, TLAPS

\* Induction over the natural numbers, for a property that is given as the set S of
\* the numbers that have it.
LEMMA NatSetInduction ==
  ASSUME NEW S, 0 \in S, \A n \in Nat : n \in S => n + 1 \in S
  PROVE  Nat \subseteq S
<1> DEFINE less == {ss \in Nat \X Nat : ss[1] < ss[2]}
           T    == Nat \ S
<1>1. SUFFICES ASSUME T # {} PROVE FALSE
  OBVIOUS
<1>2. IsWellFoundedOn(less, Nat)
  BY NatLessThanWellFounded DEF OpToRel
<1>3. T \subseteq Nat
  OBVIOUS
<1> HIDE DEF less, T
<1>4. PICK x \in T : \A y \in T : ~(<<y, x>> \in less)
  BY <1>1, <1>2, <1>3, WFMin
<1>5. x \in Nat /\ x \notin S
  BY DEF T
<1>6. x - 1 \in Nat /\ x - 1 < x /\ (x - 1) + 1 = x
  BY <1>5
<1>7. x - 1 \in T
  BY <1>5, <1>6 DEF T
<1>8. <<x - 1, x>> \in less
  BY <1>5, <1>6 DEF less
<1> QED BY <1>4, <1>7, <1>8

\* Induction over the subsets of a finite set, for a property that is given as the set Q
\* of the subsets that have it.
LEMMA FiniteSetInduction ==
  ASSUME NEW S, IsFiniteSet(S), NEW Q, {} \in Q,
         \A T \in SUBSET S, x \in S : T \in Q /\ x \notin T => T \union {x} \in Q
  PROVE  S \in Q
<1> DEFINE N == {n \in Nat : \A T \in SUBSET S : Cardinality(T) = n => T \in Q}
<1>1. \A T \in SUBSET S : IsFiniteSet(T) /\ Cardinality(T) \in Nat
  BY FS_Subset, FS_CardinalityType
<1>2. 0 \in N
  BY <1>1, FS_EmptySet
<1>3. ASSUME NEW n \in Nat, n \in N PROVE n + 1 \in N
  <2>1. SUFFICES ASSUME NEW T \in SUBSET S, Cardinality(T) = n + 1 PROVE T \in Q
    OBVIOUS
  <2>2. PICK x \in T : TRUE
    BY <1>1, <2>1, FS_EmptySet
  <2> DEFINE U == T \ {x}
  <2>3. U \in SUBSET S /\ x \in S /\ x \notin U /\ U \union {x} = T
    BY <2>2
  <2>4. Cardinality(U) = n
    <3>1. IsFiniteSet(T) /\ x \in T
      BY <1>1, <2>2
    <3>2. Cardinality(U) = Cardinality(T) - 1
      BY <3>1, FS_RemoveElement
    <3> QED BY <3>2, <2>1
  <2>5. U \in Q
    BY <1>3, <2>3, <2>4
  <2> QED BY <2>3, <2>5
<1> HIDE DEF N
<1>4. Cardinality(S) \in N
  BY <1>1, <1>2, <1>3, NatSetInduction
<1> QED BY <1>4 DEF N

-----------------------------------------------------------------------------
\* The values that a function takes on a finite set are finite in number.
LEMMA ImageIsFinite ==
  ASSUME NEW S, IsFiniteSet(S), NEW f
  PROVE  IsFiniteSet({f[x] : x \in S})
<1> DEFINE image(T) == {f[x] : x \in T}
           Q == {T \in SUBSET S : IsFiniteSet(image(T))}
<1>1. {} \in Q
  BY FS_EmptySet
<1>2. ASSUME NEW T \in SUBSET S, NEW x \in S, T \in Q, x \notin T
      PROVE  T \union {x} \in Q
  <2>1. image(T \union {x}) = image(T) \union {f[x]}
    OBVIOUS
  <2> HIDE DEF image
  <2>2. IsFiniteSet(image(T) \union {f[x]})
    BY <1>2, FS_AddElement
  <2>3. IsFiniteSet(image(T \union {x}))
    BY <2>1, <2>2
  <2> QED BY <2>3
<1> HIDE DEF Q
<1>3. S \in Q
  BY <1>1, <1>2, FiniteSetInduction
<1> QED BY <1>3 DEF Q

\* A finite set of integers has a least and a greatest element, and Min and Max are they.
LEMMA MinMaxExist ==
  ASSUME NEW S \in SUBSET Int, IsFiniteSet(S), S # {}
  PROVE  /\ Min(S) \in S /\ \A y \in S : Min(S) <= y
         /\ Max(S) \in S /\ \A y \in S : y <= Max(S)
<1> DEFINE Q == {T \in SUBSET S : T # {} => /\ \E x \in T : \A y \in T : x <= y
                                            /\ \E x \in T : \A y \in T : x >= y}
<1>1. {} \in Q
  OBVIOUS
<1>2. ASSUME NEW T \in SUBSET S, NEW e \in S, T \in Q, e \notin T
      PROVE  T \union {e} \in Q
  <2>1. CASE T = {}
    BY <2>1
  <2>2. CASE T # {}
    <3>1. PICK least \in T : \A y \in T : least <= y
      BY <1>2, <2>2
    <3>2. PICK greatest \in T : \A y \in T : greatest >= y
      BY <1>2, <2>2
    <3>3. \E x \in T \union {e} : \A y \in T \union {e} : x <= y
      <4>1. CASE least <= e
        BY <3>1, <4>1
      <4>2. CASE ~(least <= e)
        BY <3>1, <4>2
      <4> QED BY <4>1, <4>2
    <3>4. \E x \in T \union {e} : \A y \in T \union {e} : x >= y
      <4>1. CASE greatest >= e
        BY <3>2, <4>1
      <4>2. CASE ~(greatest >= e)
        BY <3>2, <4>2
      <4> QED BY <4>1, <4>2
    <3> QED BY <3>3, <3>4
  <2> QED BY <2>1, <2>2
<1> HIDE DEF Q
<1>3. S \in Q
  BY <1>1, <1>2, FiniteSetInduction
<1>4. /\ \E x \in S : \A y \in S : x <= y
      /\ \E x \in S : \A y \in S : x >= y
  BY <1>3 DEF Q
<1> QED BY <1>4 DEF Min, Max

-----------------------------------------------------------------------------
Sum(f, S) == MapThenSumSet(LAMBDA x : f[x], S)

Pick(s) == CHOOSE x \in s : TRUE

\* The recursion of the fold, over the subsets of S.
Folding(f, S) ==
  CHOOSE iter : iter = [s \in SUBSET S |->
                          IF s = {} THEN 0 ELSE f[Pick(s)] + iter[s \ {Pick(s)}]]

\* The sum is the value of that recursion at the whole set.
LEMMA SumIsFolding ==
  ASSUME NEW f, NEW S
  PROVE  Sum(f, S) = Folding(f, S)[S]
BY DEF Sum, MapThenSumSet, MapThenFoldSet, Folding, Pick

\* The recursion is well founded: there is a function that satisfies it.
LEMMA FoldingExists ==
  ASSUME NEW f, NEW S, IsFiniteSet(S), NEW T \in SUBSET S
  PROVE  Folding(f, S)[T] =
           IF T = {} THEN 0 ELSE f[Pick(T)] + Folding(f, S)[T \ {Pick(T)}]
<1> DEFINE upTo(n) == {s \in SUBSET S : Cardinality(s) <= n}
           next(g, U) == [s \in U |-> IF s = {} THEN 0 ELSE f[Pick(s)] + g[s \ {Pick(s)}]]
           N == {n \in Nat : \E g : g = next(g, upTo(n))}
<1>1. \A s \in SUBSET S : IsFiniteSet(s) /\ Cardinality(s) \in Nat
  BY FS_Subset, FS_CardinalityType
<1>2. \A s \in SUBSET S : s # {} => /\ Pick(s) \in s
                                    /\ s \ {Pick(s)} \in SUBSET S
                                    /\ Cardinality(s \ {Pick(s)}) = Cardinality(s) - 1
  <2> SUFFICES ASSUME NEW s \in SUBSET S, s # {}
               PROVE  Pick(s) \in s /\ Cardinality(s \ {Pick(s)}) = Cardinality(s) - 1
    OBVIOUS
  <2>1. Pick(s) \in s
    BY DEF Pick
  <2> QED BY <2>1, <1>1, FS_RemoveElement
<1>3. 0 \in N
  <2>1. \A s \in upTo(0) : s = {}
    BY <1>1, FS_EmptySet
  <2> DEFINE g0 == [s \in upTo(0) |-> 0]
  <2>2. g0 = next(g0, upTo(0))
    BY <2>1
  <2> QED BY <2>2
<1>4. ASSUME NEW n \in Nat, n \in N PROVE n + 1 \in N
  <2>1. PICK g : g = next(g, upTo(n))
    BY <1>4
  <2> DEFINE h == next(g, upTo(n + 1))
  <2>2. upTo(n) \subseteq upTo(n + 1)
    BY <1>1
  <2>3. \A s \in upTo(n) : g[s] = h[s]
    <3> SUFFICES ASSUME NEW s \in upTo(n) PROVE g[s] = h[s]
      OBVIOUS
    <3>1. g[s] = IF s = {} THEN 0 ELSE f[Pick(s)] + g[s \ {Pick(s)}]
      BY <2>1, Zenon
    <3>2. s \in upTo(n + 1)
      BY <2>2
    <3>3. h[s] = IF s = {} THEN 0 ELSE f[Pick(s)] + g[s \ {Pick(s)}]
      BY <3>2, Zenon
    <3> QED BY <3>1, <3>3
  <2>4. \A s \in upTo(n + 1) : s # {} => s \ {Pick(s)} \in upTo(n)
    BY <1>1, <1>2
  <2>5. h = next(h, upTo(n + 1))
    BY <2>3, <2>4
  <2>6. n + 1 \in Nat
    OBVIOUS
  <2> HIDE DEF h, next, upTo
  <2> QED BY <2>5, <2>6
<1> HIDE DEF N
<1>5. Cardinality(S) \in N
  BY <1>1, <1>3, <1>4, NatSetInduction
<1>6. upTo(Cardinality(S)) = SUBSET S
  BY FS_Subset
<1>7. \E g : g = next(g, SUBSET S)
  BY <1>5, <1>6 DEF N
<1> DEFINE F == Folding(f, S)
<1>8. F = [s \in SUBSET S |-> IF s = {} THEN 0 ELSE f[Pick(s)] + F[s \ {Pick(s)}]]
  BY <1>7 DEF Folding
<1> HIDE DEF F
<1>9. F[T] = IF T = {} THEN 0 ELSE f[Pick(T)] + F[T \ {Pick(T)}]
  BY <1>8, Zenon
<1> QED BY <1>9 DEF F

\* The value at a set does not depend on the set the recursion started from.
LEMMA FoldingUnique ==
  ASSUME NEW f, NEW S, IsFiniteSet(S), NEW T \in SUBSET S
  PROVE  Folding(f, S)[T] = Folding(f, T)[T]
<1> DEFINE F == Folding(f, S)
           G == Folding(f, T)
           N == {n \in Nat : \A s \in SUBSET T : Cardinality(s) = n => F[s] = G[s]}
<1>1. IsFiniteSet(T) /\ \A s \in SUBSET T : IsFiniteSet(s) /\ Cardinality(s) \in Nat
  BY FS_Subset, FS_CardinalityType
<1>2. \A s \in SUBSET T :
        /\ F[s] = IF s = {} THEN 0 ELSE f[Pick(s)] + F[s \ {Pick(s)}]
        /\ G[s] = IF s = {} THEN 0 ELSE f[Pick(s)] + G[s \ {Pick(s)}]
  <2> SUFFICES ASSUME NEW s \in SUBSET T
               PROVE  /\ F[s] = IF s = {} THEN 0 ELSE f[Pick(s)] + F[s \ {Pick(s)}]
                      /\ G[s] = IF s = {} THEN 0 ELSE f[Pick(s)] + G[s \ {Pick(s)}]
    OBVIOUS
  <2>1. s \in SUBSET S
    OBVIOUS
  <2>2. F[s] = IF s = {} THEN 0 ELSE f[Pick(s)] + F[s \ {Pick(s)}]
    BY <2>1, FoldingExists, SMTT(25)
  <2>3. G[s] = IF s = {} THEN 0 ELSE f[Pick(s)] + G[s \ {Pick(s)}]
    BY <1>1, FoldingExists
  <2> QED BY <2>2, <2>3
<1> HIDE DEF F, G
<1>3. 0 \in N
  BY <1>1, <1>2, FS_EmptySet
<1>4. ASSUME NEW n \in Nat, n \in N PROVE n + 1 \in N
  <2>1. SUFFICES ASSUME NEW s \in SUBSET T, Cardinality(s) = n + 1 PROVE F[s] = G[s]
    OBVIOUS
  <2>2. s # {}
    BY <2>1, FS_EmptySet
  <2>3. Pick(s) \in s
    BY <2>2 DEF Pick
  <2>4. s \ {Pick(s)} \in SUBSET T /\ Cardinality(s \ {Pick(s)}) = n
    BY <1>1, <2>1, <2>3, FS_RemoveElement
  <2>5. F[s \ {Pick(s)}] = G[s \ {Pick(s)}]
    BY <1>4, <2>4
  <2> QED BY <1>2, <2>2, <2>5
<1> HIDE DEF N
<1>5. Cardinality(T) \in N
  BY <1>1, <1>3, <1>4, NatSetInduction
<1> QED BY <1>5 DEF N, F, G

\* The sum of a set: nothing, or the element the fold picks and the sum of the others.
LEMMA SumEquation ==
  ASSUME NEW f, NEW S, IsFiniteSet(S)
  PROVE  /\ Sum(f, {}) = 0
         /\ S # {} => /\ Pick(S) \in S
                      /\ Sum(f, S) = f[Pick(S)] + Sum(f, S \ {Pick(S)})
<1>1. Sum(f, {}) = 0
  <2>1. IsFiniteSet({}) /\ {} \in SUBSET {}
    BY FS_EmptySet
  <2>2. Folding(f, {})[{}] = 0
    BY <2>1, FoldingExists
  <2> QED BY <2>2, SumIsFolding
<1>2. ASSUME S # {}
      PROVE  Pick(S) \in S /\ Sum(f, S) = f[Pick(S)] + Sum(f, S \ {Pick(S)})
  <2> DEFINE R == S \ {Pick(S)}
  <2>1. Pick(S) \in S
    BY <1>2 DEF Pick
  <2>2. S \in SUBSET S /\ R \in SUBSET S
    OBVIOUS
  <2>3. Folding(f, S)[S] = f[Pick(S)] + Folding(f, S)[R]
    BY <1>2, <2>2, FoldingExists
  <2> HIDE DEF R
  <2>4. Folding(f, S)[R] = Folding(f, R)[R]
    BY <2>2, FoldingUnique
  <2>5. Sum(f, S) = f[Pick(S)] + Sum(f, R)
    BY <2>3, <2>4, SumIsFolding
  <2> QED BY <2>1, <2>5 DEF R
<1> QED BY <1>1, <1>2
\* Without one of its elements a set has one element less.
LEMMA RemoveOne ==
  ASSUME NEW T, IsFiniteSet(T), NEW x \in T, NEW n \in Nat, Cardinality(T) = n + 1
  PROVE  Cardinality(T \ {x}) = n
BY FS_RemoveElement

\* A sum of natural numbers is one.
LEMMA SumType ==
  ASSUME NEW f, NEW S, IsFiniteSet(S), \A x \in S : f[x] \in Nat
  PROVE  Sum(f, S) \in Nat
<1> DEFINE N == {n \in Nat : \A T \in SUBSET S : Cardinality(T) = n => Sum(f, T) \in Nat}
<1>1. \A T \in SUBSET S : IsFiniteSet(T) /\ Cardinality(T) \in Nat
  BY FS_Subset, FS_CardinalityType
<1>2. 0 \in N
  <2> SUFFICES ASSUME NEW T \in SUBSET S, Cardinality(T) = 0 PROVE Sum(f, T) \in Nat
    OBVIOUS
  <2>1. T = {}
    BY <1>1, FS_EmptySet
  <2> QED BY <1>1, <2>1, SumEquation
<1>3. ASSUME NEW n \in Nat, n \in N PROVE n + 1 \in N
  <2>1. SUFFICES ASSUME NEW T \in SUBSET S, Cardinality(T) = n + 1 PROVE Sum(f, T) \in Nat
    OBVIOUS
  <2>2. IsFiniteSet(T) /\ T # {}
    BY <1>1, <2>1, FS_EmptySet
  <2>3. Pick(T) \in T /\ Sum(f, T) = f[Pick(T)] + Sum(f, T \ {Pick(T)})
    BY <2>2, SumEquation
  <2>4. Cardinality(T \ {Pick(T)}) = n
    BY <2>1, <2>2, <2>3, RemoveOne
  <2>5. Sum(f, T \ {Pick(T)}) \in Nat
    BY <1>3, <2>4
  <2> QED BY <2>3, <2>5
<1> HIDE DEF N
<1>4. Cardinality(S) \in N
  BY <1>1, <1>2, <1>3, NatSetInduction
<1> QED BY <1>4 DEF N

\* A sum of integers is one.
LEMMA IntegerSumType ==
  ASSUME NEW f, NEW S, IsFiniteSet(S), \A x \in S : f[x] \in Int
  PROVE  Sum(f, S) \in Int
<1> DEFINE N == {n \in Nat : \A T \in SUBSET S : Cardinality(T) = n => Sum(f, T) \in Int}
<1>1. \A T \in SUBSET S : IsFiniteSet(T) /\ Cardinality(T) \in Nat
  BY FS_Subset, FS_CardinalityType
<1>2. 0 \in N
  <2> SUFFICES ASSUME NEW T \in SUBSET S, Cardinality(T) = 0 PROVE Sum(f, T) \in Int
    OBVIOUS
  <2>1. T = {}
    BY <1>1, FS_EmptySet
  <2>2. Sum(f, T) = 0
    BY <1>1, <2>1, SumEquation
  <2> QED BY <2>2
<1>3. ASSUME NEW n \in Nat, n \in N PROVE n + 1 \in N
  <2>1. SUFFICES ASSUME NEW T \in SUBSET S, Cardinality(T) = n + 1 PROVE Sum(f, T) \in Int
    OBVIOUS
  <2>2. IsFiniteSet(T) /\ T # {}
    BY <1>1, <2>1, FS_EmptySet
  <2>3. Pick(T) \in T /\ Sum(f, T) = f[Pick(T)] + Sum(f, T \ {Pick(T)})
    BY <2>2, SumEquation
  <2>4. Cardinality(T \ {Pick(T)}) = n
    BY <2>1, <2>2, <2>3, RemoveOne
  <2>5. Sum(f, T \ {Pick(T)}) \in Int
    BY <1>3, <2>4
  <2> QED BY <2>3, <2>5
<1> HIDE DEF N
<1>4. Cardinality(S) \in N
  BY <1>1, <1>2, <1>3, NatSetInduction
<1> QED BY <1>4 DEF N

\* The order in which the fold picks the elements does not matter: any of them can be
\* split off.
LEMMA IntegerSumRemove ==
  ASSUME NEW f, NEW S, IsFiniteSet(S), \A x \in S : f[x] \in Int, NEW e \in S
  PROVE  Sum(f, S) = f[e] + Sum(f, S \ {e})
<1> DEFINE N == {n \in Nat : \A T \in SUBSET S : Cardinality(T) = n =>
                               \A x \in T : Sum(f, T) = f[x] + Sum(f, T \ {x})}
<1>1. \A T \in SUBSET S : IsFiniteSet(T) /\ Cardinality(T) \in Nat /\ Sum(f, T) \in Int
  BY FS_Subset, FS_CardinalityType, IntegerSumType
<1>2. 0 \in N
  BY <1>1, FS_EmptySet
<1>3. ASSUME NEW n \in Nat, n \in N PROVE n + 1 \in N
  <2>1. SUFFICES ASSUME NEW T \in SUBSET S, Cardinality(T) = n + 1, NEW x \in T
                 PROVE  Sum(f, T) = f[x] + Sum(f, T \ {x})
    OBVIOUS
  <2> DEFINE p == Pick(T)
  <2>2. IsFiniteSet(T) /\ T # {}
    BY <1>1
  <2>3. p \in T /\ Sum(f, T) = f[p] + Sum(f, T \ {p})
    BY <2>2, SumEquation
  <2> HIDE DEF p
  <2>4. CASE x = p
    BY <2>3, <2>4
  <2>5. CASE x # p
    <3>1. Cardinality(T \ {p}) = n /\ Cardinality(T \ {x}) = n
      BY <2>1, <2>2, <2>3, RemoveOne
    <3>2. x \in T \ {p} /\ p \in T \ {x}
      BY <2>3, <2>5
    <3>3. T \ {p} \in SUBSET S /\ T \ {x} \in SUBSET S
      OBVIOUS
    <3>4. Sum(f, T \ {p}) = f[x] + Sum(f, (T \ {p}) \ {x})
      BY <1>3, <3>1, <3>2, <3>3
    <3>5. Sum(f, T \ {x}) = f[p] + Sum(f, (T \ {x}) \ {p})
      BY <1>3, <3>1, <3>2, <3>3
    <3>6. (T \ {p}) \ {x} = (T \ {x}) \ {p}
      OBVIOUS
    <3> DEFINE r == Sum(f, (T \ {x}) \ {p})
    <3>7. r \in Int /\ f[x] \in Int /\ f[p] \in Int
      BY <1>1, <2>3
    <3>8. Sum(f, T) = f[p] + (f[x] + r) /\ Sum(f, T \ {x}) = f[p] + r
      BY <2>3, <3>4, <3>5, <3>6
    <3> HIDE DEF r
    <3> QED BY <3>7, <3>8
  <2> QED BY <2>4, <2>5
<1> HIDE DEF N
<1>4. Cardinality(S) \in N
  BY <1>1, <1>2, <1>3, NatSetInduction
<1> QED BY <1>4 DEF N

\* So it is with natural numbers.
LEMMA SumRemove ==
  ASSUME NEW f, NEW S, IsFiniteSet(S), \A x \in S : f[x] \in Nat, NEW e \in S
  PROVE  Sum(f, S) = f[e] + Sum(f, S \ {e})
<1>1. \A x \in S : f[x] \in Int
  OBVIOUS
<1> QED BY <1>1, IntegerSumRemove

\* A new element adds its summand.
LEMMA SumAdd ==
  ASSUME NEW f, NEW S, IsFiniteSet(S), NEW e, e \notin S, \A x \in S \union {e} : f[x] \in Nat
  PROVE  Sum(f, S \union {e}) = f[e] + Sum(f, S)
<1>1. IsFiniteSet(S \union {e}) /\ (S \union {e}) \ {e} = S
  BY FS_AddElement
<1> QED BY <1>1, SumRemove

\* Integers: a new element adds its summand.
LEMMA IntegerSumAdd ==
  ASSUME NEW f, NEW S, IsFiniteSet(S), NEW e, e \notin S, \A x \in S \union {e} : f[x] \in Int
  PROVE  Sum(f, S \union {e}) = f[e] + Sum(f, S)
<1>1. IsFiniteSet(S \union {e}) /\ (S \union {e}) \ {e} = S
  BY FS_AddElement
<1> QED BY <1>1, IntegerSumRemove

\* Only the summands count.
LEMMA SumEqual ==
  ASSUME NEW f, NEW g, NEW S, IsFiniteSet(S),
         \A x \in S : f[x] \in Nat /\ f[x] = g[x]
  PROVE  Sum(f, S) = Sum(g, S)
<1> DEFINE Q == {T \in SUBSET S : Sum(f, T) = Sum(g, T)}
<1>1. \A T \in SUBSET S : IsFiniteSet(T)
  BY FS_Subset
<1>2. {} \in Q
  BY <1>1, SumEquation
<1>3. ASSUME NEW T \in SUBSET S, NEW x \in S, T \in Q, x \notin T
      PROVE  T \union {x} \in Q
  <2>1. Sum(f, T \union {x}) = f[x] + Sum(f, T)
    BY <1>1, <1>3, SumAdd
  <2>2. Sum(g, T \union {x}) = g[x] + Sum(g, T)
    BY <1>1, <1>3, SumAdd
  <2> QED BY <1>3, <2>1, <2>2
<1> HIDE DEF Q
<1>4. S \in Q
  BY <1>2, <1>3, FiniteSetInduction
<1> QED BY <1>4 DEF Q

\* The sum of two disjoint sets.
LEMMA SumUnion ==
  ASSUME NEW f, NEW S, NEW T, IsFiniteSet(S), IsFiniteSet(T), S \intersect T = {},
         \A x \in S \union T : f[x] \in Nat
  PROVE  Sum(f, S \union T) = Sum(f, S) + Sum(f, T)
<1> DEFINE Q == {U \in SUBSET T : Sum(f, S \union U) = Sum(f, S) + Sum(f, U)}
<1>1. \A U \in SUBSET T : IsFiniteSet(U) /\ IsFiniteSet(S \union U)
  BY FS_Subset, FS_Union
<1>2. \A U \in SUBSET T : Sum(f, U) \in Nat /\ Sum(f, S) \in Nat
  BY <1>1, SumType
<1>3. {} \in Q
  <2>1. Sum(f, {}) = 0 /\ S \union {} = S
    BY SumEquation
  <2> QED BY <1>2, <2>1
<1>4. ASSUME NEW U \in SUBSET T, NEW x \in T, U \in Q, x \notin U
      PROVE  U \union {x} \in Q
  <2>1. Sum(f, U \union {x}) = f[x] + Sum(f, U)
    BY <1>1, <1>4, SumAdd
  <2>2. Sum(f, (S \union U) \union {x}) = f[x] + Sum(f, S \union U)
    BY <1>1, <1>4, SumAdd
  <2>3. S \union (U \union {x}) = (S \union U) \union {x}
    OBVIOUS
  <2>4. Sum(f, S \union U) = Sum(f, S) + Sum(f, U) /\ f[x] \in Nat
    BY <1>4
  <2>5. Sum(f, S \union (U \union {x})) = Sum(f, S) + Sum(f, U \union {x})
    BY <1>2, <2>1, <2>2, <2>3, <2>4
  <2> QED BY <2>5
<1> HIDE DEF Q
<1>5. T \in Q
  BY <1>3, <1>4, FiniteSetInduction
<1> QED BY <1>5 DEF Q

\* More elements give no smaller sum.
LEMMA SumSubset ==
  ASSUME NEW f, NEW S, IsFiniteSet(S), \A x \in S : f[x] \in Nat, NEW T \in SUBSET S
  PROVE  Sum(f, T) <= Sum(f, S)
<1>1. IsFiniteSet(T) /\ IsFiniteSet(S \ T) /\ T \union (S \ T) = S
  BY FS_Subset
<1>2. Sum(f, T) \in Nat /\ Sum(f, S \ T) \in Nat
  BY <1>1, SumType
<1>3. Sum(f, T \union (S \ T)) = Sum(f, T) + Sum(f, S \ T)
  BY <1>1, SumUnion
<1>4. Sum(f, S) = Sum(f, T) + Sum(f, S \ T)
  BY <1>1, <1>3, Zenon
<1> QED BY <1>2, <1>4

\* Zeros do not count.
LEMMA SumZeros ==
  ASSUME NEW f, NEW S, IsFiniteSet(S), \A x \in S : f[x] = 0
  PROVE  Sum(f, S) = 0
<1> DEFINE Q == {T \in SUBSET S : Sum(f, T) = 0}
<1>1. \A T \in SUBSET S : IsFiniteSet(T)
  BY FS_Subset
<1>2. {} \in Q
  BY <1>1, SumEquation
<1>3. ASSUME NEW T \in SUBSET S, NEW x \in S, T \in Q, x \notin T
      PROVE  T \union {x} \in Q
  <2>1. Sum(f, T \union {x}) = f[x] + Sum(f, T)
    BY <1>1, <1>3, SumAdd
  <2> QED BY <1>3, <2>1
<1> HIDE DEF Q
<1>4. S \in Q
  BY <1>2, <1>3, FiniteSetInduction
<1> QED BY <1>4 DEF Q

\* A sum that leaves the zeros out is the sum.
LEMMA SumSupport ==
  ASSUME NEW f, NEW S, IsFiniteSet(S), \A x \in S : f[x] \in Nat
  PROVE  Sum(f, {x \in S : f[x] > 0}) = Sum(f, S)
<1> DEFINE P == {x \in S : f[x] > 0}
           Z == {x \in S : f[x] = 0}
<1>1. IsFiniteSet(P) /\ IsFiniteSet(Z) /\ P \intersect Z = {} /\ P \union Z = S
  BY FS_Subset
<1>2. Sum(f, P \union Z) = Sum(f, P) + Sum(f, Z)
  BY <1>1, SumUnion
<1>3. Sum(f, Z) = 0
  BY <1>1, SumZeros
<1>4. Sum(f, P) \in Nat
  BY <1>1, SumType
<1>5. Sum(f, S) = Sum(f, P) + Sum(f, Z)
  BY <1>1, <1>2, Zenon
<1> HIDE DEF Z
<1>6. Sum(f, P) = Sum(f, S)
  BY <1>3, <1>4, <1>5
<1> QED BY <1>6

\* One more at one element is one more in the sum.
LEMMA SumIncrement ==
  ASSUME NEW f, NEW g, NEW S, IsFiniteSet(S), \A x \in S : f[x] \in Nat, NEW e \in S,
         g[e] = f[e] + 1, \A x \in S \ {e} : g[x] = f[x]
  PROVE  Sum(g, S) = Sum(f, S) + 1
<1>1. IsFiniteSet(S \ {e})
  BY FS_Subset
<1>2. \A x \in S : g[x] \in Nat
  OBVIOUS
<1>3. Sum(f, S) = f[e] + Sum(f, S \ {e})
  BY SumRemove
<1>4. Sum(g, S) = g[e] + Sum(g, S \ {e})
  BY <1>2, SumRemove
<1>5. Sum(f, S \ {e}) = Sum(g, S \ {e})
  BY <1>1, SumEqual
<1>6. Sum(f, S \ {e}) \in Nat
  BY <1>1, SumType
<1> QED BY <1>3, <1>4, <1>5, <1>6

\* Summing the sums of the members of a disjoint family is summing its union U.
LEMMA SumFamily ==
  ASSUME NEW f, NEW S, IsFiniteSet(S), \A x \in S : f[x] \in Nat,
         NEW I, IsFiniteSet(I), NEW F \in [I -> SUBSET S],
         \A i, j \in I : i # j => F[i] \intersect F[j] = {},
         NEW h, \A i \in I : h[i] = Sum(f, F[i]),
         NEW U \in SUBSET S, \A x \in S : x \in U <=> \E i \in I : x \in F[i]
  PROVE  Sum(h, I) = Sum(f, U)
<1> DEFINE of(J) == {x \in S : \E i \in J : x \in F[i]}
           Q == {J \in SUBSET I : Sum(h, J) = Sum(f, of(J))}
<1>1. \A J \in SUBSET I : IsFiniteSet(J)
  BY FS_Subset
<1>2. \A T \in SUBSET S : IsFiniteSet(T) /\ Sum(f, T) \in Nat
  BY FS_Subset, SumType
<1>3. {} \in Q
  <2>1. of({}) = {}
    OBVIOUS
  <2>2. Sum(h, {}) = 0 /\ Sum(f, {}) = 0
    BY <1>1, SumEquation
  <2>3. Sum(h, {}) = Sum(f, of({}))
    BY <2>1, <2>2
  <2> QED BY <2>3
<1>4. ASSUME NEW J \in SUBSET I, NEW i \in I, J \in Q, i \notin J
      PROVE  J \union {i} \in Q
  <2> DEFINE A == of(J)
             B == F[i]
  <2>1. of(J \union {i}) = A \union B
    OBVIOUS
  <2>2. A \intersect B = {} /\ A \in SUBSET S /\ B \in SUBSET S
    BY <1>4
  <2>3. Sum(h, J) = Sum(f, A) /\ h[i] = Sum(f, B)
    BY <1>4
  <2>4. \A j \in I : h[j] \in Nat
    BY <1>2
  <2> HIDE DEF A, B, of
  <2>5. Sum(h, J \union {i}) = h[i] + Sum(h, J)
    BY <1>1, <1>4, <2>4, SumAdd
  <2>6. Sum(f, A \union B) = Sum(f, A) + Sum(f, B)
    BY <1>2, <2>2, SumUnion
  <2>7. Sum(f, A) \in Nat /\ Sum(f, B) \in Nat
    BY <1>2, <2>2
  <2>8. Sum(h, J \union {i}) = Sum(f, A \union B)
    BY <2>3, <2>5, <2>6, <2>7
  <2>9. Sum(h, J \union {i}) = Sum(f, of(J \union {i}))
    BY <2>1, <2>8, Zenon
  <2> QED BY <2>9
<1> HIDE DEF Q
<1>5. I \in Q
  BY <1>3, <1>4, FiniteSetInduction
<1>6. of(I) = U
  OBVIOUS
<1> HIDE DEF of
<1> QED BY <1>5, <1>6 DEF Q

\* The sum of one number is that number.
LEMMA SumSetOne ==
  ASSUME NEW e \in Nat
  PROVE  SumSet({e}) = e
<1> DEFINE iter == CHOOSE iter : iter = [s \in SUBSET {e} |->
                     IF s = {} THEN 0 ELSE Pick(s) + iter[s \ {Pick(s)}]]
           g == [s \in SUBSET {e} |-> IF s = {} THEN 0 ELSE e]
<1>1. SumSet({e}) = iter[{e}]
  BY DEF SumSet, FoldSet, MapThenFoldSet, Pick
<1>2. \A s \in SUBSET {e} : s # {} => Pick(s) = e /\ s \ {Pick(s)} = {}
  BY DEF Pick
<1>3. g = [s \in SUBSET {e} |-> IF s = {} THEN 0 ELSE Pick(s) + g[s \ {Pick(s)}]]
  BY <1>2
<1> HIDE DEF g
<1>4. iter = [s \in SUBSET {e} |-> IF s = {} THEN 0 ELSE Pick(s) + iter[s \ {Pick(s)}]]
  BY <1>3
<1> HIDE DEF iter
<1>5. iter[{}] = 0
  BY <1>4, Zenon
<1>6. iter[{e}] = Pick({e}) + iter[{e} \ {Pick({e})}]
  BY <1>4, Zenon
<1>7. iter[{e}] = e
  BY <1>2, <1>5, <1>6
<1> QED BY <1>1, <1>7

-----------------------------------------------------------------------------
(***************************************************************************)
(* Sequences.                                                              *)
(***************************************************************************)
\* A sequence is defined on its indices, with values in its set.
LEMMA SequenceType ==
  ASSUME NEW S, NEW s \in Seq(S)
  PROVE  Len(s) \in Nat /\ DOMAIN s = 1..Len(s) /\ \A i \in DOMAIN s : s[i] \in S
OBVIOUS

\* A function on 1..m is a sequence of length m.
LEMMA FunctionIsSeq ==
  ASSUME NEW A, NEW m \in Nat, NEW h \in [1..m -> A]
  PROVE  h \in Seq(A) /\ Len(h) = m
OBVIOUS

\* Sequences are joined in any order of the joins.
LEMMA ConcatAssociative ==
  ASSUME NEW S, NEW s \in Seq(S), NEW t \in Seq(S), NEW u \in Seq(S)
  PROVE  (s \o t) \o u = s \o (t \o u)
OBVIOUS

\* Two sequences joined: the elements of the first, then those of the second.
LEMMA ConcatType ==
  ASSUME NEW S, NEW s \in Seq(S), NEW t \in Seq(S)
  PROVE  /\ s \o t \in Seq(S)
         /\ Len(s) \in Nat
         /\ Len(s \o t) = Len(s) + Len(t)
         /\ \A i \in 1..Len(s) : (s \o t)[i] = s[i]
         /\ \A i \in 1..Len(t) : (s \o t)[Len(s) + i] = t[i]
OBVIOUS

\* The empty sequence adds nothing on either side.
LEMMA ConcatEmpty ==
  ASSUME NEW S, NEW s \in Seq(S)
  PROVE  s \o << >> = s /\ << >> \o s = s
OBVIOUS

\* A sequence is the function of its entries.
LEMMA SeqAsFunction ==
  ASSUME NEW S, NEW s \in Seq(S)
  PROVE  s = [i \in 1..Len(s) |-> s[i]]
OBVIOUS

\* The values of FlattenSeq's recursion on the prefixes of s.
Flattening(s, g) ==
  g = [i \in 1..Len(s) |-> IF i = 1 THEN s[i] ELSE g[i - 1] \o s[i]]

\* What the recursion gives at one index.
LEMMA FlatteningValue ==
  ASSUME NEW s, NEW g, Flattening(s, g), NEW i \in 1..Len(s)
  PROVE  g[i] = IF i = 1 THEN s[i] ELSE g[i - 1] \o s[i]
BY Zenon DEF Flattening

\* The recursion of FlattenSeq has a solution.
LEMMA FlatteningExists ==
  ASSUME NEW S, NEW s \in Seq(Seq(S))
  PROVE  \E g : Flattening(s, g)
<1> DEFINE upTo(n, g) == g = [i \in 1..n |-> IF i = 1 THEN s[i] ELSE g[i - 1] \o s[i]]
           N == {n \in Nat : \E g : upTo(n, g)}
<1>1. 0 \in N
  <2>1. upTo(0, << >>)
    OBVIOUS
  <2> QED BY <2>1
<1>2. ASSUME NEW n \in Nat, n \in N PROVE n + 1 \in N
  <2>1. PICK g : upTo(n, g)
    BY <1>2
  <2> DEFINE h == [i \in 1..(n + 1) |->
                     IF i \in 1..n THEN g[i]
                     ELSE IF i = 1 THEN s[i] ELSE g[i - 1] \o s[i]]
  <2>2. \A i \in 1..(n + 1) : h[i] = IF i = 1 THEN s[i] ELSE h[i - 1] \o s[i]
    <3>1. SUFFICES ASSUME NEW i \in 1..(n + 1)
                   PROVE  h[i] = IF i = 1 THEN s[i] ELSE h[i - 1] \o s[i]
      OBVIOUS
    <3>2. CASE i = n + 1
      BY <3>2
    <3>3. CASE i \in 1..n
      <4>1. g[i] = IF i = 1 THEN s[i] ELSE g[i - 1] \o s[i]
        BY <3>3, <2>1
      <4>2. h[i] = g[i] /\ (i # 1 => i - 1 \in 1..n)
        BY <3>3
      <4>3. i # 1 => h[i - 1] = g[i - 1]
        BY <4>2
      <4> HIDE DEF h
      <4> QED BY <4>1, <4>2, <4>3
    <3> QED BY <3>2, <3>3
  <2>3. h = [i \in 1..(n + 1) |-> h[i]]
    OBVIOUS
  <2> HIDE DEF h
  <2>4. upTo(n + 1, h)
    BY <2>2, <2>3
  <2>5. \E f : upTo(n + 1, f)
    BY <2>4, Zenon
  <2>6. n + 1 \in Nat
    OBVIOUS
  <2> QED BY <2>5, <2>6, Zenon
<1> HIDE DEF N
<1>3. Len(s) \in N
  BY <1>1, <1>2, NatSetInduction, SMTT(25)
<1> QED BY <1>3 DEF N, Flattening

\* FlattenSeq is the last value of its recursion.
LEMMA FlattenIsFlattening ==
  ASSUME NEW S, NEW s \in Seq(Seq(S)), s # << >>
  PROVE  \E g : Flattening(s, g) /\ FlattenSeq(s) = g[Len(s)]
<1> DEFINE g == CHOOSE g : Flattening(s, g)
<1>1. Flattening(s, g)
  BY FlatteningExists, Zenon
<1>2. Len(s) # 0
  OBVIOUS
<1>3. FlattenSeq(s) = g[Len(s)]
  BY <1>2, Zenon DEF FlattenSeq, Flattening
<1> QED BY <1>1, <1>3

\* s is a first part of t.
FirstPart(s, t) == \A i \in 1..Len(s) : i \in 1..Len(t) /\ s[i] = t[i]

\* The recursion on a first part of t is the recursion on t.
LEMMA FlatteningsAgree ==
  ASSUME NEW S, NEW s \in Seq(Seq(S)), NEW t \in Seq(Seq(S)), NEW g, NEW h,
         Flattening(s, g), Flattening(t, h),
         FirstPart(s, t)
  PROVE  \A i \in 1..Len(s) : g[i] = h[i]
<1> DEFINE N == {k \in Nat : k \in 1..Len(s) => g[k] = h[k]}
<1>1. 0 \in N
  OBVIOUS
<1>2. ASSUME NEW k \in Nat, k \in N PROVE k + 1 \in N
  <2>1. SUFFICES ASSUME k + 1 \in 1..Len(s) PROVE g[k + 1] = h[k + 1]
    OBVIOUS
  <2>2. k + 1 \in 1..Len(s) /\ k + 1 \in 1..Len(t) /\ s[k + 1] = t[k + 1]
        /\ (k + 1) - 1 = k
    BY <2>1 DEF FirstPart
  <2>3. g[k + 1] = IF k + 1 = 1 THEN s[k + 1] ELSE g[k] \o s[k + 1]
    BY <2>2 DEF Flattening
  <2>4. h[k + 1] = IF k + 1 = 1 THEN t[k + 1] ELSE h[k] \o t[k + 1]
    BY <2>2 DEF Flattening
  <2>5. k + 1 # 1 => g[k] = h[k]
    BY <1>2, <2>1
  <2> QED BY <2>2, <2>3, <2>4, <2>5, Zenon
<1> HIDE DEF N
<1>3. Nat \subseteq N
  BY <1>1, <1>2, NatSetInduction
<1>4. \A k \in N : k \in 1..Len(s) => g[k] = h[k]
  BY DEF N
<1>5. \A i \in 1..Len(s) : i \in Nat
  OBVIOUS
<1> QED BY <1>3, <1>4, <1>5

\* Sequences of S run together are a sequence of S.
LEMMA FlattenType ==
  ASSUME NEW S, NEW s \in Seq(Seq(S))
  PROVE  FlattenSeq(s) \in Seq(S)
<1>1. CASE s = << >>
  <2>1. FlattenSeq(s) = s
    BY <1>1 DEF FlattenSeq
  <2>2. << >> \in Seq(S)
    OBVIOUS
  <2> QED BY <1>1, <2>1, <2>2, Zenon
<1>2. CASE s # << >>
  <2>1. PICK g : Flattening(s, g) /\ FlattenSeq(s) = g[Len(s)]
    BY <1>2, FlattenIsFlattening
  <2> DEFINE N == {k \in Nat : k \in 1..Len(s) => g[k] \in Seq(S)}
  <2>2. 0 \in N
    OBVIOUS
  <2>3. ASSUME NEW k \in Nat, k \in N PROVE k + 1 \in N
    <3>1. SUFFICES ASSUME k + 1 \in 1..Len(s) PROVE g[k + 1] \in Seq(S)
      OBVIOUS
    <3>2. s[k + 1] \in Seq(S)
      BY <3>1
    <3>3. g[k + 1] = IF k + 1 = 1 THEN s[k + 1] ELSE g[k] \o s[k + 1]
      BY <2>1, <3>1, FlatteningValue
    <3>4. k + 1 # 1 => g[k] \in Seq(S)
      BY <2>3, <3>1
    <3>5. k + 1 # 1 => g[k] \o s[k + 1] \in Seq(S)
      BY <3>2, <3>4
    <3> QED BY <3>2, <3>3, <3>5
  <2> HIDE DEF N
  <2>4. Nat \subseteq N
    BY <2>2, <2>3, NatSetInduction
  <2>5. Len(s) \in Nat /\ Len(s) \in 1..Len(s)
    BY <1>2
  <2>6. g[Len(s)] \in Seq(S)
    BY <2>4, <2>5 DEF N
  <2> QED BY <2>1, <2>6
<1> QED BY <1>1, <1>2

\* Nothing is joined of no sequences.
LEMMA FlattenEmpty == FlattenSeq(<< >>) = << >>
BY DEF FlattenSeq

\* A further sequence goes to the end.
LEMMA FlattenAppend ==
  ASSUME NEW S, NEW s \in Seq(Seq(S)), NEW e \in Seq(S)
  PROVE  FlattenSeq(Append(s, e)) = FlattenSeq(s) \o e
<1>0. SUFFICES ASSUME NEW t, t = Append(s, e)
               PROVE  FlattenSeq(t) = FlattenSeq(s) \o e
  BY Zenon
<1>1. t \in Seq(Seq(S)) /\ t # << >> /\ Len(t) = Len(s) + 1 /\ t[Len(t)] = e
      /\ \A i \in 1..Len(s) : t[i] = s[i]
  <2>1. t \in Seq(Seq(S)) /\ Len(t) = Len(s) + 1
    BY <1>0
  <2>2. Len(s) + 1 # 0
    OBVIOUS
  <2>3. t[Len(s) + 1] = e /\ \A i \in 1..Len(s) : t[i] = s[i]
    BY <1>0
  <2> QED BY <2>1, <2>2, <2>3
<1>2. PICK h : Flattening(t, h) /\ FlattenSeq(t) = h[Len(t)]
  BY <1>1, FlattenIsFlattening
<1>3. h[Len(t)] = IF Len(t) = 1 THEN t[Len(t)] ELSE h[Len(t) - 1] \o t[Len(t)]
  <2>1. Len(t) \in 1..Len(t)
    BY <1>1
  <2> QED BY <1>2, <2>1, FlatteningValue, Zenon
<1>4. CASE s = << >>
  <2>1. FlattenSeq(s) \o e = e
    BY <1>4, FlattenEmpty
  <2>2. Len(t) = 1
    BY <1>1, <1>4
  <2> QED BY <1>1, <1>2, <1>3, <2>1, <2>2
<1>5. CASE s # << >>
  <2>1. PICK g : Flattening(s, g) /\ FlattenSeq(s) = g[Len(s)]
    BY <1>5, FlattenIsFlattening
  <2>2. Len(s) \in Nat /\ Len(s) >= 1 /\ Len(s) <= Len(t)
    BY <1>1, <1>5
  <2>5. FirstPart(s, t)
    BY <1>1 DEF FirstPart
  <2>3. \A i \in 1..Len(s) : g[i] = h[i]
    BY <1>1, <1>2, <2>1, <2>5, FlatteningsAgree
  <2>4. g[Len(s)] = h[Len(s)] /\ Len(t) # 1 /\ Len(t) - 1 = Len(s)
    BY <1>1, <2>2, <2>3
  <2> QED BY <1>1, <1>2, <1>3, <2>1, <2>4, Zenon
<1> QED BY <1>4, <1>5

\* Induction over the sequences of A, for a property that is given as the set Q of
\* the sequences that have it.
LEMMA SeqSetInduction ==
  ASSUME NEW A, NEW Q, << >> \in Q,
         \A s \in Seq(A), e \in A : s \in Q => Append(s, e) \in Q
  PROVE  Seq(A) \subseteq Q
<1> DEFINE N == {n \in Nat : \A s \in Seq(A) : Len(s) = n => s \in Q}
<1>1. 0 \in N
  <2>1. \A s \in Seq(A) : Len(s) = 0 => s = << >>
    OBVIOUS
  <2> QED BY <2>1
<1>2. ASSUME NEW n \in Nat, n \in N PROVE n + 1 \in N
  <2>1. SUFFICES ASSUME NEW s \in Seq(A), Len(s) = n + 1 PROVE s \in Q
    OBVIOUS
  <2> DEFINE front == SubSeq(s, 1, n)
  <2>2. front \in Seq(A) /\ Len(front) = n /\ s[n + 1] \in A
    BY <2>1
  <2>3. s = Append(front, s[n + 1])
    BY <2>1
  <2> HIDE DEF front
  <2>4. front \in Q
    BY <1>2, <2>2
  <2>5. Append(front, s[n + 1]) \in Q
    BY <2>2, <2>4
  <2> QED BY <2>3, <2>5
<1> HIDE DEF N
<1>3. Nat \subseteq N
  BY <1>1, <1>2, NatSetInduction
<1>4. SUFFICES ASSUME NEW s \in Seq(A) PROVE s \in Q
  OBVIOUS
<1>5. Len(s) \in N
  BY <1>3
<1> QED BY <1>5 DEF N

\* Two sequences of sequences, one behind the other.
LEMMA FlattenConcat ==
  ASSUME NEW S, NEW s \in Seq(Seq(S)), NEW t \in Seq(Seq(S))
  PROVE  FlattenSeq(s \o t) = FlattenSeq(s) \o FlattenSeq(t)
<1> DEFINE Q == {u \in Seq(Seq(S)) : FlattenSeq(s \o u) = FlattenSeq(s) \o FlattenSeq(u)}
<1>1. << >> \in Q
  <2>1. s \o << >> = s /\ << >> \in Seq(Seq(S))
    OBVIOUS
  <2>2. FlattenSeq(s) \o << >> = FlattenSeq(s)
    BY FlattenType
  <2> QED BY <2>1, <2>2, FlattenEmpty
<1>2. ASSUME NEW u \in Seq(Seq(S)), NEW e \in Seq(S), u \in Q
      PROVE  Append(u, e) \in Q
  <2>1. s \o Append(u, e) = Append(s \o u, e) /\ s \o u \in Seq(Seq(S))
        /\ Append(u, e) \in Seq(Seq(S))
    BY SMTT(25)
  <2>2. FlattenSeq(Append(s \o u, e)) = FlattenSeq(s \o u) \o e
    BY <2>1, FlattenAppend
  <2>3. FlattenSeq(Append(u, e)) = FlattenSeq(u) \o e
    BY FlattenAppend
  <2>4. FlattenSeq(s \o u) = FlattenSeq(s) \o FlattenSeq(u)
    BY <1>2
  <2>5. FlattenSeq(s) \in Seq(S) /\ FlattenSeq(u) \in Seq(S)
    BY FlattenType
  <2>6. (FlattenSeq(s) \o FlattenSeq(u)) \o e = FlattenSeq(s) \o (FlattenSeq(u) \o e)
    BY <2>5
  <2>7. FlattenSeq(s \o Append(u, e)) = FlattenSeq(s) \o FlattenSeq(Append(u, e))
    BY <2>1, <2>2, <2>3, <2>4, <2>6, Zenon
  <2> QED BY <2>1, <2>7
<1> HIDE DEF Q
<1>3. Seq(Seq(S)) \subseteq Q
  BY <1>1, <1>2, SeqSetInduction
<1>4. t \in Q
  BY <1>3
<1> QED BY <1>4 DEF Q

\* What occurs in the whole occurs in a part.
LEMMA FlattenMembers ==
  ASSUME NEW S, NEW s \in Seq(Seq(S)), NEW e
  PROVE  (\E j \in DOMAIN FlattenSeq(s) : FlattenSeq(s)[j] = e)
           <=> \E i \in DOMAIN s : \E j \in DOMAIN s[i] : s[i][j] = e
<1> DEFINE whole(u) == \E j \in DOMAIN FlattenSeq(u) : FlattenSeq(u)[j] = e
           part(u)  == \E i \in DOMAIN u : \E j \in DOMAIN u[i] : u[i][j] = e
           Q == {u \in Seq(Seq(S)) : whole(u) <=> part(u)}
<1>1. << >> \in Q
  <2>1. ~whole(<< >>)
    BY FlattenEmpty
  <2>2. ~part(<< >>)
    OBVIOUS
  <2> QED BY <2>1, <2>2
<1>2. ASSUME NEW u \in Seq(Seq(S)), NEW x \in Seq(S), u \in Q
      PROVE  Append(u, x) \in Q
  <2> DEFINE f == FlattenSeq(u)
  <2>1. f \in Seq(S)
    BY FlattenType
  <2>2. FlattenSeq(Append(u, x)) = f \o x
    BY FlattenAppend
  <2> HIDE DEF f
  <2>3. (\E j \in DOMAIN (f \o x) : (f \o x)[j] = e)
          <=> (\E j \in DOMAIN f : f[j] = e) \/ (\E j \in DOMAIN x : x[j] = e)
    <3>1. ASSUME NEW j \in DOMAIN (f \o x), (f \o x)[j] = e
          PROVE  (\E k \in DOMAIN f : f[k] = e) \/ (\E k \in DOMAIN x : x[k] = e)
      <4>1. CASE j <= Len(f)
        BY <2>1, <3>1, <4>1
      <4>2. CASE ~(j <= Len(f))
        <5>1. j - Len(f) \in DOMAIN x /\ x[j - Len(f)] = e
          BY <2>1, <3>1, <4>2
        <5> QED BY <5>1
      <4> QED BY <4>1, <4>2
    <3>2. ASSUME NEW k \in DOMAIN f, f[k] = e
          PROVE  k \in DOMAIN (f \o x) /\ (f \o x)[k] = e
      BY <2>1, <3>2
    <3>3. ASSUME NEW k \in DOMAIN x, x[k] = e
          PROVE  Len(f) + k \in DOMAIN (f \o x) /\ (f \o x)[Len(f) + k] = e
      BY <2>1, <3>3
    <3> QED BY <3>1, <3>2, <3>3
  <2>4. part(Append(u, x)) <=> part(u) \/ \E j \in DOMAIN x : x[j] = e
    <3>1. DOMAIN Append(u, x) = 1..(Len(u) + 1) /\ DOMAIN u = 1..Len(u)
          /\ Append(u, x)[Len(u) + 1] = x
          /\ \A i \in 1..Len(u) : Append(u, x)[i] = u[i]
      OBVIOUS
    <3>2. \A i : i \in 1..(Len(u) + 1) <=> i \in 1..Len(u) \/ i = Len(u) + 1
      OBVIOUS
    <3> QED BY <3>1, <3>2, Zenon
  <2>5. whole(u) <=> part(u)
    BY <1>2
  <2>6. whole(Append(u, x)) <=> part(Append(u, x))
    BY <2>2, <2>3, <2>4, <2>5, Zenon DEF f
  <2>7. Append(u, x) \in Seq(Seq(S))
    OBVIOUS
  <2> QED BY <2>6, <2>7, Zenon
<1> HIDE DEF Q
<1>3. Seq(Seq(S)) \subseteq Q
  BY <1>1, <1>2, SeqSetInduction
<1>4. s \in Q
  BY <1>3
<1> QED BY <1>4 DEF Q

\* Sequences of one element run together are the sequence of these.
LEMMA FlattenSingletons ==
  ASSUME NEW S, NEW s \in Seq(S)
  PROVE  FlattenSeq([i \in DOMAIN s |-> <<s[i]>>]) = s
<1> DEFINE each(u) == [i \in DOMAIN u |-> <<u[i]>>]
           Q == {u \in Seq(S) : FlattenSeq(each(u)) = u}
<1>1. << >> \in Q
  <2>1. each(<< >>) = << >> /\ << >> \in Seq(S)
    OBVIOUS
  <2> QED BY <2>1, FlattenEmpty
<1>2. ASSUME NEW u \in Seq(S), NEW x \in S, u \in Q PROVE Append(u, x) \in Q
  <2>1. each(Append(u, x)) = Append(each(u), <<x>>)
    OBVIOUS
  <2>2. each(u) \in Seq(Seq(S)) /\ <<x>> \in Seq(S)
    <3>1. \A i \in DOMAIN u : <<u[i]>> \in Seq(S)
      OBVIOUS
    <3>2. DOMAIN u = 1..Len(u)
      OBVIOUS
    <3> QED BY <3>1, <3>2
  <2>3. FlattenSeq(each(u)) = u
    BY <1>2
  <2> HIDE DEF each
  <2>4. FlattenSeq(Append(each(u), <<x>>)) = u \o <<x>>
    BY <2>2, <2>3, FlattenAppend
  <2>5. u \o <<x>> = Append(u, x) /\ Append(u, x) \in Seq(S)
    OBVIOUS
  <2>6. FlattenSeq(each(Append(u, x))) = Append(u, x)
    BY <2>1, <2>4, <2>5
  <2> QED BY <2>5, <2>6
<1> HIDE DEF Q
<1>3. Seq(S) \subseteq Q
  BY <1>1, <1>2, SeqSetInduction
<1>4. s \in Q
  BY <1>3
<1> QED BY <1>4 DEF Q

\* Empty sequences run together are empty.
LEMMA FlattenEmpties ==
  ASSUME NEW n \in Nat
  PROVE  FlattenSeq([i \in 1..n |-> << >>]) = << >>
<1> DEFINE blank(k) == [i \in 1..k |-> << >>]
           N == {k \in Nat : FlattenSeq(blank(k)) = << >>}
<1>1. 0 \in N
  <2>1. blank(0) = << >>
    OBVIOUS
  <2> QED BY <2>1, FlattenEmpty
<1>2. ASSUME NEW k \in Nat, k \in N PROVE k + 1 \in N
  <2>1. blank(k + 1) = Append(blank(k), << >>)
    OBVIOUS
  <2>2. blank(k) \in Seq(Seq({})) /\ << >> \in Seq({})
    OBVIOUS
  <2>3. FlattenSeq(blank(k)) = << >>
    BY <1>2
  <2> HIDE DEF blank
  <2>4. FlattenSeq(Append(blank(k), << >>)) = << >> \o << >>
    BY <2>2, <2>3, FlattenAppend
  <2>6. << >> \o << >> = << >>
    OBVIOUS
  <2>5. FlattenSeq(blank(k + 1)) = << >>
    BY <2>1, <2>4, <2>6, Zenon
  <2> QED BY <2>5
<1> HIDE DEF N
<1>3. n \in N
  BY <1>1, <1>2, NatSetInduction
<1> QED BY <1>3 DEF N

\* A sequence with a further entry.
LEMMA AppendType ==
  ASSUME NEW S, NEW s \in Seq(S), NEW e \in S
  PROVE  /\ Append(s, e) \in Seq(S)
         /\ Len(s) \in Nat
         /\ Len(Append(s, e)) = Len(s) + 1
         /\ DOMAIN s = 1..Len(s)
         /\ DOMAIN Append(s, e) = 1..(Len(s) + 1)
         /\ \A i \in 1..Len(s) : Append(s, e)[i] = s[i]
         /\ Append(s, e)[Len(s) + 1] = e
OBVIOUS

\* A sequence that has one entry more is the sequence with that entry.
LEMMA AppendUnique ==
  ASSUME NEW S, NEW s \in Seq(S), NEW t \in Seq(S), Len(t) = Len(s) + 1,
         \A i \in 1..Len(s) : t[i] = s[i]
  PROVE  t = Append(s, t[Len(s) + 1])
OBVIOUS

\* A cut out of a sequence.
LEMMA CutType ==
  ASSUME NEW S, NEW s \in Seq(S), NEW b \in Nat, NEW k \in Nat, b + k <= Len(s)
  PROVE  /\ SubSeq(s, b + 1, b + k) = [i \in 1..k |-> s[b + i]]
         /\ SubSeq(s, b + 1, b + k) \in Seq(S)
         /\ Len(SubSeq(s, b + 1, b + k)) = k
<1>1. (b + k) - (b + 1) + 1 = k
  OBVIOUS
<1>2. SubSeq(s, b + 1, b + k) = [i \in 1..((b + k) - (b + 1) + 1) |-> s[(b + 1) + i - 1]]
  BY DEF SubSeq
<1>3. \A i \in 1..k : (b + 1) + i - 1 = b + i /\ s[b + i] \in S
  OBVIOUS
<1>4. SubSeq(s, b + 1, b + k) = [i \in 1..k |-> s[b + i]]
  BY <1>1, <1>2, <1>3
<1>5. [i \in 1..k |-> s[b + i]] \in Seq(S)
  BY <1>3
<1> QED BY <1>4, <1>5

\* A sequence begins with what it was put together from.
LEMMA CutFront ==
  ASSUME NEW S, NEW a \in Seq(S), NEW b \in Seq(S)
  PROVE  SubSeq(a \o b, 1, Len(a)) = a
<1>1. /\ Len(a) \in Nat /\ Len(b) \in Nat
      /\ a \o b \in Seq(S) /\ Len(a \o b) = Len(a) + Len(b)
      /\ \A i \in 1..Len(a) : (a \o b)[i] = a[i]
  BY ConcatType
<1> DEFINE k == Len(a)
<1>2. a = [i \in 1..k |-> a[i]]
  BY SeqAsFunction
<1> HIDE DEF k
<1>3. 0 + 1 = 1 /\ k \in Nat /\ 0 + k = k /\ 0 + k <= Len(a \o b) /\ 0 \in Nat
  BY <1>1 DEF k
<1>4. SubSeq(a \o b, 0 + 1, 0 + k) = [i \in 1..k |-> (a \o b)[0 + i]]
  BY <1>1, <1>3, CutType
<1>5. [i \in 1..k |-> (a \o b)[0 + i]] = [i \in 1..k |-> a[i]]
  <2>1. \A i \in 1..k : 0 + i = i /\ (a \o b)[i] = a[i]
    BY <1>1, <1>3 DEF k
  <2> QED BY <2>1
<1> QED BY <1>2, <1>3, <1>4, <1>5, Zenon DEF k

\* What is left of two sequences, one behind the other, when the first is cut off.
LEMMA CutBehind ==
  ASSUME NEW S, NEW a \in Seq(S), NEW b \in Seq(S)
  PROVE  SubSeq(a \o b, Len(a) + 1, Len(a \o b)) = b
<1>1. /\ a \o b \in Seq(S) /\ Len(a) \in Nat /\ Len(b) \in Nat
      /\ Len(a \o b) = Len(a) + Len(b)
      /\ \A i \in 1..Len(b) : (a \o b)[Len(a) + i] = b[i]
  BY ConcatType
<1>2. SubSeq(a \o b, Len(a) + 1, Len(a) + Len(b)) = [i \in 1..Len(b) |-> (a \o b)[Len(a) + i]]
  <2> DEFINE whole == a \o b
  <2>1. whole \in Seq(S) /\ Len(a) + Len(b) <= Len(whole)
    BY <1>1
  <2> HIDE DEF whole
  <2>2. SubSeq(whole, Len(a) + 1, Len(a) + Len(b)) = [i \in 1..Len(b) |-> whole[Len(a) + i]]
    BY <1>1, <2>1, CutType
  <2> QED BY <2>2 DEF whole
<1>3. b = [i \in 1..Len(b) |-> b[i]]
  BY SeqAsFunction
<1>4. [i \in 1..Len(b) |-> (a \o b)[Len(a) + i]] = [i \in 1..Len(b) |-> b[i]]
  BY <1>1
<1> QED BY <1>1, <1>2, <1>3, <1>4, Zenon

\* What is in one of the sequences is in all of them run together.
LEMMA FlattenHolds ==
  ASSUME NEW S, NEW s \in Seq(Seq(S)), NEW i \in DOMAIN s, NEW j \in DOMAIN s[i]
  PROVE  \E k \in DOMAIN FlattenSeq(s) : FlattenSeq(s)[k] = s[i][j]
<1>1. (\E k \in DOMAIN FlattenSeq(s) : FlattenSeq(s)[k] = s[i][j])
        <=> \E m \in DOMAIN s : \E n \in DOMAIN s[m] : s[m][n] = s[i][j]
  BY FlattenMembers, ZenonT(40)
<1> QED BY <1>1

-----------------------------------------------------------------------------
(***************************************************************************)
(* Recursion over 0..n.                                                    *)
(***************************************************************************)
\* f has the value a at 0 and takes a step from each value to the next.
Stepwise(n, a, step, f) ==
  f = [k \in 0..n |-> IF k = 0 THEN a ELSE step[k][f[k - 1]]]

\* A value at 0 and a step from each value to the next define a function.
LEMMA RecursionExists ==
  ASSUME NEW V, NEW n \in Nat, NEW a \in V, NEW step \in [1..n -> [V -> V]]
  PROVE  \E f \in [0..n -> V] : Stepwise(n, a, step, f)
<1> DEFINE upTo(m, f) ==
             f \in [0..m -> V] /\ f[0] = a /\ \A k \in 1..m : f[k] = step[k][f[k - 1]]
           N == {m \in Nat : m <= n => \E f : upTo(m, f)}
<1>1. 0 \in N
  <2>1. upTo(0, [k \in 0..0 |-> a])
    OBVIOUS
  <2> HIDE DEF upTo
  <2>2. \E f : upTo(0, f)
    BY <2>1
  <2> QED BY <2>2
<1>2. ASSUME NEW m \in Nat, m \in N PROVE m + 1 \in N
  <2>0. m + 1 \in Nat
    OBVIOUS
  <2> HIDE DEF upTo
  <2> SUFFICES ASSUME m + 1 <= n PROVE \E f : upTo(m + 1, f)
    BY <2>0
  <2>1. PICK f : upTo(m, f)
    BY <1>2
  <2>2. /\ f \in [0..m -> V] /\ f[0] = a
        /\ \A k \in 1..m : f[k] = step[k][f[k - 1]]
    BY <2>1 DEF upTo
  <2> DEFINE next == step[m + 1][f[m]]
             g == [k \in 0..(m + 1) |-> IF k = m + 1 THEN next ELSE f[k]]
  <2>3. next \in V
    BY <2>2
  <2>4. g[m + 1] = next /\ \A k \in 0..m : g[k] = f[k]
    OBVIOUS
  <2> HIDE DEF next
  <2>5. g \in [0..(m + 1) -> V]
    BY <2>2, <2>3
  <2> HIDE DEF g
  <2>6. g[0] = a
    BY <2>2, <2>4
  <2>7. ASSUME NEW k \in 1..(m + 1) PROVE g[k] = step[k][g[k - 1]]
    <3>1. CASE k = m + 1
      <4>1. k - 1 = m /\ m \in 0..m
        BY <3>1
      <4>2. g[k - 1] = f[m] /\ g[k] = next
        BY <2>4, <3>1, <4>1
      <4> QED BY <3>1, <4>2 DEF next
    <3>2. CASE k \in 1..m
      <4>1. k \in 0..m /\ k - 1 \in 0..m
        BY <3>2
      <4>2. g[k - 1] = f[k - 1] /\ g[k] = f[k]
        BY <2>4, <4>1
      <4> QED BY <2>2, <3>2, <4>2
    <3> QED BY <3>1, <3>2
  <2>8. upTo(m + 1, g)
    BY <2>5, <2>6, <2>7 DEF upTo
  <2> QED BY <2>8
<1> HIDE DEF N
<1>3. Nat \subseteq N
  BY <1>1, <1>2, NatSetInduction
<1> HIDE DEF upTo
<1>4. PICK f : upTo(n, f)
  <2>1. n \in N /\ n <= n
    BY <1>3
  <2> QED BY <2>1 DEF N
<1>5. /\ f \in [0..n -> V] /\ f[0] = a
      /\ \A k \in 1..n : f[k] = step[k][f[k - 1]]
  BY <1>4 DEF upTo
<1>6. \A k \in 0..n : f[k] = IF k = 0 THEN a ELSE step[k][f[k - 1]]
  BY <1>5
<1>7. f = [k \in 0..n |-> f[k]]
  BY <1>5
<1>8. [k \in 0..n |-> f[k]] = [k \in 0..n |-> IF k = 0 THEN a ELSE step[k][f[k - 1]]]
  BY <1>6, Zenon
<1>9. Stepwise(n, a, step, f)
  BY <1>7, <1>8, Zenon DEF Stepwise
<1> QED BY <1>5, <1>9

-----------------------------------------------------------------------------
(***************************************************************************)
(* Sequences in ascending order.                                           *)
(***************************************************************************)
\* s lists the set P in ascending order, each member once.
Lists(s, P) ==
  /\ s \in Seq(Nat)
  /\ \A i, j \in DOMAIN s : i < j => s[i] < s[j]
  /\ ToSet(s) = P

\* What it is to list a set, in parts.
LEMMA ListsType ==
  ASSUME NEW s, NEW P, Lists(s, P)
  PROVE  /\ s \in Seq(Nat) /\ Len(s) \in Nat /\ DOMAIN s = 1..Len(s)
         /\ \A i \in 1..Len(s) : s[i] \in Nat /\ s[i] \in P
         /\ \A i, j \in 1..Len(s) : i < j => s[i] < s[j]
         /\ \A x \in P : \E i \in 1..Len(s) : s[i] = x
<1>1. s \in Seq(Nat) /\ Len(s) \in Nat /\ DOMAIN s = 1..Len(s)
  BY DEF Lists
<1>2. \A i, j \in 1..Len(s) : i < j => s[i] < s[j]
  BY <1>1 DEF Lists
<1>3. P = {s[i] : i \in 1..Len(s)}
  BY <1>1 DEF Lists, ToSet
<1>4. \A i \in 1..Len(s) : s[i] \in Nat /\ s[i] \in P
  BY <1>1, <1>3
<1>5. \A x \in P : \E i \in 1..Len(s) : s[i] = x
  BY <1>3
<1> QED BY <1>1, <1>2, <1>4, <1>5

\* The empty sequence lists the empty set, and nothing else does.
LEMMA ListsEmpty ==
  /\ Lists(<< >>, {})
  /\ \A s : Lists(s, {}) => s = << >>
<1>1. Lists(<< >>, {})
  BY DEF Lists, ToSet
<1>2. ASSUME NEW s, Lists(s, {}) PROVE s = << >>
  <2>1. s \in Seq(Nat) /\ ~ \E i \in 1..Len(s) : TRUE
    BY <1>2, ListsType
  <2> QED BY <2>1
<1> QED BY <1>1, <1>2

\* A larger number goes to the end.
LEMMA ListsAppend ==
  ASSUME NEW s, NEW P, Lists(s, P), NEW x \in Nat, \A y \in P : y < x
  PROVE  Lists(Append(s, x), P \union {x})
<1> DEFINE t == Append(s, x)
<1>0. /\ s \in Seq(Nat) /\ Len(s) \in Nat /\ DOMAIN s = 1..Len(s)
      /\ \A i \in 1..Len(s) : s[i] \in Nat /\ s[i] \in P
      /\ \A i, j \in 1..Len(s) : i < j => s[i] < s[j]
      /\ \A y \in P : \E i \in 1..Len(s) : s[i] = y
  BY ListsType
<1>1. /\ t \in Seq(Nat) /\ Len(t) = Len(s) + 1 /\ DOMAIN t = 1..(Len(s) + 1)
      /\ \A i \in 1..Len(s) : t[i] = s[i]
      /\ t[Len(s) + 1] = x
  BY <1>0, AppendType
<1> HIDE DEF t
<1>2. ASSUME NEW i \in DOMAIN t, NEW j \in DOMAIN t, i < j PROVE t[i] < t[j]
  <2>1. i \in 1..Len(s) /\ t[i] = s[i] /\ s[i] \in P
    BY <1>0, <1>1, <1>2
  <2>2. CASE j \in 1..Len(s)
    <3>1. t[j] = s[j]
      BY <1>1, <2>2
    <3> QED BY <1>0, <1>2, <2>1, <2>2, <3>1
  <2>3. CASE j = Len(s) + 1
    <3>1. s[i] < x
      BY <2>1
    <3> QED BY <1>1, <2>1, <2>3, <3>1
  <2> QED BY <1>0, <1>1, <2>2, <2>3
<1>3. ToSet(t) = P \union {x}
  <2>1. ToSet(t) = {t[i] : i \in 1..(Len(s) + 1)}
    BY <1>1 DEF ToSet
  <2>2. ASSUME NEW i \in 1..(Len(s) + 1) PROVE t[i] \in P \union {x}
    <3>1. CASE i \in 1..Len(s)
      BY <1>0, <1>1, <3>1
    <3>2. CASE i = Len(s) + 1
      BY <1>1, <3>2
    <3> QED BY <1>0, <3>1, <3>2
  <2>3. x \in ToSet(t)
    BY <1>0, <1>1, <2>1, SMTT(25)
  <2>4. ASSUME NEW y \in P PROVE y \in ToSet(t)
    <3>1. PICK i \in 1..Len(s) : s[i] = y
      BY <1>0
    <3>2. i \in 1..(Len(s) + 1) /\ t[i] = y
      BY <1>0, <1>1, <3>1
    <3> QED BY <2>1, <3>2
  <2>5. \A y \in ToSet(t) : y \in P \union {x}
    BY <2>1, <2>2
  <2> QED BY <2>3, <2>4, <2>5
<1>4. Lists(t, P \union {x})
  BY <1>1, <1>2, <1>3 DEF Lists
<1> QED BY <1>4 DEF t

\* Whoever lists the smaller part of P lists a first part of the list of P.
LEMMA ListsFirstPart ==
  ASSUME NEW s, NEW P, Lists(s, P), NEW t, NEW Q, Lists(t, Q),
         \A x \in Q : x \in P,
         \A x \in Q, y \in P : y \in Q \/ x < y
  PROVE  /\ Len(t) <= Len(s)
         /\ \A i \in 1..Len(t) : i \in 1..Len(s) /\ t[i] = s[i]
<1>0. /\ s \in Seq(Nat) /\ Len(s) \in Nat /\ DOMAIN s = 1..Len(s)
      /\ \A i \in 1..Len(s) : s[i] \in Nat /\ s[i] \in P
      /\ \A i, j \in 1..Len(s) : i < j => s[i] < s[j]
      /\ \A y \in P : \E i \in 1..Len(s) : s[i] = y
  BY ListsType
<1>1. /\ t \in Seq(Nat) /\ Len(t) \in Nat /\ DOMAIN t = 1..Len(t)
      /\ \A i \in 1..Len(t) : t[i] \in Nat /\ t[i] \in Q
      /\ \A i, j \in 1..Len(t) : i < j => t[i] < t[j]
      /\ \A y \in Q : \E i \in 1..Len(t) : t[i] = y
  BY ListsType
<1> DEFINE agree(i) == i <= Len(s) /\ t[i] = s[i]
           N == {k \in Nat : \A i \in 1..Len(t) : i <= k => agree(i)}
<1>2. 0 \in N
  OBVIOUS
<1>3. ASSUME NEW k \in Nat, k \in N PROVE k + 1 \in N
  <2>1. \A i \in 1..Len(t) : i <= k => agree(i)
    BY <1>3
  <2>2. SUFFICES ASSUME k + 1 \in 1..Len(t) PROVE agree(k + 1)
    <3> HIDE DEF agree
    <3>1. \A i \in 1..Len(t) : i <= k + 1 => i <= k \/ i = k + 1
      BY <1>1
    <3>2. k + 1 \in 1..Len(t) => agree(k + 1)
      BY <2>2
    <3>3. \A i \in 1..Len(t) : i <= k + 1 => agree(i)
      BY <2>1, <3>1, <3>2
    <3> QED BY <3>3
  <2> DEFINE i == k + 1
  <2>3. i \in 1..Len(t) /\ \A q \in 1..Len(t) : q < i => agree(q)
    <3>1. \A q \in 1..Len(t) : q < i => q <= k
      BY <1>1
    <3> HIDE DEF agree, i
    <3>2. \A q \in 1..Len(t) : q < i => agree(q)
      BY <2>1, <3>1
    <3> QED BY <2>2, <3>2 DEF i
  <2> HIDE DEF i
  <2>4. t[i] \in Q /\ t[i] \in Nat
    BY <1>1, <2>3
  <2>5. PICK m \in 1..Len(s) : s[m] = t[i]
    BY <1>0, <2>4
  <2>6. m >= i
    <3>1. SUFFICES ASSUME m < i PROVE FALSE
      BY <1>0, <1>1, <2>3
    <3>2. m \in 1..Len(t)
      BY <1>0, <1>1, <2>3, <3>1
    <3>3. t[m] = s[m] /\ t[m] < t[i] /\ t[m] \in Nat
      BY <1>1, <2>3, <3>1, <3>2
    <3> QED BY <2>4, <2>5, <3>3
  <2>7. i \in 1..Len(s) /\ s[i] \in P /\ s[i] \in Nat
    BY <1>0, <1>1, <2>3, <2>6, SMTT(25)
  <2>8. s[i] <= t[i]
    BY <1>0, <2>4, <2>5, <2>6, <2>7
  <2>9. s[i] \in Q
    BY <2>4, <2>7, <2>8
  <2>10. PICK q \in 1..Len(t) : t[q] = s[i]
    BY <1>1, <2>9
  <2>11. q >= i
    <3>1. SUFFICES ASSUME q < i PROVE FALSE
      BY <1>1, <2>3
    <3>2. q \in 1..Len(s) /\ t[q] = s[q]
      BY <1>0, <1>1, <2>3, <3>1
    <3>3. s[q] < s[i]
      BY <1>0, <2>7, <3>1, <3>2
    <3> QED BY <2>7, <2>10, <3>2, <3>3
  <2>12. t[i] <= s[i]
    BY <1>1, <2>3, <2>4, <2>7, <2>10, <2>11, SMTT(25)
  <2>13. agree(i)
    BY <2>4, <2>7, <2>8, <2>12
  <2> QED BY <2>13 DEF i
<1> HIDE DEF N
<1>4. Nat \subseteq N
  BY <1>2, <1>3, NatSetInduction
<1>5. \A i \in 1..Len(t) : agree(i)
  <2>1. Len(t) \in N
    BY <1>1, <1>4
  <2>2. \A i \in 1..Len(t) : i <= Len(t)
    BY <1>1
  <2> HIDE DEF agree
  <2> QED BY <2>1, <2>2 DEF N
<1>6. \A i \in 1..Len(t) : i \in 1..Len(s) /\ t[i] = s[i]
  BY <1>0, <1>1, <1>5
<1>7. Len(t) <= Len(s)
  BY <1>0, <1>1, <1>5
<1> QED BY <1>6, <1>7

\* A set has one list.
LEMMA ListsUnique ==
  ASSUME NEW s, NEW t, NEW P, Lists(s, P), Lists(t, P)
  PROVE  s = t
<1>1. /\ Len(t) <= Len(s)
      /\ \A i \in 1..Len(t) : i \in 1..Len(s) /\ t[i] = s[i]
  BY ListsFirstPart
<1>2. /\ Len(s) <= Len(t)
      /\ \A i \in 1..Len(s) : i \in 1..Len(t) /\ s[i] = t[i]
  BY ListsFirstPart
<1>3. /\ s \in Seq(Nat) /\ Len(s) \in Nat /\ DOMAIN s = 1..Len(s)
      /\ t \in Seq(Nat) /\ Len(t) \in Nat /\ DOMAIN t = 1..Len(t)
  BY ListsType
<1>4. Len(s) = Len(t)
  <2>1. Len(t) <= Len(s) /\ Len(s) <= Len(t)
    BY <1>1, <1>2, Zenon
  <2>2. Len(s) \in Nat /\ Len(t) \in Nat
    BY <1>3
  <2> QED BY <2>1, <2>2
<1>5. s = [i \in 1..Len(s) |-> s[i]] /\ t = [i \in 1..Len(t) |-> t[i]]
  BY <1>3, SeqAsFunction
<1>6. [i \in 1..Len(s) |-> s[i]] = [i \in 1..Len(s) |-> t[i]]
  BY <1>2
<1> QED BY <1>4, <1>5, <1>6, Zenon

\* A sequence whose neighbours ascend lists its entries.
LEMMA NeighboursAscend ==
  ASSUME NEW s \in Seq(Nat), NEW P, ToSet(s) = P,
         \A i, j \in 1..Len(s) : j = i + 1 => s[i] < s[j]
  PROVE  Lists(s, P)
<1>0. Len(s) \in Nat /\ DOMAIN s = 1..Len(s) /\ \A i \in 1..Len(s) : s[i] \in Nat
  OBVIOUS
<1> DEFINE N == {k \in Nat : \A i \in 1..Len(s) : i + k + 1 \in 1..Len(s) => s[i] < s[i + k + 1]}
<1>1. 0 \in N
  <2>1. ASSUME NEW i \in 1..Len(s), i + 1 \in 1..Len(s) PROVE s[i] < s[i + 1]
    BY <2>1
  <2>2. \A i \in 1..Len(s) : i + 0 + 1 = i + 1
    BY <1>0
  <2> QED BY <2>1, <2>2
<1>2. ASSUME NEW k \in Nat, k \in N PROVE k + 1 \in N
  <2>1. SUFFICES ASSUME NEW i \in 1..Len(s), i + (k + 1) + 1 \in 1..Len(s)
                 PROVE  s[i] < s[i + (k + 1) + 1]
    OBVIOUS
  <2> DEFINE j == i + k + 1
  <2>2. j \in 1..Len(s) /\ i + (k + 1) + 1 = j + 1 /\ j + 1 \in 1..Len(s)
    BY <1>0, <2>1
  <2>3. s[i] < s[j]
    BY <1>2, <2>2
  <2> HIDE DEF j
  <2>4. s[j] < s[j + 1]
    BY <2>2
  <2>5. s[i] \in Nat /\ s[j] \in Nat /\ s[j + 1] \in Nat
    BY <1>0, <2>2
  <2>6. s[i] < s[j + 1]
    BY <2>3, <2>4, <2>5
  <2> QED BY <2>2, <2>6
<1> HIDE DEF N
<1>3. Nat \subseteq N
  BY <1>1, <1>2, NatSetInduction
<1>4. ASSUME NEW i \in 1..Len(s), NEW j \in 1..Len(s), i < j PROVE s[i] < s[j]
  <2>1. j - i - 1 \in Nat /\ i + (j - i - 1) + 1 = j
    BY <1>0, <1>4
  <2>2. j - i - 1 \in N
    BY <1>3, <2>1
  <2> QED BY <2>1, <2>2 DEF N
<1> QED BY <1>0, <1>4 DEF Lists

\* A list of numbers of an interval is no longer than the interval.
LEMMA ListsLength ==
  ASSUME NEW s, NEW P, Lists(s, P), NEW a \in Nat, NEW b \in Nat, a <= b + 1,
         \A x \in P : a <= x /\ x <= b
  PROVE  Len(s) <= b - a + 1
<1>0. /\ Len(s) \in Nat /\ \A i \in 1..Len(s) : s[i] \in Nat /\ s[i] \in P
      /\ \A i, j \in 1..Len(s) : i < j => s[i] < s[j]
  BY ListsType
<1> DEFINE N == {k \in Nat : k + 1 <= Len(s) => a + k <= s[k + 1]}
<1>1. 0 \in N
  <2>1. SUFFICES ASSUME 0 + 1 <= Len(s) PROVE a + 0 <= s[0 + 1]
    OBVIOUS
  <2>2. 1 \in 1..Len(s)
    BY <1>0, <2>1
  <2>3. a <= s[1] /\ 0 + 1 = 1 /\ a + 0 = a
    BY <1>0, <2>2
  <2> QED BY <2>3
<1>2. ASSUME NEW k \in Nat, k \in N PROVE k + 1 \in N
  <2>1. SUFFICES ASSUME (k + 1) + 1 <= Len(s) PROVE a + (k + 1) <= s[(k + 1) + 1]
    OBVIOUS
  <2>2. k + 1 \in 1..Len(s) /\ (k + 1) + 1 \in 1..Len(s) /\ k + 1 < (k + 1) + 1
    BY <1>0, <2>1
  <2>3. s[k + 1] < s[(k + 1) + 1] /\ s[k + 1] \in Nat /\ s[(k + 1) + 1] \in Nat
    BY <1>0, <2>2
  <2>4. a + k <= s[k + 1]
    BY <1>0, <1>2, <2>2
  <2> QED BY <2>3, <2>4
<1> HIDE DEF N
<1>3. Nat \subseteq N
  BY <1>1, <1>2, NatSetInduction
<1>4. CASE Len(s) = 0
  BY <1>4
<1>5. CASE Len(s) > 0
  <2>1. Len(s) - 1 \in N /\ Len(s) \in 1..Len(s) /\ (Len(s) - 1) + 1 = Len(s)
    BY <1>0, <1>3, <1>5
  <2>2. a + (Len(s) - 1) <= s[Len(s)] /\ s[Len(s)] <= b /\ s[Len(s)] \in Nat
    <3>1. a + (Len(s) - 1) <= s[(Len(s) - 1) + 1]
      BY <2>1 DEF N
    <3> QED BY <1>0, <2>1, <3>1
  <2> QED BY <1>0, <2>2
<1> QED BY <1>0, <1>4, <1>5

-----------------------------------------------------------------------------
(***************************************************************************)
(* Numbers and the numbers that divide them.                               *)
(***************************************************************************)
\* A number in the field is its own residue.
LEMMA ModSmall ==
  ASSUME NEW x \in Int, NEW m \in Nat, 0 <= x, x < m
  PROVE  x % m = x
OBVIOUS

\* The residue of a small negative number.
LEMMA ModBelow ==
  ASSUME NEW x \in Int, NEW m \in Nat, x < 0, 0 <= x + m
  PROVE  x % m = x + m
OBVIOUS

\* x is a multiple of k.
Divides(k, x) == \E q \in Int : x = k * q

\* A multiple is what has no remainder.
LEMMA DividesMod ==
  ASSUME NEW k \in Nat, k > 0, NEW x \in Int
  PROVE  Divides(k, x) <=> x % k = 0
<1>1. ASSUME x % k = 0 PROVE Divides(k, x)
  <2>1. x = k * (x \div k) /\ x \div k \in Int
    BY <1>1
  <2> QED BY <2>1 DEF Divides
<1>2. ASSUME Divides(k, x) PROVE x % k = 0
  <2>1. PICK q \in Int : x = k * q
    BY <1>2 DEF Divides
  <2>2. (k * q) % k = 0
    OBVIOUS
  <2> QED BY <2>1, <2>2
<1> QED BY <1>1, <1>2

\* Differences and products of multiples are multiples.
LEMMA DividesDifference ==
  ASSUME NEW k \in Int, NEW x \in Int, NEW y \in Int, Divides(k, x), Divides(k, y)
  PROVE  Divides(k, x - y)
<1>1. PICK q \in Int : x = k * q
  BY DEF Divides
<1>2. PICK r \in Int : y = k * r
  BY DEF Divides
<1>3. q - r \in Int /\ x - y = k * (q - r)
  BY <1>1, <1>2
<1> QED BY <1>3 DEF Divides

\* A divisor divides the multiples.
LEMMA DividesProduct ==
  ASSUME NEW k \in Int, NEW x \in Int, NEW m \in Int, Divides(k, x)
  PROVE  Divides(k, m * x)
<1>1. PICK q \in Int : x = k * q
  BY DEF Divides
<1>2. m * q \in Int /\ m * (k * q) = k * (m * q)
  OBVIOUS
<1> QED BY <1>1, <1>2 DEF Divides

\* A set of positive numbers has a least member.
LEMMA LeastExists ==
  ASSUME NEW K \in SUBSET (Nat \ {0}), NEW y \in K
  PROVE  \E k \in K : \A j \in K : k <= j
<1> DEFINE N == {n \in Nat : \A m \in 0..n : m \notin K}
<1>1. SUFFICES ASSUME ~ \E k \in K : \A j \in K : k <= j PROVE FALSE
  OBVIOUS
<1>2. 0 \in N
  OBVIOUS
<1>3. ASSUME NEW n \in Nat, n \in N PROVE n + 1 \in N
  <2>1. ASSUME n + 1 \in K PROVE FALSE
    <3>1. ASSUME NEW j \in K PROVE n + 1 <= j
      <4>1. j \in Nat /\ j \notin 0..n
        BY <1>3
      <4> QED BY <4>1
    <3> QED BY <3>1, <2>1, <1>1
  <2>2. \A m \in 0..(n + 1) : m \in 0..n \/ m = n + 1
    OBVIOUS
  <2>3. \A m \in 0..(n + 1) : m \notin K
    BY <1>3, <2>1, <2>2
  <2> QED BY <2>3
<1>4. Nat \subseteq N
  <2> HIDE DEF N
  <2> QED BY <1>2, <1>3, NatSetInduction
<1>5. y \in N /\ y \in 0..y
  BY <1>4
<1> QED BY <1>5

\* The remainder is what is left of a multiple.
LEMMA ModUnique ==
  ASSUME NEW m \in Nat, NEW q \in Int, NEW r \in 0..(m - 1)
  PROVE  ((m * q) + r) % m = r
<1> DEFINE x == (m * q) + r
<1>1. x \in Int /\ m > 0
  OBVIOUS
<1>2. x % m \in 0..(m - 1) /\ x \div m \in Int /\ x = (m * (x \div m)) + (x % m)
  <2> HIDE DEF x
  <2> QED BY <1>1
<1> DEFINE s == x % m
           p == x \div m
<1>3. (m * q) + r = (m * p) + s /\ s \in 0..(m - 1) /\ p \in Int
  BY <1>2
<1> HIDE DEF x, s, p
<1>4. m * (q - p) = s - r
  BY <1>3
<1>5. q = p
  <2>1. CASE q - p >= 1
    <3>1. m * (q - p) >= m * 1
      BY <1>1, <1>3, <2>1
    <3> QED BY <1>3, <1>4, <3>1
  <2>2. CASE q - p <= -1
    <3>1. m * (q - p) <= m * (-1)
      BY <1>1, <1>3, <2>2
    <3> QED BY <1>3, <1>4, <3>1
  <2> QED BY <1>3, <2>1, <2>2
<1>6. s = r
  BY <1>3, <1>4, <1>5
<1> QED BY <1>6 DEF s, x

-----------------------------------------------------------------------------
\* f has the value a at 0 and takes a step from each value to the next, for ever.
StepwiseOn(a, step, f) ==
  f = [n \in Nat |-> IF n = 0 THEN a ELSE step[n][f[n - 1]]]

\* There is such a function.
LEMMA NatRecursionExists ==
  ASSUME NEW V, NEW a \in V, NEW step \in [Nat -> [V -> V]]
  PROVE  \E f \in [Nat -> V] : StepwiseOn(a, step, f)
<1> DEFINE upTo(n, f) == f \in [0..n -> V] /\ f[0] = a /\ \A k \in 1..n : f[k] = step[k][f[k - 1]]
           G(n) == CHOOSE f : upTo(n, f)
           g == [n \in Nat |-> G(n)[n]]
<1>1. ASSUME NEW n \in Nat PROVE upTo(n, G(n))
  <2> DEFINE st == [k \in 1..n |-> step[k]]
  <2>1. st \in [1..n -> [V -> V]]
    OBVIOUS
  <2>2. PICK f \in [0..n -> V] : Stepwise(n, a, st, f)
    <3> HIDE DEF st
    <3> QED BY <2>1, RecursionExists
  <2>3. f = [k \in 0..n |-> IF k = 0 THEN a ELSE st[k][f[k - 1]]]
    BY <2>2 DEF Stepwise
  <2>4. f[0] = a
    BY <2>3
  <2>5. ASSUME NEW k \in 1..n PROVE f[k] = step[k][f[k - 1]]
    <3>1. k \in 0..n /\ k # 0
      OBVIOUS
    <3>2. f[k] = st[k][f[k - 1]]
      <4> HIDE DEF st
      <4> QED BY <2>3, <3>1
    <3> QED BY <3>2
  <2>6. upTo(n, f)
    BY <2>2, <2>4, <2>5
  <2> HIDE DEF upTo
  <2> QED BY <2>6
<1>2. ASSUME NEW n \in Nat, NEW m \in Nat, n <= m PROVE G(m)[n] = G(n)[n]
  <2> DEFINE F == G(m)
             H == G(n)
             N == {k \in Nat : k <= n => F[k] = H[k]}
  <2>1. /\ F[0] = a /\ \A k \in 1..m : F[k] = step[k][F[k - 1]]
        /\ H[0] = a /\ \A k \in 1..n : H[k] = step[k][H[k - 1]]
    BY <1>1
  <2> HIDE DEF F, H
  <2>2. 0 \in N
    BY <2>1
  <2>3. ASSUME NEW k \in Nat, k \in N PROVE k + 1 \in N
    <3>1. SUFFICES ASSUME k + 1 <= n PROVE F[k + 1] = H[k + 1]
      OBVIOUS
    <3>2. k + 1 \in 1..m /\ k + 1 \in 1..n /\ (k + 1) - 1 = k /\ k <= n
      BY <3>1, <1>2
    <3>3. F[k + 1] = step[k + 1][F[k]] /\ H[k + 1] = step[k + 1][H[k]]
      BY <2>1, <3>2
    <3> QED BY <3>2, <3>3, <2>3
  <2> HIDE DEF N
  <2>4. Nat \subseteq N
    BY <2>2, <2>3, NatSetInduction
  <2>5. n \in N
    BY <2>4
  <2> QED BY <2>5 DEF N, F, H
<1>3. ASSUME NEW n \in Nat PROVE g[n] \in V /\ g[n] = IF n = 0 THEN a ELSE step[n][g[n - 1]]
  <2>0. G(n)[n] \in V /\ g[n] = G(n)[n]
    <3>1. upTo(n, G(n))
      BY <1>1
    <3>2. \A f : upTo(n, f) => f \in [0..n -> V]
      OBVIOUS
    <3>3. n \in 0..n /\ g[n] = G(n)[n]
      <4> HIDE DEF G
      <4> QED OBVIOUS
    <3> HIDE DEF G, g, upTo
    <3> QED BY <3>1, <3>2, <3>3
  <2>1. CASE n = 0
    <3>1. upTo(0, G(0))
      BY <1>1
    <3> QED BY <2>0, <2>1, <3>1
  <2>2. CASE n # 0
    <3>1. n - 1 \in Nat /\ n - 1 <= n /\ n \in 1..n
      BY <2>2
    <3>2. G(n)[n] = step[n][G(n)[n - 1]]
      <4>1. upTo(n, G(n))
        BY <1>1
      <4> HIDE DEF G
      <4> QED BY <4>1, <3>1
    <3>3. G(n)[n - 1] = G(n - 1)[n - 1]
      <4> HIDE DEF G, upTo
      <4> QED BY <3>1, <1>2
    <3>4. g[n] = G(n)[n] /\ g[n - 1] = G(n - 1)[n - 1]
      <4> HIDE DEF G
      <4> QED BY <3>1
    <3> HIDE DEF G, g
    <3> QED BY <2>0, <2>2, <3>2, <3>3, <3>4
  <2> HIDE DEF g, G, upTo
  <2> QED BY <2>0, <2>1, <2>2
<1>4. g = [n \in Nat |-> g[n]]
  <2> HIDE DEF G
  <2> QED OBVIOUS
<1> HIDE DEF g
<1>5. StepwiseOn(a, step, g)
  <2>1. [n \in Nat |-> g[n]] = [n \in Nat |-> IF n = 0 THEN a ELSE step[n][g[n - 1]]]
    BY <1>3
  <2> QED BY <1>4, <2>1, Zenon DEF StepwiseOn
<1>6. g \in [Nat -> V]
  BY <1>3, <1>4
<1> QED BY <1>5, <1>6

\* What it says of each number.
LEMMA StepwiseOnValue ==
  ASSUME NEW a, NEW step, NEW f, StepwiseOn(a, step, f)
  PROVE  f[0] = a /\ \A n \in Nat : f[n + 1] = step[n + 1][f[n]]
<1>1. \A n \in Nat : f[n] = IF n = 0 THEN a ELSE step[n][f[n - 1]]
  BY Zenon DEF StepwiseOn
<1>2. f[0] = a
  BY <1>1
<1>3. ASSUME NEW n \in Nat PROVE f[n + 1] = step[n + 1][f[n]]
  <2>1. n + 1 \in Nat /\ n + 1 # 0 /\ (n + 1) - 1 = n
    OBVIOUS
  <2> QED BY <1>1, <2>1
<1> QED BY <1>2, <1>3

-----------------------------------------------------------------------------
(***************************************************************************)
(* Residues.  Sums and products get names of their own, ++ and **, which   *)
(* the provers do not take apart, so that they can match them.             *)
(***************************************************************************)
a ++ b == a + b
a ** b == a * b

\* A number and its residue.
Res(p, a) == a % p

\* The neutral numbers, and what commutes.
LEMMA SumAndProduct ==
  ASSUME NEW a \in Nat, NEW b \in Nat
  PROVE  /\ a ++ b \in Nat /\ a ** b \in Nat
         /\ a ++ b = b ++ a /\ a ** b = b ** a
         /\ a ++ 0 = a /\ 0 ++ a = a /\ a ** 1 = a /\ 1 ** a = a /\ a ** 0 = 0 /\ 0 ** a = 0
BY DEF ++, **

\* Sums of natural numbers.
LEMMA NatSum ==
  ASSUME NEW a \in Nat, NEW b \in Nat
  PROVE  a ++ b \in Nat
BY DEF ++

\* Products of natural numbers.
LEMMA NatProduct ==
  ASSUME NEW a \in Nat, NEW b \in Nat
  PROVE  a ** b \in Nat
BY DEF **

\* Sums and products associate, and products distribute.
LEMMA ThreeNumbers ==
  ASSUME NEW a \in Nat, NEW b \in Nat, NEW c \in Nat
  PROVE  /\ (a ++ b) ++ c = a ++ (b ++ c) /\ (a ** b) ** c = a ** (b ** c)
         /\ (a ++ b) ** c = (a ** c) ++ (b ** c) /\ c ** (a ++ b) = (c ** a) ++ (c ** b)
BY DEF ++, **

\* Residues are below the modulus.
LEMMA ResType ==
  ASSUME NEW p \in Nat, p > 0, NEW a \in Nat
  PROVE  Res(p, a) \in 0..(p - 1) /\ Res(p, a) \in Nat
BY DEF Res

\* Multiples of the modulus do not matter.
LEMMA ResMultiple ==
  ASSUME NEW p \in Nat, p > 0, NEW a \in Nat, NEW k \in Nat
  PROVE  Res(p, a ++ (p ** k)) = Res(p, a)
<1> DEFINE r == a % p
           q == a \div p
<1>1. r \in 0..(p - 1) /\ q \in Int /\ a = p * q + r
  OBVIOUS
<1> HIDE DEF r, q
<1>2. a + p * k = p * (q + k) + r /\ q + k \in Int
  BY <1>1
<1>3. (p * (q + k) + r) % p = r
  BY <1>1, <1>2, ModUnique
<1>4. a % p = r
  BY DEF r
<1> QED BY <1>2, <1>3, <1>4 DEF Res, ++, **

\* A number is its residue and a multiple of the modulus.
LEMMA ResSplit ==
  ASSUME NEW p \in Nat, p > 0, NEW a \in Nat
  PROVE  \E k \in Nat : a = Res(p, a) ++ (p ** k)
<1> DEFINE r == a % p
           q == a \div p
<1>1. r \in 0..(p - 1) /\ q \in Nat /\ a = p * q + r
  OBVIOUS
<1> HIDE DEF q
<1> QED BY <1>1 DEF Res, ++, **

\* Residues of products and sums depend on the residues alone.
LEMMA ResTimes ==
  ASSUME NEW p \in Nat, p > 0, NEW a \in Nat, NEW b \in Nat, NEW c \in Nat,
         Res(p, a) = Res(p, b)
  PROVE  Res(p, a ** c) = Res(p, b ** c)
<1>1. ASSUME NEW x \in Nat PROVE Res(p, x ** c) = Res(p, Res(p, x) ** c)
  <2> DEFINE r == Res(p, x)
  <2>1. PICK k \in Nat : x = r ++ (p ** k)
    BY ResSplit
  <2>2. r \in Nat
    BY ResType
  <2> HIDE DEF r
  <2>3. x ** c = (r ** c) ++ (p ** (k ** c)) /\ r ** c \in Nat /\ k ** c \in Nat
    BY <2>1, <2>2 DEF ++, **
  <2>4. Res(p, x ** c) = Res(p, r ** c)
    BY <2>3, ResMultiple
  <2> QED BY <2>4 DEF r
<1> QED BY <1>1

\* Equal residues stay equal when a number is added.
LEMMA ResPlus ==
  ASSUME NEW p \in Nat, p > 0, NEW a \in Nat, NEW b \in Nat, NEW c \in Nat,
         Res(p, a) = Res(p, b)
  PROVE  Res(p, a ++ c) = Res(p, b ++ c)
<1>1. ASSUME NEW x \in Nat PROVE Res(p, x ++ c) = Res(p, Res(p, x) ++ c)
  <2> DEFINE r == Res(p, x)
  <2>1. PICK k \in Nat : x = r ++ (p ** k)
    BY ResSplit
  <2>2. r \in Nat
    BY ResType
  <2> HIDE DEF r
  <2>3. x ++ c = (r ++ c) ++ (p ** k) /\ r ++ c \in Nat
    BY <2>1, <2>2 DEF ++, **
  <2>4. Res(p, x ++ c) = Res(p, r ++ c)
    BY <2>3, ResMultiple
  <2> QED BY <2>4 DEF r
<1> QED BY <1>1

\* Residues of products follow from those of the factors.
LEMMA ResTimesBoth ==
  ASSUME NEW p \in Nat, p > 0, NEW a \in Nat, NEW b \in Nat, NEW c \in Nat, NEW d \in Nat,
         Res(p, a) = Res(p, b), Res(p, c) = Res(p, d)
  PROVE  Res(p, a ** c) = Res(p, b ** d)
<1>1. Res(p, a ** c) = Res(p, b ** c)
  BY ResTimes
<1>2. Res(p, c ** b) = Res(p, d ** b)
  BY ResTimes
<1>3. c ** b = b ** c /\ d ** b = b ** d
  BY SumAndProduct
<1> QED BY <1>1, <1>2, <1>3

\* Residues of sums follow from those of the summands.
LEMMA ResPlusBoth ==
  ASSUME NEW p \in Nat, p > 0, NEW a \in Nat, NEW b \in Nat, NEW c \in Nat, NEW d \in Nat,
         Res(p, a) = Res(p, b), Res(p, c) = Res(p, d)
  PROVE  Res(p, a ++ c) = Res(p, b ++ d)
<1>1. Res(p, a ++ c) = Res(p, b ++ c)
  BY ResPlus
<1>2. Res(p, c ++ b) = Res(p, d ++ b)
  BY ResPlus
<1>3. c ++ b = b ++ c /\ d ++ b = b ++ d
  BY SumAndProduct
<1> QED BY <1>1, <1>2, <1>3

\* A residue is its own.
LEMMA ResSmall ==
  ASSUME NEW p \in Nat, NEW a \in Nat, a < p
  PROVE  Res(p, a) = a
BY DEF Res

\* A residue is its own.
LEMMA ResRes ==
  ASSUME NEW p \in Nat, p > 0, NEW a \in Nat
  PROVE  Res(p, Res(p, a)) = Res(p, a)
BY ResType, ResSmall

\* A summand is taken off both sides.
LEMMA ResCancelPlus ==
  ASSUME NEW p \in Nat, p > 0, NEW a \in Nat, NEW b \in Nat, NEW c \in Nat,
         Res(p, a ++ c) = Res(p, b ++ c)
  PROVE  Res(p, a) = Res(p, b)
<1> DEFINE d == (p - 1) * c
<1>1. d \in Nat /\ a ++ c \in Nat /\ b ++ c \in Nat
  BY DEF ++
<1>2. (a ++ c) ++ d = a ++ (p ** c) /\ (b ++ c) ++ d = b ++ (p ** c)
  BY DEF ++, **
<1> HIDE DEF d
<1>3. Res(p, (a ++ c) ++ d) = Res(p, (b ++ c) ++ d)
  BY <1>1, ResPlus
<1>4. Res(p, a ++ (p ** c)) = Res(p, a) /\ Res(p, b ++ (p ** c)) = Res(p, b)
  BY ResMultiple
<1> QED BY <1>2, <1>3, <1>4

\* Multiples may be left out.
LEMMA ResZero ==
  ASSUME NEW p \in Nat, p > 0, NEW a \in Nat, NEW b \in Nat
  PROVE  Res(p, a ++ b) = Res(p, b) <=> Res(p, a) = 0
<1>1. Res(p, 0) = 0 /\ 0 ++ b = b
  BY ResSmall, SumAndProduct
<1>2. ASSUME Res(p, a) = 0 PROVE Res(p, a ++ b) = Res(p, b)
  <2>1. Res(p, a ++ b) = Res(p, 0 ++ b)
    BY <1>1, <1>2, ResPlus
  <2> QED BY <1>1, <2>1
<1>3. ASSUME Res(p, a ++ b) = Res(p, b) PROVE Res(p, a) = 0
  <2>1. Res(p, a ++ b) = Res(p, 0 ++ b)
    BY <1>1, <1>3
  <2>2. Res(p, a) = Res(p, 0)
    BY <2>1, ResCancelPlus
  <2> QED BY <1>1, <2>2
<1> QED BY <1>2, <1>3

-----------------------------------------------------------------------------
(***************************************************************************)
(* Powers.                                                                 *)
(***************************************************************************)
Times(x) == [n \in Nat |-> [y \in Nat |-> y ** x]]

\* The powers of a number.
Pow(x) == CHOOSE f : f \in [Nat -> Nat] /\ StepwiseOn(1, Times(x), f)

\* The powers, one from the next lower.
LEMMA PowEquation ==
  ASSUME NEW x \in Nat
  PROVE  /\ Pow(x)[0] = 1
         /\ \A n \in Nat : Pow(x)[n] \in Nat /\ Pow(x)[n + 1] = Pow(x)[n] ** x
<1>1. Times(x) \in [Nat -> [Nat -> Nat]]
  BY SumAndProduct DEF Times
<1>2. \E f : f \in [Nat -> Nat] /\ StepwiseOn(1, Times(x), f)
  BY <1>1, NatRecursionExists
<1>3. Pow(x) \in [Nat -> Nat] /\ StepwiseOn(1, Times(x), Pow(x))
  BY <1>2, Zenon DEF Pow
<1>4. Pow(x)[0] = 1 /\ \A n \in Nat : Pow(x)[n + 1] = Times(x)[n + 1][Pow(x)[n]]
  <2> DEFINE f == Pow(x)
             step == Times(x)
  <2>1. StepwiseOn(1, step, f)
    BY <1>3
  <2> HIDE DEF f, step
  <2>2. f[0] = 1 /\ \A n \in Nat : f[n + 1] = step[n + 1][f[n]]
    BY <2>1, StepwiseOnValue
  <2> QED BY <2>2 DEF f, step
<1>5. ASSUME NEW n \in Nat PROVE Pow(x)[n] \in Nat /\ Pow(x)[n + 1] = Pow(x)[n] ** x
  <2>1. Pow(x)[n] \in Nat /\ n + 1 \in Nat
    BY <1>3
  <2> QED BY <2>1, <1>4 DEF Times
<1> QED BY <1>4, <1>5

\* Powers of natural numbers.
LEMMA PowType ==
  ASSUME NEW x \in Nat, NEW n \in Nat
  PROVE  Pow(x)[n] \in Nat
BY PowEquation

\* The first two powers.
LEMMA PowFirst ==
  ASSUME NEW x \in Nat
  PROVE  Pow(x)[0] = 1 /\ Pow(x)[1] = x
<1>1. Pow(x)[0] = 1 /\ Pow(x)[0 + 1] = Pow(x)[0] ** x
  BY PowEquation
<1>2. 0 + 1 = 1 /\ 1 ** x = x
  BY SumAndProduct
<1> QED BY <1>1, <1>2

\* Powers of one.
LEMMA PowOne ==
  ASSUME NEW n \in Nat
  PROVE  Pow(1)[n] = 1
<1> DEFINE N == {k \in Nat : Pow(1)[k] = 1}
<1>1. 0 \in N /\ \A k \in Nat : k \in N => k + 1 \in N
  <2>1. 1 \in Nat /\ 1 ** 1 = 1
    BY SumAndProduct
  <2> QED BY <2>1, PowEquation
<1> HIDE DEF N
<1>2. Nat \subseteq N
  BY <1>1, NatSetInduction
<1> QED BY <1>2 DEF N

\* Exponents are added.
LEMMA PowPlus ==
  ASSUME NEW x \in Nat, NEW m \in Nat, NEW n \in Nat
  PROVE  Pow(x)[m + n] = Pow(x)[m] ** Pow(x)[n]
<1> DEFINE N == {k \in Nat : Pow(x)[m + k] = Pow(x)[m] ** Pow(x)[k]}
<1>0. \A k \in Nat : Pow(x)[k] \in Nat
  BY PowType
<1>1. 0 \in N
  <2>1. Pow(x)[0] = 1 /\ m + 0 = m /\ Pow(x)[m] \in Nat
    BY <1>0, PowFirst
  <2>2. Pow(x)[m] ** 1 = Pow(x)[m]
    BY <2>1, SumAndProduct
  <2> QED BY <2>1, <2>2
<1>2. ASSUME NEW k \in Nat, k \in N PROVE k + 1 \in N
  <2>1. m + k \in Nat /\ m + (k + 1) = (m + k) + 1
    OBVIOUS
  <2>2. Pow(x)[(m + k) + 1] = Pow(x)[m + k] ** x /\ Pow(x)[k + 1] = Pow(x)[k] ** x
    BY <2>1, PowEquation
  <2> DEFINE a == Pow(x)[m]
             b == Pow(x)[k]
  <2>3. a \in Nat /\ b \in Nat /\ Pow(x)[m + k] = a ** b
    BY <1>0, <1>2
  <2> HIDE DEF a, b
  <2>4. (a ** b) ** x = a ** (b ** x)
    BY <2>3, ThreeNumbers
  <2>5. Pow(x)[m + (k + 1)] = a ** Pow(x)[k + 1]
    BY <2>1, <2>2, <2>3, <2>4 DEF b
  <2> QED BY <2>5 DEF a
<1> HIDE DEF N
<1>3. Nat \subseteq N
  BY <1>1, <1>2, NatSetInduction
<1> QED BY <1>3 DEF N

\* Exponents are multiplied.
LEMMA PowPow ==
  ASSUME NEW x \in Nat, NEW m \in Nat, NEW n \in Nat
  PROVE  Pow(Pow(x)[m])[n] = Pow(x)[m * n]
<1> DEFINE y == Pow(x)[m]
           N == {k \in Nat : Pow(y)[k] = Pow(x)[m * k]}
<1>0. y \in Nat
  BY PowType
<1>1. 0 \in N
  <2>1. m * 0 = 0 /\ Pow(y)[0] = 1 /\ Pow(x)[0] = 1
    BY <1>0, PowFirst
  <2> HIDE DEF y
  <2> QED BY <2>1
<1>2. ASSUME NEW k \in Nat, k \in N PROVE k + 1 \in N
  <2>1. m * k \in Nat /\ m * (k + 1) = m * k + m
    OBVIOUS
  <2> DEFINE j == m * k
  <2> HIDE DEF j
  <2>2. Pow(x)[j + m] = Pow(x)[j] ** Pow(x)[m]
    BY <2>1, PowPlus DEF j
  <2> HIDE DEF y
  <2>3. Pow(y)[k + 1] = Pow(y)[k] ** y
    BY <1>0, PowEquation
  <2>4. Pow(y)[k] = Pow(x)[j]
    BY <1>2 DEF j
  <2>5. Pow(y)[k + 1] = Pow(x)[m * (k + 1)]
    BY <2>1, <2>2, <2>3, <2>4 DEF j, y
  <2> QED BY <2>5
<1> HIDE DEF N
<1>3. Nat \subseteq N
  BY <1>1, <1>2, NatSetInduction
<1> QED BY <1>3 DEF N, y

\* The power of a product.
LEMMA PowTimes ==
  ASSUME NEW x \in Nat, NEW y \in Nat, NEW n \in Nat
  PROVE  Pow(x ** y)[n] = Pow(x)[n] ** Pow(y)[n]
<1> DEFINE z == x ** y
           N == {k \in Nat : Pow(z)[k] = Pow(x)[k] ** Pow(y)[k]}
<1>0. z \in Nat /\ 1 \in Nat /\ 1 ** 1 = 1
  BY SumAndProduct
<1>1. 0 \in N
  BY <1>0, PowFirst
<1>2. ASSUME NEW k \in Nat, k \in N PROVE k + 1 \in N
  <2> DEFINE a == Pow(x)[k]
             b == Pow(y)[k]
  <2>1. a \in Nat /\ b \in Nat /\ Pow(z)[k] = a ** b
    BY <1>2, PowType
  <2>2. Pow(z)[k + 1] = Pow(z)[k] ** z /\ Pow(x)[k + 1] = a ** x /\ Pow(y)[k + 1] = b ** y
    <3> HIDE DEF z
    <3> QED BY <1>0, PowEquation
  <2> HIDE DEF a, b
  <2>3. (a ** b) ** (x ** y) = (a ** x) ** (b ** y)
    BY <2>1 DEF **
  <2>4. Pow(z)[k + 1] = Pow(x)[k + 1] ** Pow(y)[k + 1]
    BY <2>1, <2>2, <2>3
  <2> QED BY <2>4
<1> HIDE DEF N
<1>3. Nat \subseteq N
  BY <1>1, <1>2, NatSetInduction
<1> QED BY <1>3 DEF N, z

\* Residues of powers depend on the residue of the base alone.
LEMMA ResPow ==
  ASSUME NEW p \in Nat, p > 0, NEW x \in Nat, NEW y \in Nat, Res(p, x) = Res(p, y), NEW n \in Nat
  PROVE  Res(p, Pow(x)[n]) = Res(p, Pow(y)[n])
<1> DEFINE N == {k \in Nat : Res(p, Pow(x)[k]) = Res(p, Pow(y)[k])}
<1>1. 0 \in N
  BY PowFirst
<1>2. ASSUME NEW k \in Nat, k \in N PROVE k + 1 \in N
  <2> DEFINE a == Pow(x)[k]
             b == Pow(y)[k]
  <2>1. a \in Nat /\ b \in Nat /\ Res(p, a) = Res(p, b)
    BY <1>2, PowType
  <2>2. Pow(x)[k + 1] = a ** x /\ Pow(y)[k + 1] = b ** y
    BY PowEquation
  <2> HIDE DEF a, b
  <2>3. Res(p, a ** x) = Res(p, b ** y)
    BY <2>1, ResTimesBoth
  <2> QED BY <2>2, <2>3
<1> HIDE DEF N
<1>3. Nat \subseteq N
  BY <1>1, <1>2, NatSetInduction
<1> QED BY <1>3 DEF N

IsPrime(p) == p \in Nat /\ p > 1 /\ \A d \in 2..(p - 1) : p % d # 0

\* A prime that divides a product divides a factor: the least number that makes a multiple of
\* the prime out of x divides the prime, and so is 1 or the prime itself.
LEMMA PrimeDividesFactor ==
  ASSUME NEW p, IsPrime(p), NEW x \in 1..(p - 1), NEW y \in 1..(p - 1)
  PROVE  (y * x) % p # 0
<1>0. p \in Nat /\ p > 1 /\ x \in Int /\ y \in Int
  BY DEF IsPrime
<1> DEFINE K == {k \in Nat \ {0} : Divides(p, k * x)}
<1>1. SUFFICES ASSUME (y * x) % p = 0 PROVE FALSE
  OBVIOUS
<1>2. y \in K
  <2>1. y * x \in Int /\ y \in Nat \ {0}
    BY <1>0
  <2>2. Divides(p, y * x)
    BY <1>1, <1>0, <2>1, DividesMod
  <2> QED BY <2>1, <2>2
<1>3. PICK k \in K : \A j \in K : k <= j
  <2>1. K \in SUBSET (Nat \ {0})
    OBVIOUS
  <2> HIDE DEF K
  <2> QED BY <2>1, <1>2, LeastExists
<1>4. k \in Nat /\ k > 0 /\ Divides(p, k * x) /\ k <= y /\ k < p
  <2>1. k \in Nat /\ k > 0 /\ Divides(p, k * x)
    OBVIOUS
  <2>2. k <= y
    BY <1>2, <1>3
  <2> HIDE DEF K
  <2> QED BY <2>1, <2>2, <1>0
<1>5. p % k = 0
  <2> DEFINE r == p % k
             q == p \div k
  <2>1. r \in 0..(k - 1) /\ q \in Int /\ p = (k * q) + r
    BY <1>0, <1>4
  <2> HIDE DEF r, q
  <2>2. r * x = (x * p) - (q * (k * x))
    <3>1. r = p - (k * q)
      BY <2>1, <1>0, <1>4
    <3>2. (p - (k * q)) * x = (x * p) - (q * (k * x))
      BY <2>1, <1>0, <1>4
    <3> QED BY <3>1, <3>2
  <2>3. Divides(p, p)
    <3>1. p = p * 1
      BY <1>0
    <3> QED BY <3>1 DEF Divides
  <2>4. k * x \in Int /\ x * p \in Int /\ q * (k * x) \in Int /\ p \in Int
    BY <1>0, <1>4, <2>1
  <2>5. Divides(p, x * p) /\ Divides(p, q * (k * x))
    <3> HIDE DEF K
    <3> QED BY <2>1, <2>3, <2>4, <1>0, <1>4, DividesProduct
  <2>6. Divides(p, r * x)
    <3> HIDE DEF K
    <3>1. Divides(p, (x * p) - (q * (k * x)))
      BY <2>4, <2>5, DividesDifference
    <3> QED BY <2>2, <3>1
  <2>7. r \notin K
    <3>1. r \in Int /\ r < k
      BY <2>1, <1>4
    <3>2. r \in K => k <= r
      BY <1>3
    <3> QED BY <3>1, <3>2, <1>4
  <2>8. r = 0
    <3>1. r \in Nat
      BY <2>1, <1>4
    <3> QED BY <3>1, <2>6, <2>7
  <2> QED BY <2>8 DEF r
<1>6. k = 1
  <2>1. k \in 2..(p - 1) => p % k # 0
    BY DEF IsPrime
  <2>2. k \in Nat /\ k > 0 /\ k < p /\ p \in Nat
    BY <1>0, <1>4
  <2> HIDE DEF K
  <2> QED BY <2>1, <2>2, <1>5
<1>7. x % p = x /\ x # 0
  BY <1>0, ModSmall
<1>8. k * x = x
  BY <1>6, <1>0
<1>9. x % p = 0
  <2> HIDE DEF K
  <2> QED BY <1>0, <1>4, <1>8, DividesMod
<1> QED BY <1>7, <1>9

\* No product of other residues is 0.
LEMMA PrimeProduct ==
  ASSUME NEW p, IsPrime(p), NEW a \in Nat, NEW b \in Nat, Res(p, a ** b) = 0
  PROVE  Res(p, a) = 0 \/ Res(p, b) = 0
<1>1. p \in Nat /\ p > 0
  BY DEF IsPrime
<1> DEFINE x == Res(p, a)
           y == Res(p, b)
<1>2. x \in 0..(p - 1) /\ y \in 0..(p - 1)
  BY <1>1, ResType
<1>3. Res(p, x) = Res(p, a) /\ Res(p, y) = Res(p, b)
  BY <1>1, ResRes
<1> HIDE DEF x, y
<1>4. Res(p, x ** y) = 0
  <2>1. Res(p, x ** y) = Res(p, a ** b)
    <3>1. x \in Nat /\ y \in Nat
      BY <1>1, <1>2
    <3> QED BY <1>1, <1>3, <3>1, ResTimesBoth
  <2> QED BY <2>1
<1>5. SUFFICES ASSUME x # 0, y # 0 PROVE FALSE
  BY DEF x, y
<1>6. x \in 1..(p - 1) /\ y \in 1..(p - 1)
  BY <1>1, <1>2, <1>5
<1>7. (x * y) % p # 0
  BY <1>6, PrimeDividesFactor
<1> QED BY <1>4, <1>7 DEF Res, **

\* Other residues may be cancelled.
LEMMA ResCancelTimes ==
  ASSUME NEW p, IsPrime(p), NEW a \in Nat, NEW b \in Nat, NEW c \in Nat, Res(p, c) # 0,
         Res(p, a ** c) = Res(p, b ** c)
  PROVE  Res(p, a) = Res(p, b)
<1>1. p \in Nat /\ p > 0
  BY DEF IsPrime
<1>2. ASSUME NEW u \in Nat, NEW v \in Nat, u >= v, Res(p, u ** c) = Res(p, v ** c)
      PROVE Res(p, u) = Res(p, v)
  <2> DEFINE d == u - v
             m == v ** c
             n == d ** c
  <2>1. d \in Nat /\ u = d ++ v /\ m \in Nat /\ n \in Nat
    BY <1>2 DEF ++, **
  <2> HIDE DEF d
  <2>2. u ** c = n ++ m
    BY <2>1, ThreeNumbers
  <2>3. Res(p, n ++ m) = Res(p, m)
    BY <1>2, <2>2
  <2>4. Res(p, n) = 0
    <3> HIDE DEF m, n
    <3> QED BY <1>1, <2>1, <2>3, ResZero
  <2>5. Res(p, d) = 0
    BY <2>1, <2>4, PrimeProduct DEF n
  <2>6. Res(p, d ++ v) = Res(p, v)
    BY <1>1, <2>1, <2>5, ResZero
  <2> QED BY <2>1, <2>6
<1>3. a >= b \/ b >= a
  OBVIOUS
<1> QED BY <1>2, <1>3

\* They have an inverse.
LEMMA InverseExists ==
  ASSUME NEW p, IsPrime(p), NEW x \in Nat, Res(p, x) # 0
  PROVE  \E y \in 1..(p - 1) : Res(p, x ** y) = 1
<1>1. p \in Nat /\ p > 1 /\ p > 0
  BY DEF IsPrime
<1> DEFINE S == 1..(p - 1)
           f == [y \in S |-> Res(p, y ** x)]
<1>2. ASSUME NEW y \in S PROVE Res(p, y) = y /\ f[y] \in S
  <2>1. y \in Nat /\ y < p /\ y # 0
    BY <1>1
  <2>2. Res(p, y) = y
    BY <1>1, <2>1, ResSmall
  <2>3. Res(p, y ** x) # 0
    BY <2>1, <2>2, PrimeProduct
  <2>4. Res(p, y ** x) \in 0..(p - 1)
    <3>1. y ** x \in Nat
      BY <2>1, SumAndProduct
    <3> QED BY <1>1, <3>1, ResType
  <2> QED BY <1>1, <2>2, <2>3, <2>4
<1>3. ASSUME NEW y \in S, NEW z \in S, f[y] = f[z] PROVE y = z
  <2>1. Res(p, y ** x) = Res(p, z ** x) /\ y \in Nat /\ z \in Nat
    BY <1>3
  <2>2. Res(p, y) = Res(p, z)
    BY <1>1, <2>1, ResCancelTimes
  <2> QED BY <1>2, <2>2
<1>4. IsFiniteSet(S) /\ Cardinality(S) = Cardinality(S)
  BY <1>1, FS_Interval
<1>5. f \in Injection(S, S)
  <2>1. f \in [S -> S]
    BY <1>2
  <2> HIDE DEF f, S
  <2> QED BY <1>3, <2>1 DEF Injection, IsInjective
<1>6. f \in Surjection(S, S)
  <2> HIDE DEF f, S
  <2> QED BY <1>4, <1>5, FS_Injection
<1>7. 1 \in S
  BY <1>1
<1>8. PICK y \in S : f[y] = 1
  <2> HIDE DEF f, S
  <2> QED BY <1>6, <1>7 DEF Surjection
<1>9. Res(p, y ** x) = 1 /\ y ** x = x ** y
  BY <1>8, SumAndProduct
<1> QED BY <1>9

\* No power of a residue other than 0 is 0.
LEMMA PowNotZero ==
  ASSUME NEW p, IsPrime(p), NEW x \in Nat, Res(p, x) # 0, NEW n \in Nat
  PROVE  Res(p, Pow(x)[n]) # 0
<1>1. p \in Nat /\ p > 1 /\ p > 0
  BY DEF IsPrime
<1> DEFINE N == {k \in Nat : Res(p, Pow(x)[k]) # 0}
<1>2. 0 \in N
  <2>1. Res(p, 1) = 1
    BY <1>1, ResSmall
  <2> QED BY <2>1, PowFirst
<1>3. ASSUME NEW k \in Nat, k \in N PROVE k + 1 \in N
  <2> DEFINE a == Pow(x)[k]
  <2>1. a \in Nat /\ Res(p, a) # 0 /\ Pow(x)[k + 1] = a ** x
    BY <1>3, PowEquation
  <2> HIDE DEF a
  <2>2. Res(p, a ** x) # 0
    BY <2>1, PrimeProduct
  <2> QED BY <2>1, <2>2
<1> HIDE DEF N
<1>4. Nat \subseteq N
  BY <1>2, <1>3, NatSetInduction
<1> QED BY <1>4 DEF N
-----------------------------------------------------------------------------
(***************************************************************************)
(* Generators and roots of unity.                                          *)
(***************************************************************************)
\* g generates every residue but 0.
IsGenerator(p, g) ==
  /\ g \in 1..(p - 1)
  /\ \A y \in 1..(p - 1) : \E n \in 1..(p - 1) : Res(p, Pow(g)[n]) = y

\* s is the order of w: the powers of w that are 1 are those to a multiple of s.
HasOrder(p, w, s) ==
  /\ w \in Nat /\ s \in Nat \ {0}
  /\ \A n \in Nat : Res(p, Pow(w)[n]) = 1 <=> n % s = 0

\* Quotient and remainder.
LEMMA DivisionType ==
  ASSUME NEW s \in Nat \ {0}, NEW n \in Nat
  PROVE  n \div s \in Nat /\ n % s \in 0..(s - 1) /\ n % s \in Nat /\ n = (s * (n \div s)) + (n % s)
OBVIOUS

\* A power by the quotient and the remainder of its exponent.
LEMMA PowDivided ==
  ASSUME NEW x \in Nat, NEW s \in Nat \ {0}, NEW n \in Nat
  PROVE  /\ n \div s \in Nat /\ n % s \in 0..(s - 1)
         /\ Pow(x)[n] = Pow(Pow(x)[s])[n \div s] ** Pow(x)[n % s]
<1> DEFINE q == n \div s
           r == n % s
<1>1. q \in Nat /\ r \in 0..(s - 1) /\ n = (s * q) + r
  OBVIOUS
<1> HIDE DEF q, r
<1> DEFINE m == s * q
<1>2. m \in Nat /\ n = m + r /\ r \in Nat /\ s \in Nat
  BY <1>1
<1>3. Pow(Pow(x)[s])[q] = Pow(x)[m]
  BY <1>1, PowPow
<1> HIDE DEF m
<1>4. Pow(x)[m + r] = Pow(x)[m] ** Pow(x)[r]
  BY <1>2, PowPlus
<1> QED BY <1>1, <1>2, <1>3, <1>4 DEF q, r

\* If the power to s is 1, the remainder of the exponent is all that counts.
LEMMA PowModulo ==
  ASSUME NEW p, IsPrime(p), NEW x \in Nat, NEW s \in Nat \ {0}, Res(p, Pow(x)[s]) = 1,
         NEW n \in Nat
  PROVE  Res(p, Pow(x)[n]) = Res(p, Pow(x)[n % s])
<1>1. p \in Nat /\ p > 1 /\ p > 0
  BY DEF IsPrime
<1> DEFINE q == n \div s
           r == n % s
           y == Pow(x)[s]
           z == Pow(y)[q]
           v == Pow(x)[r]
<1>2. q \in Nat /\ r \in Nat /\ Pow(x)[n] = z ** v
  BY PowDivided
<1>3. y \in Nat /\ v \in Nat
  <2> HIDE DEF r
  <2> QED BY <1>2, PowType
<1>4. z \in Nat /\ Res(p, z) = 1
  <2> HIDE DEF y, q
  <2>1. Res(p, y) = Res(p, 1)
    BY <1>1, ResSmall DEF y
  <2>2. Res(p, Pow(y)[q]) = Res(p, Pow(1)[q])
    BY <1>1, <1>2, <1>3, <2>1, ResPow
  <2>3. Pow(1)[q] = 1
    BY <1>2, PowOne
  <2> QED BY <1>1, <1>2, <1>3, <2>2, <2>3, PowType, ResSmall
<1> HIDE DEF z, v
<1>5. Res(p, z ** v) = Res(p, 1 ** v)
  <2>1. Res(p, z) = Res(p, 1)
    BY <1>1, <1>4, ResSmall
  <2> QED BY <1>1, <1>3, <1>4, <2>1, ResTimes
<1>6. 1 ** v = v
  BY <1>3, SumAndProduct
<1> QED BY <1>2, <1>5, <1>6 DEF v

\* A generator has the order p - 1.
LEMMA GeneratorOrder ==
  ASSUME NEW p, IsPrime(p), NEW g, IsGenerator(p, g)
  PROVE  HasOrder(p, g, p - 1)
<1>1. p \in Nat /\ p > 1 /\ p > 0 /\ p - 1 \in Nat \ {0}
  BY DEF IsPrime
<1> DEFINE S == 1..(p - 1)
           f == [n \in S |-> Res(p, Pow(g)[n])]
<1>2. g \in Nat /\ Res(p, g) = g /\ g # 0
  <2>1. g \in 1..(p - 1)
    BY DEF IsGenerator
  <2> QED BY <1>1, <2>1, ResSmall
<1>3. ASSUME NEW n \in Nat PROVE Res(p, Pow(g)[n]) \in S
  <2>1. Res(p, Pow(g)[n]) # 0
    BY <1>2, PowNotZero
  <2>2. Res(p, Pow(g)[n]) \in 0..(p - 1)
    <3>1. Pow(g)[n] \in Nat
      BY <1>2, PowType
    <3> QED BY <1>1, <3>1, ResType
  <2> QED BY <1>1, <2>1, <2>2
<1>4. f \in Surjection(S, S)
  <2>1. f \in [S -> S]
    <3>1. S \subseteq Nat
      OBVIOUS
    <3> HIDE DEF S
    <3> QED BY <1>3, <3>1
  <2>2. \A y \in S : \E n \in S : f[n] = y
    BY DEF IsGenerator
  <2> HIDE DEF f, S
  <2> QED BY <2>1, <2>2 DEF Surjection
<1>5. IsFiniteSet(S) /\ Cardinality(S) = Cardinality(S)
  BY <1>1, FS_Interval
<1>6. f \in Injection(S, S)
  <2> HIDE DEF f, S
  <2> QED BY <1>4, <1>5, FS_Surjection
<1>7. \A m, n \in S : f[m] = f[n] => m = n
  <2> HIDE DEF f, S
  <2> QED BY <1>6 DEF Injection, IsInjective
<1>8. Res(p, Pow(g)[p - 1]) = 1
  <2>1. 1 \in S
    BY <1>1
  <2>2. PICK m \in S : Res(p, Pow(g)[m]) = 1
    BY <2>1 DEF IsGenerator
  <2>3. SUFFICES ASSUME m # p - 1 PROVE FALSE
    BY <2>2
  <2>4. m + 1 \in S /\ m \in Nat
    BY <1>1, <2>3
  <2> DEFINE a == Pow(g)[m]
  <2>5. a \in Nat /\ Pow(g)[m + 1] = a ** g
    BY <1>2, <2>4, PowEquation
  <2>6. Res(p, a) = Res(p, 1)
    BY <1>1, <2>2, ResSmall
  <2> HIDE DEF a
  <2>7. Res(p, a ** g) = Res(p, 1 ** g)
    BY <1>1, <1>2, <2>5, <2>6, ResTimes
  <2>8. 1 ** g = g /\ Pow(g)[1] = g
    BY <1>2, SumAndProduct, PowFirst
  <2>9. f[m + 1] = f[1]
    BY <2>1, <2>4, <2>5, <2>7, <2>8
  <2>10. m + 1 = 1
    <3> HIDE DEF f, S
    <3> QED BY <2>1, <2>4, <2>9, <1>7
  <2> QED BY <2>4, <2>10
<1>9. ASSUME NEW n \in Nat PROVE Res(p, Pow(g)[n]) = 1 <=> n % (p - 1) = 0
  <2> DEFINE s == p - 1
             r == n % s
  <2>1. r \in 0..(s - 1) /\ s \in Nat \ {0}
    BY <1>1
  <2>2. Res(p, Pow(g)[n]) = Res(p, Pow(g)[r])
    <3> HIDE DEF s
    <3> QED BY <1>2, <1>8, <2>1, PowModulo DEF s
  <2>3. ASSUME r = 0 PROVE Res(p, Pow(g)[r]) = 1
    BY <1>1, <1>2, <2>3, PowFirst, ResSmall
  <2>4. ASSUME r # 0, Res(p, Pow(g)[r]) = 1 PROVE FALSE
    <3>1. r \in S /\ s \in S /\ r # s
      BY <1>1, <2>1, <2>4
    <3>2. f[r] = f[s]
      <4> HIDE DEF r, s
      <4> QED BY <1>8, <2>4, <3>1 DEF s
    <3> HIDE DEF r, s, f, S
    <3> QED BY <1>7, <3>1, <3>2
  <2> HIDE DEF r, s
  <2>5. Res(p, Pow(g)[n]) = 1 <=> r = 0
    BY <2>2, <2>3, <2>4
  <2> QED BY <2>5 DEF r, s
<1> QED BY <1>1, <1>2, <1>9 DEF HasOrder

\* A common factor of a number and the modulus does not matter.
LEMMA MultipleOfProduct ==
  ASSUME NEW d \in Nat \ {0}, NEW s \in Nat \ {0}, NEW n \in Nat
  PROVE  (d * n) % (d * s) = 0 <=> n % s = 0
<1> DEFINE a == d * n
           b == d * s
<1>1. a \in Nat /\ b \in Nat /\ b > 0
  OBVIOUS
<1>2. n % s = 0 => a % b = 0
  <2>1. SUFFICES ASSUME n % s = 0 PROVE a % b = 0
    OBVIOUS
  <2> DEFINE q == n \div s
  <2>2. q \in Nat /\ n = s * q
    BY <2>1
  <2> HIDE DEF q
  <2>3. a = (b * q) + 0
    BY <2>2
  <2> HIDE DEF a, b
  <2> QED BY <1>1, <2>2, <2>3, ModUnique
<1>3. a % b = 0 => n % s = 0
  <2>1. SUFFICES ASSUME a % b = 0 PROVE n % s = 0
    OBVIOUS
  <2> DEFINE q == a \div b
  <2>2. q \in Nat /\ a = b * q
    <3> HIDE DEF a, b
    <3> QED BY <1>1, <2>1
  <2> HIDE DEF q
  <2>3. n = (s * q) + 0
    <3>1. d * n = d * (s * q)
      BY <2>2
    <3>2. s * q \in Nat
      BY <2>2
    <3> DEFINE t == s * q
    <3> HIDE DEF t
    <3>3. n = t
      BY <3>1, <3>2 DEF t
    <3> QED BY <3>2, <3>3 DEF t
  <2> QED BY <2>2, <2>3, ModUnique
<1> QED BY <1>2, <1>3

\* The generator to a divisor of p - 1 has the other divisor as its order.
LEMMA RootHasOrder ==
  ASSUME NEW p, IsPrime(p), NEW g, IsGenerator(p, g), NEW d \in Nat \ {0}, NEW s \in Nat \ {0},
         p - 1 = d * s, NEW w \in Nat, Res(p, w) = Res(p, Pow(g)[d])
  PROVE  HasOrder(p, w, s)
<1>1. p \in Nat /\ p > 1 /\ p > 0 /\ g \in Nat
  BY DEF IsPrime, IsGenerator
<1>2. ASSUME NEW n \in Nat PROVE Res(p, Pow(w)[n]) = 1 <=> n % s = 0
  <2> DEFINE x == Pow(g)[d]
             m == d * n
             o == p - 1
  <2>1. x \in Nat /\ m \in Nat
    BY <1>1, PowType
  <2>2. Res(p, Pow(w)[n]) = Res(p, Pow(x)[n])
    <3> HIDE DEF x
    <3> QED BY <1>1, <2>1, ResPow DEF x
  <2>3. Pow(x)[n] = Pow(g)[m]
    BY <1>1, PowPow
  <2>4. Res(p, Pow(g)[m]) = 1 <=> m % o = 0
    <3>1. HasOrder(p, g, o)
      BY GeneratorOrder
    <3> HIDE DEF m, o
    <3> QED BY <2>1, <3>1 DEF HasOrder
  <2>5. m % o = 0 <=> n % s = 0
    <3>1. o = d * s
      OBVIOUS
    <3>2. (d * n) % (d * s) = 0 <=> n % s = 0
      BY MultipleOfProduct
    <3> HIDE DEF o
    <3> QED BY <3>1, <3>2
  <2> QED BY <2>2, <2>3, <2>4, <2>5
<1> QED BY <1>2 DEF HasOrder

\* What has an order is not 0, and its power to the order is 1.
LEMMA OrderPower ==
  ASSUME NEW p, IsPrime(p), NEW w, NEW s, HasOrder(p, w, s)
  PROVE  Res(p, Pow(w)[s]) = 1 /\ Res(p, w) # 0
<1>1. p \in Nat /\ p > 1 /\ p > 0 /\ w \in Nat /\ s \in Nat \ {0}
  BY DEF IsPrime, HasOrder
<1>2. Res(p, Pow(w)[s]) = 1
  <2>1. s % s = 0
    BY <1>1
  <2> QED BY <1>1, <2>1 DEF HasOrder
<1>3. ASSUME Res(p, w) = 0 PROVE FALSE
  <2> DEFINE m == s - 1
             a == Pow(w)[m]
  <2>1. m \in Nat /\ s = m + 1
    BY <1>1
  <2> HIDE DEF m
  <2>2. a \in Nat /\ Pow(w)[m + 1] = a ** w
    BY <1>1, <2>1, PowEquation
  <2> HIDE DEF a
  <2>3. Res(p, w ** a) = Res(p, 0 ** a)
    <3>1. Res(p, w) = Res(p, 0)
      BY <1>1, <1>3, ResSmall
    <3> QED BY <1>1, <2>2, <3>1, ResTimes
  <2>4. w ** a = a ** w /\ 0 ** a = 0 /\ Res(p, 0) = 0
    BY <1>1, <2>2, SumAndProduct, ResSmall
  <2> QED BY <1>2, <2>1, <2>2, <2>3, <2>4
<1> QED BY <1>2, <1>3

\* Exponents count modulo the order only, and below the order they do count.
LEMMA PowersRepeat ==
  ASSUME NEW p, IsPrime(p), NEW w, NEW s, HasOrder(p, w, s), NEW m \in Nat, NEW n \in Nat,
         m % s = n % s
  PROVE  Res(p, Pow(w)[m]) = Res(p, Pow(w)[n])
<1>1. w \in Nat /\ s \in Nat \ {0} /\ Res(p, Pow(w)[s]) = 1
  BY OrderPower DEF HasOrder
<1>2. Res(p, Pow(w)[m]) = Res(p, Pow(w)[m % s]) /\ Res(p, Pow(w)[n]) = Res(p, Pow(w)[n % s])
  BY <1>1, PowModulo
<1> QED BY <1>2

\* Below the order, the powers differ.
LEMMA PowersDistinct ==
  ASSUME NEW p, IsPrime(p), NEW w, NEW s, HasOrder(p, w, s), NEW k \in 0..(s - 1),
         NEW l \in 0..(s - 1), Res(p, Pow(w)[k]) = Res(p, Pow(w)[l])
  PROVE  k = l
<1>1. p \in Nat /\ p > 1 /\ p > 0 /\ w \in Nat /\ s \in Nat \ {0}
  BY DEF IsPrime, HasOrder
<1>2. ASSUME NEW i \in 0..(s - 1), NEW j \in 0..(s - 1), i <= j,
             Res(p, Pow(w)[i]) = Res(p, Pow(w)[j])
      PROVE i = j
  <2> DEFINE d == j - i
             a == Pow(w)[i]
             b == Pow(w)[d]
  <2>1. d \in Nat /\ i \in Nat /\ j = d + i /\ d < s
    BY <1>1, <1>2
  <2> HIDE DEF d
  <2>2. a \in Nat /\ b \in Nat
    BY <1>1, <2>1, PowType
  <2>3. Pow(w)[d + i] = b ** a
    BY <1>1, <2>1, PowPlus
  <2>4. Res(p, a) # 0
    BY <1>1, <2>1, OrderPower, PowNotZero
  <2>5. Res(p, b) = Res(p, 1)
    <3>1. 1 ** a = a
      BY <2>2, SumAndProduct
    <3>2. Res(p, b ** a) = Res(p, 1 ** a)
      BY <1>2, <2>1, <2>3, <3>1
    <3> HIDE DEF a, b
    <3> QED BY <2>2, <2>4, <3>2, ResCancelTimes
  <2>6. Res(p, 1) = 1
    BY <1>1, ResSmall
  <2>7. d % s = 0
    BY <2>1, <2>5, <2>6 DEF HasOrder
  <2>8. d % s = d
    BY <1>1, <2>1
  <2> QED BY <2>1, <2>7, <2>8
<1>3. k <= l \/ l <= k
  BY <1>1
<1> QED BY <1>2, <1>3

\* What is 1 to the power of the order is a power of the root.
LEMMA RootsArePowers ==
  ASSUME NEW p, IsPrime(p), NEW g, IsGenerator(p, g), NEW d \in Nat \ {0}, NEW s \in Nat \ {0},
         p - 1 = d * s, NEW w \in Nat, Res(p, w) = Res(p, Pow(g)[d]),
         NEW y \in Nat, Res(p, Pow(y)[s]) = 1
  PROVE  \E k \in 0..(s - 1) : Res(p, y) = Res(p, Pow(w)[k])
<1>1. p \in Nat /\ p > 1 /\ p > 0 /\ g \in Nat
  BY DEF IsPrime, IsGenerator
<1>2. HasOrder(p, w, s)
  BY RootHasOrder
<1>3. Res(p, y) # 0
  <2> DEFINE t == s - 1
             a == Pow(y)[t]
  <2>1. t \in Nat /\ s = t + 1
    OBVIOUS
  <2> HIDE DEF t
  <2>2. a \in Nat /\ Pow(y)[t + 1] = a ** y
    BY <2>1, PowEquation
  <2> HIDE DEF a
  <2>3. SUFFICES ASSUME Res(p, y) = Res(p, 0) PROVE FALSE
    BY <1>1, ResSmall
  <2>4. Res(p, y ** a) = Res(p, 0 ** a)
    BY <1>1, <2>2, <2>3, ResTimes
  <2>5. y ** a = a ** y /\ 0 ** a = 0 /\ Res(p, 0) = 0
    BY <1>1, <2>2, SumAndProduct, ResSmall
  <2> QED BY <2>1, <2>2, <2>4, <2>5
<1>4. PICK n \in 1..(p - 1) : Res(p, Pow(g)[n]) = Res(p, y)
  <2>1. Res(p, y) \in 1..(p - 1)
    BY <1>1, <1>3, ResType
  <2> QED BY <2>1 DEF IsGenerator
<1>5. n \in Nat
  OBVIOUS
<1> DEFINE x == Pow(g)[n]
           m == n * s
           o == p - 1
<1>6. x \in Nat /\ m \in Nat /\ Pow(x)[s] = Pow(g)[m]
  <2>1. s \in Nat
    OBVIOUS
  <2>2. x \in Nat
    BY <1>1, <1>5, PowType
  <2>3. m \in Nat
    BY <1>5, <2>1
  <2>4. Pow(Pow(g)[n])[s] = Pow(g)[n * s]
    <3> HIDE DEF x, m, o
    <3> QED BY <1>1, <1>5, <2>1, PowPow
  <2> QED BY <2>2, <2>3, <2>4
<1>7. Res(p, Pow(g)[m]) = 1
  <2> HIDE DEF x, m
  <2>1. Res(p, Pow(x)[s]) = Res(p, Pow(y)[s])
    BY <1>1, <1>4, <1>6, ResPow DEF x
  <2> QED BY <1>6, <2>1
<1>8. m % o = 0
  <2>1. HasOrder(p, g, o)
    BY GeneratorOrder
  <2> HIDE DEF m, o
  <2> QED BY <1>6, <1>7, <2>1 DEF HasOrder
<1>9. n % d = 0
  <2>1. m = s * n /\ o = s * d
    BY <1>5
  <2>2. (s * n) % (s * d) = 0 <=> n % d = 0
    BY <1>5, MultipleOfProduct
  <2> HIDE DEF m, o
  <2> QED BY <1>8, <2>1, <2>2
<1> DEFINE e == n \div d
           k == e % s
           v == Pow(g)[d]
<1>10. e \in Nat /\ n = d * e /\ k \in 0..(s - 1)
  BY <1>5, <1>9
<1>11. Pow(v)[e] = Pow(g)[n] /\ v \in Nat
  <2>1. Pow(v)[e] = Pow(g)[d * e]
    <3> HIDE DEF e
    <3> QED BY <1>1, <1>10, PowPow
  <2> QED BY <1>1, <1>10, <2>1, PowType
<1>12. Res(p, Pow(w)[e]) = Res(p, Pow(v)[e])
  <2> HIDE DEF e
  <2>1. v \in Nat /\ Res(p, w) = Res(p, v)
    BY <1>1, PowType
  <2> HIDE DEF v
  <2> QED BY <1>1, <1>10, <2>1, ResPow
<1>13. Res(p, Pow(w)[e]) = Res(p, Pow(w)[k])
  <2>1. Res(p, Pow(w)[s]) = 1
    BY <1>2, OrderPower
  <2> HIDE DEF e
  <2> QED BY <1>10, <2>1, PowModulo
<1> HIDE DEF e, k, v
<1> QED BY <1>4, <1>10, <1>11, <1>12, <1>13

\* The sum of a list added to another entry by entry.
LEMMA SumOfSums ==
  ASSUME NEW S, IsFiniteSet(S), NEW f, NEW g, NEW h,
         \A x \in S : f[x] \in Nat /\ g[x] \in Nat /\ h[x] = f[x] + g[x]
  PROVE  Sum(h, S) = Sum(f, S) + Sum(g, S)
<1> DEFINE Q == {T \in SUBSET S : Sum(h, T) = Sum(f, T) + Sum(g, T)}
<1>0. \A x \in S : h[x] \in Nat
  OBVIOUS
<1>1. {} \in Q
  <2>1. Sum(f, {}) = 0 /\ Sum(g, {}) = 0 /\ Sum(h, {}) = 0
    BY SumEquation
  <2> QED BY <2>1
<1>2. ASSUME NEW T \in SUBSET S, NEW x \in S, T \in Q, x \notin T PROVE T \union {x} \in Q
  <2>1. IsFiniteSet(T) /\ T \union {x} \in SUBSET S /\ \A y \in T \union {x} : y \in S
    BY FS_Subset
  <2>2. Sum(f, T \union {x}) = f[x] + Sum(f, T)
    BY <1>2, <2>1, SumAdd
  <2>3. Sum(g, T \union {x}) = g[x] + Sum(g, T)
    BY <1>2, <2>1, SumAdd
  <2>4. Sum(h, T \union {x}) = h[x] + Sum(h, T)
    BY <1>0, <1>2, <2>1, SumAdd
  <2>5. Sum(f, T) \in Nat /\ Sum(g, T) \in Nat
    BY <2>1, SumType
  <2> QED BY <1>2, <2>1, <2>2, <2>3, <2>4, <2>5
<1> HIDE DEF Q
<1>3. S \in Q
  BY <1>1, <1>2, FiniteSetInduction
<1> QED BY <1>3 DEF Q

\* Integers: the sum of a list added to another entry by entry.
LEMMA IntegerSumOfSums ==
  ASSUME NEW S, IsFiniteSet(S), NEW f, NEW g, NEW h,
         \A x \in S : f[x] \in Int /\ g[x] \in Int /\ h[x] = f[x] + g[x]
  PROVE  Sum(h, S) = Sum(f, S) + Sum(g, S)
<1> DEFINE Q == {T \in SUBSET S : Sum(h, T) = Sum(f, T) + Sum(g, T)}
<1>0. \A x \in S : h[x] \in Int
  OBVIOUS
<1>1. {} \in Q
  <2>1. Sum(f, {}) = 0 /\ Sum(g, {}) = 0 /\ Sum(h, {}) = 0
    BY SumEquation
  <2> QED BY <2>1
<1>2. ASSUME NEW T \in SUBSET S, NEW x \in S, T \in Q, x \notin T PROVE T \union {x} \in Q
  <2>1. IsFiniteSet(T) /\ T \union {x} \in SUBSET S /\ \A y \in T \union {x} : y \in S
    BY FS_Subset
  <2>2. Sum(f, T \union {x}) = f[x] + Sum(f, T)
    BY <1>2, <2>1, IntegerSumAdd
  <2>3. Sum(g, T \union {x}) = g[x] + Sum(g, T)
    BY <1>2, <2>1, IntegerSumAdd
  <2>4. Sum(h, T \union {x}) = h[x] + Sum(h, T)
    BY <1>0, <1>2, <2>1, IntegerSumAdd
  <2>5. Sum(f, T) \in Int /\ Sum(g, T) \in Int
    BY <2>1, IntegerSumType
  <2> QED BY <1>2, <2>1, <2>2, <2>3, <2>4, <2>5
<1> HIDE DEF Q
<1>3. S \in Q
  BY <1>1, <1>2, FiniteSetInduction
<1> QED BY <1>3 DEF Q

\* Entries between bounds add up to as many times the bounds.
LEMMA IntegerSumBounds ==
  ASSUME NEW S, IsFiniteSet(S), NEW low \in Int, NEW high \in Int, NEW f,
         \A x \in S : f[x] \in low..high
  PROVE  /\ Sum(f, S) \in Int
         /\ low * Cardinality(S) <= Sum(f, S) /\ Sum(f, S) <= high * Cardinality(S)
<1> DEFINE Q == {T \in SUBSET S : /\ Sum(f, T) \in Int
                                  /\ low * Cardinality(T) <= Sum(f, T)
                                  /\ Sum(f, T) <= high * Cardinality(T)}
<1>1. {} \in Q
  <2>1. Sum(f, {}) = 0 /\ Cardinality({}) = 0
    BY SumEquation, FS_EmptySet
  <2> QED BY <2>1
<1>2. ASSUME NEW T \in SUBSET S, NEW x \in S, T \in Q, x \notin T PROVE T \union {x} \in Q
  <2>1. IsFiniteSet(T) /\ T \union {x} \in SUBSET S /\ \A y \in T \union {x} : f[y] \in Int
    BY FS_Subset
  <2>2. Sum(f, T \union {x}) = f[x] + Sum(f, T)
    BY <1>2, <2>1, IntegerSumAdd
  <2>3. Cardinality(T) \in Nat /\ Cardinality(T \union {x}) = Cardinality(T) + 1
    BY <1>2, <2>1, FS_AddElement, FS_CardinalityType
  <2>4. \A k \in Nat : /\ low * (k + 1) = low + low * k /\ high * (k + 1) = high + high * k
                       /\ low * k \in Int /\ high * k \in Int
    OBVIOUS
  <2>5. f[x] \in Int /\ low <= f[x] /\ f[x] <= high
    OBVIOUS
  <2>6. /\ Sum(f, T) \in Int
        /\ low * Cardinality(T) <= Sum(f, T) /\ Sum(f, T) <= high * Cardinality(T)
    BY <1>2
  <2>7. /\ f[x] + Sum(f, T) \in Int
        /\ low + low * Cardinality(T) <= f[x] + Sum(f, T)
        /\ f[x] + Sum(f, T) <= high + high * Cardinality(T)
    <3> DEFINE u == Sum(f, T)
               y == f[x]
               l == low * Cardinality(T)
               h == high * Cardinality(T)
    <3>1. u \in Int /\ y \in Int /\ l \in Int /\ h \in Int /\ l <= u /\ u <= h /\ low <= y /\ y <= high
      BY <2>3, <2>4, <2>5, <2>6
    <3> HIDE DEF u, y, l, h
    <3>2. y + u \in Int /\ low + l <= y + u /\ y + u <= high + h
      BY <3>1
    <3> QED BY <3>2 DEF u, y, l, h
  <2> QED BY <2>1, <2>2, <2>3, <2>4, <2>7
<1> HIDE DEF Q
<1>3. S \in Q
  BY <1>1, <1>2, FiniteSetInduction
<1> QED BY <1>3 DEF Q

\* A list of the same number.
LEMMA SumConstant ==
  ASSUME NEW S, IsFiniteSet(S), NEW k \in Nat, NEW f, \A x \in S : f[x] = k
  PROVE  Sum(f, S) = k * Cardinality(S)
<1> DEFINE Q == {T \in SUBSET S : Sum(f, T) = k * Cardinality(T)}
<1>1. {} \in Q
  <2>1. Sum(f, {}) = 0 /\ Cardinality({}) = 0
    BY SumEquation, FS_EmptySet
  <2> QED BY <2>1
<1>2. ASSUME NEW T \in SUBSET S, NEW x \in S, T \in Q, x \notin T PROVE T \union {x} \in Q
  <2>1. IsFiniteSet(T) /\ T \union {x} \in SUBSET S /\ \A y \in T \union {x} : f[y] \in Nat
    BY FS_Subset
  <2>2. Sum(f, T \union {x}) = k + Sum(f, T)
    BY <1>2, <2>1, SumAdd
  <2>3. Cardinality(T) \in Nat /\ Cardinality(T \union {x}) = Cardinality(T) + 1
    BY <1>2, <2>1, FS_AddElement, FS_CardinalityType
  <2>4. k * (Cardinality(T) + 1) = k + k * Cardinality(T)
    BY <2>3
  <2> QED BY <1>2, <2>1, <2>2, <2>3, <2>4
<1> HIDE DEF Q
<1>3. S \in Q
  BY <1>1, <1>2, FiniteSetInduction
<1> QED BY <1>3 DEF Q

\* The sum of a table row by row and column by column.
RowSums(m, S, T) == [x \in S |-> Sum(m[x], T)]
ColumnSums(m, S, T) == [y \in T |-> Sum([x \in S |-> m[x][y]], S)]

\* Both are sums of all entries.
LEMMA RowsAndColumns ==
  ASSUME NEW S, IsFiniteSet(S), NEW T, IsFiniteSet(T), NEW m \in [S -> [T -> Nat]]
  PROVE  Sum(RowSums(m, S, T), S) = Sum(ColumnSums(m, S, T), T)
<1> DEFINE rows == [x \in S |-> Sum(m[x], T)]
           col(y) == [x \in S |-> m[x][y]]
           cols(U) == [y \in T |-> Sum(col(y), U)]
           Q == {U \in SUBSET S : Sum(rows, U) = Sum(cols(U), T)}
<1>1. \A x \in S : rows[x] \in Nat /\ rows[x] = Sum(m[x], T)
  <2>1. ASSUME NEW x \in S PROVE Sum(m[x], T) \in Nat
    BY SumType
  <2> QED BY <2>1
<1>2. ASSUME NEW y \in T PROVE \A x \in S : col(y)[x] \in Nat /\ col(y)[x] = m[x][y]
  OBVIOUS
<1>3. ASSUME NEW U \in SUBSET S PROVE \A y \in T : cols(U)[y] \in Nat /\ cols(U)[y] = Sum(col(y), U)
  <2>1. ASSUME NEW y \in T PROVE Sum(col(y), U) \in Nat
    <3>1. IsFiniteSet(U) /\ \A x \in U : col(y)[x] \in Nat
      BY FS_Subset
    <3> HIDE DEF col
    <3> QED BY <3>1, SumType
  <2> HIDE DEF col
  <2> QED BY <2>1
<1> HIDE DEF rows, col, cols
<1>4. {} \in Q
  <2>1. Sum(rows, {}) = 0
    BY SumEquation
  <2>2. \A y \in T : cols({})[y] = 0
    <3>1. ASSUME NEW y \in T PROVE cols({})[y] = 0
      <4>1. Sum(col(y), {}) = 0
        BY FS_EmptySet, SumEquation
      <4>2. {} \in SUBSET S
        OBVIOUS
      <4> QED BY <4>1, <4>2, <1>3
    <3> QED BY <3>1
  <2>3. Sum(cols({}), T) = 0
    BY <2>2, SumZeros
  <2> QED BY <2>1, <2>3
<1>5. ASSUME NEW U \in SUBSET S, NEW x \in S, U \in Q, x \notin U PROVE U \union {x} \in Q
  <2>1. IsFiniteSet(U) /\ U \union {x} \in SUBSET S /\ \A z \in U \union {x} : z \in S
    BY FS_Subset
  <2>2. Sum(rows, U \union {x}) = rows[x] + Sum(rows, U)
    BY <1>1, <1>5, <2>1, SumAdd
  <2>3. ASSUME NEW y \in T PROVE cols(U \union {x})[y] = m[x][y] + cols(U)[y]
    <3>1. \A z \in U \union {x} : col(y)[z] \in Nat
      BY <1>2, <2>1
    <3>2. Sum(col(y), U \union {x}) = col(y)[x] + Sum(col(y), U)
      BY <1>5, <2>1, <3>1, SumAdd
    <3>3. col(y)[x] = m[x][y]
      BY <1>2
    <3>4. cols(U \union {x})[y] = Sum(col(y), U \union {x})
      BY <1>3, <2>1
    <3>5. cols(U)[y] = Sum(col(y), U)
      BY <1>3
    <3> QED BY <3>2, <3>3, <3>4, <3>5, Zenon
  <2>4. \A y \in T : m[x][y] \in Nat /\ cols(U)[y] \in Nat
                       /\ cols(U \union {x})[y] = m[x][y] + cols(U)[y]
    <3>1. \A y \in T : m[x][y] \in Nat
      OBVIOUS
    <3>2. \A y \in T : cols(U)[y] \in Nat
      BY <1>3
    <3> QED BY <3>1, <3>2, <2>3
  <2>5. Sum(cols(U \union {x}), T) = Sum(m[x], T) + Sum(cols(U), T)
    BY <2>4, SumOfSums
  <2>6. Sum(rows, U) = Sum(cols(U), T)
    BY <1>5
  <2>7. Sum(rows, U \union {x}) = Sum(cols(U \union {x}), T)
    BY <2>2, <2>5, <2>6, <1>1
  <2> QED BY <2>1, <2>7
<1> HIDE DEF Q
<1>6. S \in Q
  BY <1>4, <1>5, FiniteSetInduction
<1>7. Sum(rows, S) = Sum(cols(S), T)
  BY <1>6 DEF Q
<1> QED BY <1>7 DEF rows, cols, col, RowSums, ColumnSums

-----------------------------------------------------------------------------
(***************************************************************************)
(* Sums and their residues.                                                *)
(***************************************************************************)

\* The sum of one number.
LEMMA SumOne ==
  ASSUME NEW f, NEW e, f[e] \in Nat
  PROVE  Sum(f, {e}) = f[e]
<1>1. IsFiniteSet({e}) /\ {e} \ {e} = {} /\ e \in {e} /\ \A x \in {e} : f[x] \in Nat
  BY FS_Singleton
<1>2. Sum(f, {e}) = f[e] + Sum(f, {e} \ {e})
  BY <1>1, SumRemove
<1>3. Sum(f, {}) = 0
  BY FS_EmptySet, SumEquation
<1> QED BY <1>1, <1>2, <1>3

\* A sum whose terms are all 0 but one.
LEMMA SumOnly ==
  ASSUME NEW f, NEW S, IsFiniteSet(S), NEW e \in S, f[e] \in Nat, \A x \in S \ {e} : f[x] = 0
  PROVE  Sum(f, S) = f[e]
<1>1. \A x \in S : f[x] \in Nat
  OBVIOUS
<1>2. Sum(f, S) = f[e] + Sum(f, S \ {e})
  BY <1>1, SumRemove
<1>3. IsFiniteSet(S \ {e})
  BY FS_Subset
<1>4. Sum(f, S \ {e}) = 0
  <2> DEFINE T == S \ {e}
  <2>1. IsFiniteSet(T) /\ \A x \in T : f[x] = 0
    BY <1>3
  <2> HIDE DEF T
  <2>2. Sum(f, T) = 0
    BY <2>1, SumZeros
  <2> QED BY <2>2 DEF T
<1> QED BY <1>2, <1>4

\* The residue of a sum follows from those of its terms.
LEMMA SumResidue ==
  ASSUME NEW p \in Nat, p > 0, NEW S, IsFiniteSet(S), NEW f, NEW g,
         \A x \in S : f[x] \in Nat /\ g[x] \in Nat /\ Res(p, f[x]) = Res(p, g[x])
  PROVE  Res(p, Sum(f, S)) = Res(p, Sum(g, S))
<1> DEFINE Q == {T \in SUBSET S : Res(p, Sum(f, T)) = Res(p, Sum(g, T))}
<1>1. {} \in Q
  <2>1. Sum(f, {}) = 0 /\ Sum(g, {}) = 0
    BY FS_EmptySet, SumEquation
  <2> QED BY <2>1
<1>2. ASSUME NEW T \in SUBSET S, NEW x \in S, T \in Q, x \notin T PROVE T \union {x} \in Q
  <2> DEFINE a == Sum(f, T)
             b == Sum(g, T)
             c == f[x]
             d == g[x]
  <2>1. IsFiniteSet(T) /\ T \union {x} \in SUBSET S /\ \A y \in T \union {x} : y \in S
    BY FS_Subset
  <2>2. Sum(f, T \union {x}) = f[x] + Sum(f, T) /\ Sum(g, T \union {x}) = g[x] + Sum(g, T)
    BY <1>2, <2>1, SumAdd
  <2>3. a \in Nat /\ b \in Nat /\ c \in Nat /\ d \in Nat
    BY <2>1, SumType
  <2>4. Res(p, a) = Res(p, b) /\ Res(p, c) = Res(p, d)
    BY <1>2
  <2>5. Sum(f, T \union {x}) = c ++ a /\ Sum(g, T \union {x}) = d ++ b
    BY <2>2 DEF ++
  <2> HIDE DEF a, b, c, d
  <2>6. Res(p, c ++ a) = Res(p, d ++ b)
    BY <2>3, <2>4, ResPlusBoth
  <2> QED BY <2>1, <2>5, <2>6
<1> HIDE DEF Q
<1>3. S \in Q
  BY <1>1, <1>2, FiniteSetInduction
<1> QED BY <1>3 DEF Q

\* A common factor of all terms.
LEMMA SumScaled ==
  ASSUME NEW S, IsFiniteSet(S), NEW f, NEW g, NEW c \in Nat,
         \A x \in S : f[x] \in Nat /\ g[x] = f[x] ** c
  PROVE  Sum(g, S) = Sum(f, S) ** c
<1> DEFINE Q == {T \in SUBSET S : Sum(g, T) = Sum(f, T) ** c}
<1>0. ASSUME NEW x \in S PROVE g[x] \in Nat
  <2>1. f[x] \in Nat /\ g[x] = f[x] ** c
    OBVIOUS
  <2>2. f[x] ** c \in Nat
    BY <2>1, NatProduct
  <2> QED BY <2>1, <2>2
<1>1. {} \in Q
  <2>1. Sum(f, {}) = 0 /\ Sum(g, {}) = 0 /\ 0 ** c = 0
    BY FS_EmptySet, SumEquation, SumAndProduct
  <2> QED BY <2>1
<1>2. ASSUME NEW T \in SUBSET S, NEW x \in S, T \in Q, x \notin T PROVE T \union {x} \in Q
  <2> DEFINE a == Sum(f, T)
             b == f[x]
  <2>1. IsFiniteSet(T) /\ T \union {x} \in SUBSET S /\ \A y \in T \union {x} : y \in S
    BY FS_Subset
  <2>2. Sum(f, T \union {x}) = f[x] + Sum(f, T) /\ Sum(g, T \union {x}) = g[x] + Sum(g, T)
    BY <1>0, <1>2, <2>1, SumAdd
  <2>3. a \in Nat /\ b \in Nat
    BY <2>1, SumType
  <2>4. Sum(g, T) = a ** c /\ g[x] = b ** c
    BY <1>2
  <2>5. Sum(f, T \union {x}) = b ++ a /\ Sum(g, T \union {x}) = (b ** c) ++ (a ** c)
    BY <2>2, <2>4 DEF ++
  <2> HIDE DEF a, b
  <2>6. (b ++ a) ** c = (b ** c) ++ (a ** c)
    BY <2>3, ThreeNumbers
  <2> QED BY <2>1, <2>5, <2>6
<1> HIDE DEF Q
<1>3. S \in Q
  BY <1>1, <1>2, FiniteSetInduction
<1> QED BY <1>3 DEF Q

\* Two sums added term by term.
LEMMA SumOfBoth ==
  ASSUME NEW S, IsFiniteSet(S), NEW f, NEW g, NEW h,
         \A x \in S : f[x] \in Nat /\ g[x] \in Nat /\ h[x] = f[x] ++ g[x]
  PROVE  Sum(h, S) = Sum(f, S) ++ Sum(g, S)
<1>1. \A x \in S : h[x] = f[x] + g[x]
  BY DEF ++
<1>2. Sum(h, S) = Sum(f, S) + Sum(g, S)
  BY <1>1, SumOfSums
<1> QED BY <1>2 DEF ++

\* Two tables of the same numbers, and the sums of the rows of a table.
Transposed(m, t, S, T) ==
  /\ m \in [S -> [T -> Nat]] /\ t \in [T -> [S -> Nat]]
  /\ \A x \in S, y \in T : t[y][x] = m[x][y]
SumsOf(u, m, S, T) == \A x \in S : u[x] = Sum(m[x], T)

\* The order of summation.
LEMMA SumExchange ==
  ASSUME NEW S, IsFiniteSet(S), NEW T, IsFiniteSet(T),
         NEW m, NEW t, Transposed(m, t, S, T), NEW u, SumsOf(u, m, S, T), NEW v, SumsOf(v, t, T, S)
  PROVE  Sum(u, S) = Sum(v, T)
<1>0. /\ m \in [S -> [T -> Nat]] /\ t \in [T -> [S -> Nat]]
      /\ \A x \in S, y \in T : t[y][x] = m[x][y]
      /\ \A x \in S : u[x] = Sum(m[x], T)
      /\ \A y \in T : v[y] = Sum(t[y], S)
  BY DEF Transposed, SumsOf
<1>1. Sum(RowSums(m, S, T), S) = Sum(ColumnSums(m, S, T), T)
  BY <1>0, RowsAndColumns
<1>2. \A x \in S : Sum(m[x], T) \in Nat
  BY <1>0, SumType
<1>3. \A y \in T : Sum(t[y], S) \in Nat
  BY <1>0, SumType
<1>4. Sum(u, S) = Sum(RowSums(m, S, T), S)
  <2> DEFINE r == RowSums(m, S, T)
  <2>1. \A x \in S : u[x] \in Nat /\ u[x] = r[x]
    BY <1>0, <1>2 DEF RowSums
  <2> HIDE DEF r
  <2> QED BY <2>1, SumEqual DEF r
<1>5. Sum(v, T) = Sum(ColumnSums(m, S, T), T)
  <2> DEFINE c == ColumnSums(m, S, T)
  <2>1. ASSUME NEW y \in T PROVE v[y] \in Nat /\ v[y] = c[y]
    <3>1. t[y] = [x \in S |-> m[x][y]]
      BY <1>0
    <3>2. c[y] = Sum([x \in S |-> m[x][y]], S)
      BY DEF ColumnSums
    <3> HIDE DEF c
    <3> QED BY <1>0, <1>3, <3>1, <3>2
  <2> HIDE DEF c
  <2> QED BY <2>1, SumEqual DEF c
<1> QED BY <1>1, <1>4, <1>5

\* The same terms under other names.
LEMMA SumReindexed ==
  ASSUME NEW S, IsFiniteSet(S), NEW T, IsFiniteSet(T), NEW b \in [S -> T],
         \A x, y \in S : b[x] = b[y] => x = y, \A y \in T : \E x \in S : b[x] = y,
         NEW f, \A y \in T : f[y] \in Nat, NEW g, \A x \in S : g[x] = f[b[x]]
  PROVE  Sum(g, S) = Sum(f, T)
<1> DEFINE F == [x \in S |-> {b[x]}]
<1>1. F \in [S -> SUBSET T] /\ \A x \in S : F[x] = {b[x]}
  OBVIOUS
<1> HIDE DEF F
<1>2. \A x, y \in S : x # y => F[x] \intersect F[y] = {}
  BY <1>1
<1>3. \A x \in S : g[x] = Sum(f, F[x])
  <2>1. ASSUME NEW x \in S PROVE g[x] = Sum(f, F[x])
    <3>1. f[b[x]] \in Nat
      OBVIOUS
    <3>2. Sum(f, {b[x]}) = f[b[x]]
      BY <3>1, SumOne
    <3> QED BY <1>1, <3>2
  <2> QED BY <2>1
<1>4. T \in SUBSET T /\ \A y \in T : y \in T <=> \E x \in S : y \in F[x]
  BY <1>1
<1> QED BY <1>1, <1>2, <1>3, <1>4, SumFamily

\* The last of the terms from 0 on.
LEMMA SumLast ==
  ASSUME NEW n \in Nat, NEW f, \A k \in 0..n : f[k] \in Nat
  PROVE  /\ Sum(f, 0..(n - 1)) \in Nat
         /\ Sum(f, 0..n) = Sum(f, 0..(n - 1)) ++ f[n]
<1>1. IsFiniteSet(0..(n - 1)) /\ (0..(n - 1)) \union {n} = 0..n /\ n \notin 0..(n - 1)
  <2>1. IsFiniteSet(0..(n - 1))
    BY FS_Interval
  <2>2. (0..(n - 1)) \union {n} = 0..n
    OBVIOUS
  <2> QED BY <2>1, <2>2
<1>2. \A k \in (0..(n - 1)) \union {n} : f[k] \in Nat
  BY <1>1
<1> DEFINE S == 0..(n - 1)
<1>3. Sum(f, S) \in Nat
  BY <1>1, <1>2, SumType
<1>4. Sum(f, S \union {n}) = f[n] + Sum(f, S)
  <2> HIDE DEF S
  <2> QED BY <1>1, <1>2, SumAdd DEF S
<1>5. f[n] \in Nat
  BY <1>2
<1>6. f[n] + Sum(f, S) = Sum(f, S) ++ f[n]
  <2> HIDE DEF S
  <2> QED BY <1>3, <1>5 DEF ++
<1> QED BY <1>1, <1>3, <1>4, <1>6

\* The sum of no terms.
LEMMA SumNothing ==
  ASSUME NEW f
  PROVE  Sum(f, 0..(0 - 1)) = 0
<1>1. 0..(0 - 1) = {}
  OBVIOUS
<1> QED BY <1>1, FS_EmptySet, SumEquation

\* The sum of the powers of v, times v - 1.
LEMMA Geometric ==
  ASSUME NEW v \in Nat, NEW n \in Nat
  PROVE  /\ Sum(Pow(v), 0..(n - 1)) \in Nat
         /\ (Sum(Pow(v), 0..(n - 1)) ** v) ++ 1 = Sum(Pow(v), 0..(n - 1)) ++ Pow(v)[n]
<1> DEFINE G(k) == Sum(Pow(v), 0..(k - 1))
           N == {k \in Nat : G(k) \in Nat /\ (G(k) ** v) ++ 1 = G(k) ++ Pow(v)[k]}
<1>1. 0 \in N
  <2>1. G(0) = 0 /\ Pow(v)[0] = 1
    BY SumNothing, PowFirst
  <2>2. (0 ** v) ++ 1 = 0 ++ 1
    BY SumAndProduct
  <2> HIDE DEF G
  <2> QED BY <2>1, <2>2
<1>2. ASSUME NEW k \in Nat, k \in N PROVE k + 1 \in N
  <2> DEFINE a == G(k)
             b == Pow(v)[k]
             c == G(k + 1)
  <2>1. a \in Nat /\ b \in Nat /\ (a ** v) ++ 1 = a ++ b
    BY <1>2, PowType
  <2>2. c = a ++ b
    <3>1. (k + 1) - 1 = k /\ \A i \in 0..k : Pow(v)[i] \in Nat
      BY PowType
    <3> QED BY <3>1, SumLast
  <2>3. Pow(v)[k + 1] = b ** v
    BY PowEquation
  <2> HIDE DEF a, b, c, G
  <2>4. c \in Nat
    BY <2>1, <2>2, SumAndProduct
  <2>5. (c ** v) ++ 1 = c ++ (b ** v)
    <3> DEFINE d == a ** v
               e == b ** v
    <3>1. d \in Nat /\ e \in Nat
      BY <2>1, SumAndProduct
    <3>2. c ** v = d ++ e
      BY <2>1, <2>2, ThreeNumbers
    <3> HIDE DEF d, e
    <3>3. (d ++ e) ++ 1 = (d ++ 1) ++ e
      BY <3>1 DEF ++
    <3> QED BY <2>1, <2>2, <3>2, <3>3 DEF d, e
  <2> QED BY <2>3, <2>4, <2>5 DEF c
<1> HIDE DEF N
<1>3. Nat \subseteq N
  BY <1>1, <1>2, NatSetInduction
<1> QED BY <1>3 DEF N

\* The sum of all powers of a power of a root of unity: 0, except of the power that is 1.
LEMMA RootSum ==
  ASSUME NEW p, IsPrime(p), NEW w, NEW s, HasOrder(p, w, s), NEW r \in Nat,
         NEW f, \A k \in 0..(s - 1) : f[k] \in Nat /\ Res(p, f[k]) = Res(p, Pow(w)[r * k])
  PROVE  Res(p, Sum(f, 0..(s - 1))) = IF r % s = 0 THEN Res(p, s) ELSE 0
<1>1. p \in Nat /\ p > 1 /\ p > 0 /\ w \in Nat /\ s \in Nat /\ s # 0
  BY DEF IsPrime, HasOrder
<1> DEFINE S == 0..(s - 1)
           v == Pow(w)[r]
           h == Pow(v)
           t == Sum(h, S)
<1>2. IsFiniteSet(S) /\ \A k \in S : k \in Nat /\ f[k] \in Nat
  <2>1. IsFiniteSet(S)
    BY <1>1, FS_Interval
  <2> QED BY <2>1
<1>3. v \in Nat
  BY <1>1, PowType
<1>4. \A k \in S : h[k] \in Nat /\ Res(p, f[k]) = Res(p, h[k])
  <2>1. ASSUME NEW k \in S PROVE h[k] \in Nat /\ Res(p, f[k]) = Res(p, h[k])
    <3>1. k \in Nat
      BY <1>2
    <3>2. Pow(Pow(w)[r])[k] = Pow(w)[r * k]
      BY <1>1, <3>1, PowPow
    <3> QED BY <1>3, <3>1, <3>2, PowType
  <2> QED BY <2>1
<1>5. Res(p, Sum(f, S)) = Res(p, t)
  <2> HIDE DEF S, h
  <2> QED BY <1>1, <1>2, <1>4, SumResidue
<1>6. Res(p, Pow(v)[s]) = Res(p, 1) /\ Res(p, 1) = 1
  <2>1. Pow(Pow(w)[r])[s] = Pow(w)[r * s]
    BY <1>1, PowPow
  <2> DEFINE m == r * s
  <2>2. m \in Nat /\ m % s = 0
    <3>1. m = s * r
      BY <1>1
    <3>2. m \in Nat
      BY <1>1
    <3>3. (s * r) % s = 0
      BY <1>1
    <3> QED BY <3>1, <3>2, <3>3
  <2>3. Res(p, Pow(w)[m]) = 1
    <3> HIDE DEF m
    <3> QED BY <2>2 DEF HasOrder
  <2> QED BY <1>1, <2>1, <2>3, ResSmall
<1>7. CASE r % s = 0
  <2>1. Res(p, v) = 1
    BY <1>7 DEF HasOrder
  <2>2. \A k \in S : Res(p, h[k]) = Res(p, 1)
    <3>1. ASSUME NEW k \in S PROVE Res(p, h[k]) = Res(p, 1)
      <4>1. k \in Nat /\ Res(p, v) = Res(p, 1)
        BY <1>2, <1>6, <2>1
      <4> HIDE DEF v
      <4>2. Res(p, Pow(v)[k]) = Res(p, Pow(1)[k]) /\ Pow(1)[k] = 1
        BY <1>1, <1>3, <4>1, ResPow, PowOne
      <4> QED BY <4>2
    <3> QED BY <3>1
  <2> DEFINE one == [k \in S |-> 1]
  <2>3. Res(p, t) = Res(p, Sum(one, S))
    <3>1. \A k \in S : h[k] \in Nat /\ one[k] \in Nat /\ Res(p, h[k]) = Res(p, one[k])
      BY <1>4, <2>2
    <3> HIDE DEF S, h, one
    <3> QED BY <1>1, <1>2, <3>1, SumResidue
  <2>4. Sum(one, S) = 1 * Cardinality(S)
    <3>1. \A k \in S : one[k] = 1
      OBVIOUS
    <3> HIDE DEF S, one
    <3> QED BY <1>2, <3>1, SumConstant
  <2>5. Cardinality(S) = s
    BY <1>1, FS_Interval
  <2> HIDE DEF S, t, one
  <2> QED BY <1>1, <1>5, <1>7, <2>3, <2>4, <2>5 DEF S
<1>8. CASE r % s # 0
  <2>1. Res(p, v) # 1
    BY <1>8 DEF HasOrder
  <2> DEFINE q == Pow(v)[s]
  <2>2. t \in Nat /\ (t ** v) ++ 1 = t ++ q
    <3> HIDE DEF v
    <3> QED BY <1>1, <1>3, Geometric
  <2>3. q \in Nat
    <3> HIDE DEF v
    <3> QED BY <1>1, <1>3, PowType
  <2>4. Res(p, q) = Res(p, 1)
    BY <1>6
  <2> HIDE DEF t, q, v
  <2>5. Res(p, (t ** v) ++ 1) = Res(p, t ++ 1)
    <3>1. Res(p, q ++ t) = Res(p, 1 ++ t)
      BY <1>1, <2>2, <2>3, <2>4, ResPlus
    <3>2. q ++ t = t ++ q /\ 1 ++ t = t ++ 1
      BY <2>2, <2>3, SumAndProduct
    <3> QED BY <2>2, <3>1, <3>2
  <2>6. Res(p, v ** t) = Res(p, 1 ** t)
    <3>1. t ** v \in Nat /\ t ** v = v ** t /\ 1 ** t = t
      BY <1>3, <2>2, SumAndProduct
    <3>2. Res(p, t ** v) = Res(p, t)
      BY <1>1, <2>2, <2>5, <3>1, ResCancelPlus
    <3> QED BY <3>1, <3>2
  <2>7. Res(p, t) = 0
    <3>1. SUFFICES ASSUME Res(p, t) # 0 PROVE FALSE
      OBVIOUS
    <3>2. Res(p, v) = Res(p, 1)
      BY <1>3, <2>2, <2>6, <3>1, ResCancelTimes
    <3> QED BY <1>6, <2>1, <3>2
  <2> QED BY <1>5, <1>8, <2>7
<1> QED BY <1>7, <1>8

-----------------------------------------------------------------------------
(***************************************************************************)
(* The coset h, h w, h w^2, ... and a number x outside it: u lists the     *)
(* inverses of x - h w^k.                                                  *)
(***************************************************************************)
CosetInverses(p, w, s, h, x, u) ==
  \A k \in 0..(s - 1) : /\ u[k] \in Nat
                        /\ Res(p, u[k] ** x) = Res(p, (u[k] ** (h ** Pow(w)[k])) ++ 1)

\* The sum of the inverses, each times its power of w to the mth.
MomentTerms(w, s, u, m) == [k \in 0..(s - 1) |-> Pow(w)[k * m] ** u[k]]
Moment(w, s, u, m)      == Sum(MomentTerms(w, s, u, m), 0..(s - 1))

\* The moments are natural numbers, and so are their terms.
LEMMA MomentTermsType ==
  ASSUME NEW p, IsPrime(p), NEW w, NEW s, HasOrder(p, w, s), NEW h, NEW x, NEW u,
         CosetInverses(p, w, s, h, x, u), NEW m \in Nat
  PROVE  /\ \A k \in 0..(s - 1) : /\ Pow(w)[k * m] \in Nat /\ u[k] \in Nat
                                  /\ MomentTerms(w, s, u, m)[k] = Pow(w)[k * m] ** u[k]
                                  /\ MomentTerms(w, s, u, m)[k] \in Nat
         /\ Moment(w, s, u, m) \in Nat
<1>1. p \in Nat /\ p > 0 /\ w \in Nat /\ s \in Nat /\ s # 0
  BY DEF IsPrime, HasOrder
<1> DEFINE S == 0..(s - 1)
           f == MomentTerms(w, s, u, m)
<1>2. ASSUME NEW k \in S PROVE Pow(w)[k * m] \in Nat /\ u[k] \in Nat /\ f[k] \in Nat
                               /\ f[k] = Pow(w)[k * m] ** u[k]
  <2>1. k \in Nat
    BY <1>1
  <2> DEFINE j == k * m
  <2>2. j \in Nat
    BY <2>1
  <2>3. u[k] \in Nat /\ f[k] = Pow(w)[k * m] ** u[k]
    BY DEF CosetInverses, MomentTerms
  <2>4. Pow(w)[k * m] \in Nat
    <3>1. Pow(w)[j] \in Nat
      <4> HIDE DEF j
      <4> QED BY <1>1, <2>2, PowType
    <3> QED BY <3>1
  <2> DEFINE z == Pow(w)[k * m]
             c == u[k]
  <2>5. z ** c \in Nat
    <3>1. z \in Nat /\ c \in Nat
      BY <2>3, <2>4
    <3> HIDE DEF z, c
    <3> QED BY <3>1, NatSum, NatProduct
  <2> QED BY <2>3, <2>4, <2>5
<1>3. IsFiniteSet(S)
  BY <1>1, FS_Interval
<1>4. Sum(f, S) \in Nat
  <2> HIDE DEF f, S
  <2> QED BY <1>2, <1>3, SumType
<1> QED BY <1>2, <1>4 DEF Moment

\* A moment times x is h times the next, but for s when the powers of w add up to it.
LEMMA MomentStep ==
  ASSUME NEW p, IsPrime(p), NEW w, NEW s, HasOrder(p, w, s), NEW h \in Nat, NEW x \in Nat, NEW u,
         CosetInverses(p, w, s, h, x, u), NEW m \in Nat, NEW n, n = m + 1,
         NEW e, e = IF m % s = 0 THEN s ELSE 0
  PROVE  Res(p, Moment(w, s, u, m) ** x) = Res(p, (Moment(w, s, u, n) ** h) ++ e)
<1>1. p \in Nat /\ p > 1 /\ p > 0 /\ w \in Nat /\ s \in Nat /\ s # 0 /\ n \in Nat
  BY DEF IsPrime, HasOrder
<1> DEFINE S == 0..(s - 1)
           f == MomentTerms(w, s, u, m)
           g == MomentTerms(w, s, u, n)
           r == [k \in S |-> Pow(w)[k * m]]
           F == [k \in S |-> f[k] ** x]
           G == [k \in S |-> g[k] ** h]
           H == [k \in S |-> G[k] ++ r[k]]
<1>2. IsFiniteSet(S)
  BY <1>1, FS_Interval
<1>3. \A k \in S : f[k] \in Nat /\ g[k] \in Nat /\ r[k] \in Nat
  BY <1>1, MomentTermsType
<1>4. \A k \in S : F[k] = f[k] ** x /\ G[k] = g[k] ** h /\ H[k] = G[k] ++ r[k]
  <2> HIDE DEF S, f, g, r
  <2> QED OBVIOUS
<1>5. \A k \in S : F[k] \in Nat /\ G[k] \in Nat /\ H[k] \in Nat
  <2> HIDE DEF S, f, g, r, F, G, H
  <2>1. \A k \in S : F[k] \in Nat /\ G[k] \in Nat
    BY <1>3, <1>4, NatProduct
  <2>2. ASSUME NEW k \in S PROVE H[k] \in Nat
    <3> DEFINE a == G[k]
               b == r[k]
    <3>1. a \in Nat /\ b \in Nat /\ H[k] = a ++ b
      BY <1>3, <1>4, <2>1
    <3> HIDE DEF a, b
    <3> QED BY <3>1, NatSum, NatProduct
  <2> QED BY <2>1, <2>2
<1>6. ASSUME NEW k \in S PROVE Res(p, F[k]) = Res(p, H[k])
  <2>1. k \in Nat
    BY <1>1
  <2> DEFINE a == Pow(w)[k * m]
             b == u[k]
             d == Pow(w)[k]
  <2>2. f[k] = a ** b /\ g[k] = Pow(w)[k * n] ** b /\ r[k] = a
    BY DEF MomentTerms
  <2>3. a \in Nat /\ b \in Nat
    BY MomentTermsType
  <2>4. d \in Nat
    BY <1>1, <2>1, PowType
  <2>5. Pow(w)[k * n] = a ** d
    <3> DEFINE j == k * m
    <3>1. j \in Nat /\ k * n = j + k
      BY <1>1, <2>1
    <3>2. Pow(w)[j + k] = Pow(w)[j] ** Pow(w)[k]
      <4> HIDE DEF j
      <4> QED BY <1>1, <2>1, <3>1, PowPlus
    <3> QED BY <3>1, <3>2
  <2>6. Res(p, b ** x) = Res(p, (b ** (h ** d)) ++ 1)
    BY DEF CosetInverses
  <2>7. F[k] = (a ** b) ** x /\ H[k] = (((a ** d) ** b) ** h) ++ a
    <3> HIDE DEF a, d, f, g, r, F, G, H
    <3> QED BY <1>4, <2>2, <2>5
  <2> HIDE DEF a, b, d, S, f, g, r, F, G, H
  <2> DEFINE y == b ** x
             z == (b ** (h ** d)) ++ 1
  <2>8. y \in Nat /\ z \in Nat /\ h ** d \in Nat /\ b ** (h ** d) \in Nat
    BY <2>3, <2>4, SumAndProduct
  <2>9. (a ** b) ** x = y ** a
    BY <2>3 DEF **
  <2>10. (((a ** d) ** b) ** h) ++ a = z ** a
    BY <2>3, <2>4 DEF **, ++
  <2> HIDE DEF y, z
  <2>11. Res(p, y ** a) = Res(p, z ** a)
    BY <1>1, <2>3, <2>6, <2>8, ResTimes DEF y, z
  <2> QED BY <2>7, <2>9, <2>10, <2>11
<1>7. Sum(F, S) = Moment(w, s, u, m) ** x
  <2>1. Sum(F, S) = Sum(f, S) ** x
    <3> HIDE DEF S, f, F
    <3> QED BY <1>2, <1>3, <1>4, SumScaled
  <2> QED BY <2>1 DEF Moment
<1>8. Sum(G, S) = Moment(w, s, u, n) ** h
  <2>1. Sum(G, S) = Sum(g, S) ** h
    <3> HIDE DEF S, g, G
    <3> QED BY <1>2, <1>3, <1>4, SumScaled
  <2> QED BY <2>1 DEF Moment
<1> DEFINE A == Sum(G, S)
           B == Sum(r, S)
<1>9. Sum(H, S) = A ++ B
  <2> HIDE DEF S, r, G, H
  <2> QED BY <1>2, <1>3, <1>4, <1>5, SumOfBoth
<1>10. A \in Nat /\ B \in Nat
  <2> HIDE DEF S, r, G
  <2> QED BY <1>2, <1>3, <1>5, SumType
<1>11. Res(p, B) = Res(p, e)
  <2>1. ASSUME NEW k \in S PROVE r[k] \in Nat /\ Res(p, r[k]) = Res(p, Pow(w)[m * k])
    <3>1. k * m = m * k
      BY <1>1
    <3>2. r[k] = Pow(w)[m * k]
      BY <3>1
    <3> HIDE DEF r
    <3> QED BY <1>3, <3>2
  <2>2. Res(p, B) = IF m % s = 0 THEN Res(p, s) ELSE 0
    <3> HIDE DEF r
    <3> QED BY <2>1, RootSum
  <2>3. Res(p, 0) = 0
    BY <1>1, ResSmall
  <2> HIDE DEF B
  <2> QED BY <2>2, <2>3
<1>12. Res(p, Sum(F, S)) = Res(p, Sum(H, S))
  <2> HIDE DEF S, F, H
  <2> QED BY <1>1, <1>2, <1>5, <1>6, SumResidue
<1>13. Res(p, A ++ B) = Res(p, A ++ e)
  <2>1. e \in Nat
    BY <1>1
  <2> HIDE DEF A, B
  <2> QED BY <1>1, <1>10, <1>11, <2>1, ResPlusBoth
<1> HIDE DEF S, F, G, H, r
<1> QED BY <1>7, <1>8, <1>9, <1>12, <1>13

\* The moments repeat themselves.
LEMMA MomentsRepeat ==
  ASSUME NEW p, IsPrime(p), NEW w, NEW s, HasOrder(p, w, s), NEW h, NEW x, NEW u,
         CosetInverses(p, w, s, h, x, u), NEW m \in Nat, NEW n \in Nat, m % s = n % s
  PROVE  Res(p, Moment(w, s, u, m)) = Res(p, Moment(w, s, u, n))
<1>1. p \in Nat /\ p > 1 /\ p > 0 /\ w \in Nat /\ s \in Nat /\ s # 0 /\ s > 0
  BY DEF IsPrime, HasOrder
<1> DEFINE S == 0..(s - 1)
           f == MomentTerms(w, s, u, m)
           g == MomentTerms(w, s, u, n)
<1>2. ASSUME NEW k \in S
      PROVE f[k] \in Nat /\ g[k] \in Nat /\ Res(p, f[k]) = Res(p, g[k])
  <2>1. k \in Nat
    BY <1>1
  <2> DEFINE i == k * m
             j == k * n
             a == Pow(w)[i]
             b == Pow(w)[j]
             c == u[k]
  <2>2. i \in Nat /\ j \in Nat
    BY <2>1
  <2>3. f[k] = a ** c /\ g[k] = b ** c
    BY DEF MomentTerms
  <2>4. a \in Nat /\ b \in Nat /\ c \in Nat /\ f[k] \in Nat /\ g[k] \in Nat
    BY MomentTermsType
  <2>5. i % s = j % s
    <3>1. Res(s, m) = Res(s, n)
      BY DEF Res
    <3>2. Res(s, m ** k) = Res(s, n ** k)
      BY <1>1, <2>1, <3>1, ResTimes
    <3>3. m ** k = i /\ n ** k = j
      BY <2>1 DEF **
    <3> QED BY <3>2, <3>3 DEF Res
  <2>6. Res(p, a) = Res(p, b)
    <3> HIDE DEF i, j
    <3> QED BY <2>2, <2>5, PowersRepeat
  <2> HIDE DEF a, b, c, f, g
  <2> QED BY <1>1, <2>3, <2>4, <2>6, ResTimes
<1>3. IsFiniteSet(S)
  BY <1>1, FS_Interval
<1>4. Res(p, Sum(f, S)) = Res(p, Sum(g, S))
  <2> HIDE DEF S, f, g
  <2> QED BY <1>1, <1>2, <1>3, SumResidue
<1> QED BY <1>4 DEF Moment

\* Below the order, the moments are the first one times powers of x over h.
LEMMA MomentPowers ==
  ASSUME NEW p, IsPrime(p), NEW w, NEW s, HasOrder(p, w, s), NEW h \in Nat, NEW x \in Nat, NEW u,
         CosetInverses(p, w, s, h, x, u), NEW r \in 0..(s - 1), NEW m, m = r + 1
  PROVE  Res(p, Pow(h)[r] ** Moment(w, s, u, m)) = Res(p, Pow(x)[r] ** Moment(w, s, u, 1))
<1>1. p \in Nat /\ p > 1 /\ p > 0 /\ w \in Nat /\ s \in Nat /\ s # 0
  BY DEF IsPrime, HasOrder
<1> DEFINE M(k) == Moment(w, s, u, k)
           N == {k \in Nat : k < s => Res(p, Pow(h)[k] ** M(k + 1)) = Res(p, Pow(x)[k] ** M(1))}
<1>2. \A k \in Nat : M(k) \in Nat
  BY MomentTermsType
<1>3. 0 \in N
  <2>1. Pow(h)[0] = 1 /\ Pow(x)[0] = 1 /\ 0 + 1 = 1
    BY PowFirst
  <2> HIDE DEF M
  <2> QED BY <2>1
<1>4. ASSUME NEW k \in Nat, k \in N PROVE k + 1 \in N
  <2>1. SUFFICES ASSUME k + 1 < s
                 PROVE Res(p, Pow(h)[k + 1] ** M((k + 1) + 1)) = Res(p, Pow(x)[k + 1] ** M(1))
    OBVIOUS
  <2> DEFINE a == Pow(h)[k]
             b == Pow(x)[k]
             m0 == M(1)
             m1 == M(k + 1)
             m2 == M((k + 1) + 1)
  <2>2. a \in Nat /\ b \in Nat /\ Pow(h)[k + 1] = a ** h /\ Pow(x)[k + 1] = b ** x
    BY PowEquation
  <2>3. m0 \in Nat /\ m1 \in Nat /\ m2 \in Nat
    <3>1. k + 1 \in Nat /\ (k + 1) + 1 \in Nat
      OBVIOUS
    <3> HIDE DEF M
    <3> QED BY <1>2, <3>1
  <2>4. Res(p, m1 ** x) = Res(p, (m2 ** h) ++ 0)
    <3> DEFINE i == k + 1
               j == i + 1
    <3>1. i \in Nat /\ 0 = IF i % s = 0 THEN s ELSE 0
      BY <1>1, <2>1
    <3>2. j = i + 1
      OBVIOUS
    <3> HIDE DEF i, j
    <3>3. Res(p, Moment(w, s, u, i) ** x) = Res(p, (Moment(w, s, u, j) ** h) ++ 0)
      BY <3>1, <3>2, MomentStep
    <3> QED BY <3>3 DEF i, j
  <2>5. Res(p, a ** m1) = Res(p, b ** m0)
    <3>1. k < s
      BY <1>1, <2>1
    <3> QED BY <1>4, <3>1
  <2> HIDE DEF a, b, m0, m1, m2
  <2> DEFINE y == m1 ** x
             z == m2 ** h
             v == a ** m1
             t == b ** m0
  <2>6. y \in Nat /\ z \in Nat /\ v \in Nat /\ t \in Nat /\ z ++ 0 = z
    BY <2>2, <2>3 DEF **, ++
  <2>7. (a ** h) ** m2 = z ** a /\ y ** a = v ** x /\ t ** x = (b ** x) ** m0
    BY <2>2, <2>3 DEF **
  <2>8. Res(p, y) = Res(p, z)
    BY <2>4, <2>6
  <2>9. Res(p, v) = Res(p, t)
    BY <2>5
  <2> HIDE DEF y, z, v, t
  <2>10. Res(p, y ** a) = Res(p, z ** a) /\ Res(p, v ** x) = Res(p, t ** x)
    BY <1>1, <2>2, <2>6, <2>8, <2>9, ResTimes
  <2>11. Res(p, (a ** h) ** m2) = Res(p, (b ** x) ** m0)
    BY <2>7, <2>10
  <2> QED BY <2>2, <2>11 DEF m2, m0
<1> HIDE DEF N
<1>5. Nat \subseteq N
  BY <1>3, <1>4, NatSetInduction
<1>6. r \in N /\ r < s
  BY <1>1, <1>5
<1>7. Res(p, Pow(h)[r] ** M(r + 1)) = Res(p, Pow(x)[r] ** M(1))
  BY <1>6 DEF N
<1> QED BY <1>7

\* All around the coset.
LEMMA MomentAround ==
  ASSUME NEW p, IsPrime(p), NEW w, NEW s, HasOrder(p, w, s), NEW h \in Nat, NEW x \in Nat, NEW u,
         CosetInverses(p, w, s, h, x, u), NEW r, r = s - 1
  PROVE  Res(p, Pow(x)[s] ** Moment(w, s, u, 1))
           = Res(p, (Pow(h)[s] ** Moment(w, s, u, 1)) ++ (s ** Pow(h)[r]))
<1>1. p \in Nat /\ p > 1 /\ p > 0 /\ w \in Nat /\ s \in Nat /\ s # 0
      /\ r \in Nat /\ r \in 0..(s - 1) /\ s = r + 1
  BY DEF IsPrime, HasOrder
<1> DEFINE a == Pow(h)[r]
           b == Pow(x)[r]
           n == s + 1
           m0 == Moment(w, s, u, 1)
           m1 == Moment(w, s, u, s)
           m2 == Moment(w, s, u, n)
<1>2. a \in Nat /\ b \in Nat /\ Pow(h)[s] = a ** h /\ Pow(x)[s] = b ** x
  <2>1. Pow(h)[r + 1] = a ** h /\ Pow(x)[r + 1] = b ** x
    BY <1>1, PowEquation
  <2> QED BY <1>1, <2>1, PowType
<1>3. m0 \in Nat /\ m1 \in Nat /\ m2 \in Nat
  <2>1. n \in Nat
    BY <1>1
  <2> HIDE DEF n
  <2> QED BY <1>1, <2>1, MomentTermsType
<1>4. Res(p, m1 ** x) = Res(p, (m2 ** h) ++ s)
  <2>1. s = IF s % s = 0 THEN s ELSE 0
    BY <1>1
  <2>2. n = s + 1
    OBVIOUS
  <2> HIDE DEF n
  <2> QED BY <1>1, <2>1, <2>2, MomentStep
<1>5. Res(p, m2) = Res(p, m0)
  <2>1. n \in Nat /\ n % s = 1 % s
    <3>1. n = (s * 1) + 1
      BY <1>1
    <3> DEFINE i == 1 % s
    <3>2. CASE s = 1
      BY <3>2
    <3>3. CASE s # 1
      <4>1. 1 \in 0..(s - 1) /\ 1 % s = 1
        BY <1>1, <3>3
      <4>2. ((s * 1) + 1) % s = 1
        BY <1>1, <4>1, ModUnique
      <4> QED BY <1>1, <3>1, <4>1, <4>2
    <3> QED BY <3>2, <3>3
  <2> HIDE DEF n
  <2> QED BY <2>1, MomentsRepeat
<1>6. Res(p, a ** m1) = Res(p, b ** m0)
  BY <1>1, MomentPowers
<1> HIDE DEF a, b, m0, m1, m2
<1> DEFINE y == m1 ** x
           z == (m2 ** h) ++ s
           v == a ** m1
           t == b ** m0
           c == m2 ** h
           d == m0 ** h
<1>7. y \in Nat /\ z \in Nat /\ v \in Nat /\ t \in Nat /\ c \in Nat /\ d \in Nat
  BY <1>1, <1>2, <1>3 DEF **, ++
<1>8. Res(p, c) = Res(p, d)
  BY <1>1, <1>3, <1>5, ResTimes
<1>9. Res(p, c ++ s) = Res(p, d ++ s)
  <2> HIDE DEF c, d
  <2> QED BY <1>1, <1>7, <1>8, ResPlus
<1>10. y ** a = v ** x /\ t ** x = (b ** x) ** m0
       /\ (d ++ s) ** a = ((a ** h) ** m0) ++ (s ** a)
  BY <1>1, <1>2, <1>3 DEF **, ++
<1>11. Res(p, y) = Res(p, d ++ s)
  BY <1>4, <1>9
<1>12. Res(p, v) = Res(p, t)
  BY <1>6
<1> HIDE DEF y, z, v, t, c, d
<1>13. d ++ s \in Nat
  BY <1>1, <1>7, NatSum
<1> DEFINE f == d ++ s
<1>14. Res(p, y ** a) = Res(p, f ** a) /\ Res(p, v ** x) = Res(p, t ** x)
  <2>1. f \in Nat /\ Res(p, y) = Res(p, f)
    BY <1>11, <1>13
  <2> HIDE DEF f
  <2> QED BY <1>1, <1>2, <1>7, <1>12, <2>1, ResTimes
<1>15. Res(p, (b ** x) ** m0) = Res(p, ((a ** h) ** m0) ++ (s ** a))
  BY <1>10, <1>14
<1> QED BY <1>2, <1>15 DEF m0, a

\* The sum of the inverses, each times its power of w, and its inverse c.
LEMMA MomentInverse ==
  ASSUME NEW p, IsPrime(p), NEW w, NEW s, HasOrder(p, w, s), Res(p, s) # 0,
         NEW h \in Nat, Res(p, h) # 0, NEW x \in Nat, NEW u, CosetInverses(p, w, s, h, x, u),
         NEW r, r = s - 1, NEW c \in Nat,
         Res(p, (c ** (s ** Pow(h)[r])) ++ Pow(h)[s]) = Res(p, Pow(x)[s])
  PROVE  Res(p, c ** Moment(w, s, u, 1)) = 1
<1>1. p \in Nat /\ p > 1 /\ p > 0 /\ w \in Nat /\ s \in Nat /\ s # 0 /\ r \in Nat
  BY DEF IsPrime, HasOrder
<1> DEFINE a == Pow(h)[r]
           b == Pow(h)[s]
           d == Pow(x)[s]
           m == Moment(w, s, u, 1)
           e == s ** a
<1>2. a \in Nat /\ b \in Nat /\ d \in Nat /\ m \in Nat
  BY <1>1, PowType, MomentTermsType
<1>3. Res(p, a) # 0
  BY <1>1, PowNotZero
<1>4. Res(p, d ** m) = Res(p, (b ** m) ++ e)
  BY MomentAround
<1>5. Res(p, (c ** e) ++ b) = Res(p, d)
  OBVIOUS
<1> HIDE DEF a, b, d, m
<1>6. e \in Nat
  BY <1>1, <1>2, NatProduct
<1>7. Res(p, e) # 0
  BY <1>1, <1>2, <1>3, PrimeProduct
<1> HIDE DEF e
<1> DEFINE f == (c ** e) ++ b
           i == c ** m
           j == i ** e
           k == b ** m
<1>8. f \in Nat /\ i \in Nat /\ j \in Nat /\ k \in Nat
  BY <1>2, <1>6 DEF **, ++
<1>9. f ** m = j ++ k /\ 1 ** e = e
  BY <1>2, <1>6 DEF **, ++
<1>10. k ++ e = e ++ k
  BY <1>6, <1>8 DEF ++
<1> HIDE DEF f, k
<1>11. Res(p, f ** m) = Res(p, d ** m)
  <2>1. Res(p, f) = Res(p, d)
    BY <1>5 DEF f
  <2> QED BY <1>1, <1>2, <1>8, <2>1, ResTimes
<1>12. Res(p, j ++ k) = Res(p, e ++ k)
  <2>1. Res(p, d ** m) = Res(p, k ++ e)
    BY <1>4 DEF k
  <2> QED BY <1>9, <1>10, <1>11, <2>1
<1>13. Res(p, j) = Res(p, e)
  <2> HIDE DEF j
  <2> QED BY <1>1, <1>6, <1>8, <1>12, ResCancelPlus
<1>14. Res(p, i) = Res(p, 1)
  <2>1. Res(p, i ** e) = Res(p, 1 ** e)
    BY <1>9, <1>13
  <2> HIDE DEF i
  <2> QED BY <1>6, <1>7, <1>8, <2>1, ResCancelTimes
<1>15. Res(p, 1) = 1
  BY <1>1, ResSmall
<1> QED BY <1>14, <1>15 DEF i, m

-----------------------------------------------------------------------------
(***************************************************************************)
(* Polynomials: the coefficients a[1], ..., a[L], the value at x, and the  *)
(* value in which the powers by the multiples of s are taken of y and the  *)
(* others of x.                                                            *)
(***************************************************************************)
Coefficients(a, L)    == \A n \in 1..L : a[n] \in Nat
PolyTerms(a, L, x) == [n \in 1..L |-> a[n] ** Pow(x)[n - 1]]
PolyValue(a, L, x) == Sum(PolyTerms(a, L, x), 1..L)

FoldTerms(a, L, s, x, y) ==
  [n \in 1..L |-> a[n] ** (Pow(y)[(n - 1) \div s] ** Pow(x)[(n - 1) % s])]
FoldValue(a, L, s, x, y) == Sum(FoldTerms(a, L, s, x, y), 1..L)

\* The terms of a polynomial and its value are natural numbers.
LEMMA PolyTermsType ==
  ASSUME NEW L \in Nat, NEW a, Coefficients(a, L), NEW x \in Nat
  PROVE  /\ \A n \in 1..L : /\ PolyTerms(a, L, x)[n] = a[n] ** Pow(x)[n - 1]
                            /\ PolyTerms(a, L, x)[n] \in Nat
         /\ PolyValue(a, L, x) \in Nat
<1> DEFINE T == 1..L
           f == PolyTerms(a, L, x)
<1>1. ASSUME NEW n \in T PROVE f[n] = a[n] ** Pow(x)[n - 1] /\ f[n] \in Nat
  <2> DEFINE j == n - 1
             b == a[n]
             c == Pow(x)[j]
  <2>1. j \in Nat /\ b \in Nat
    BY DEF Coefficients
  <2>2. c \in Nat
    <3> HIDE DEF j
    <3> QED BY <2>1, PowType
  <2>3. f[n] = b ** c
    BY DEF PolyTerms
  <2>4. b ** c \in Nat
    <3> HIDE DEF b, c
    <3> QED BY <2>1, <2>2, NatProduct
  <2> QED BY <2>3, <2>4
<1>2. IsFiniteSet(T)
  BY FS_Interval
<1>3. Sum(f, T) \in Nat
  <2> HIDE DEF f, T
  <2> QED BY <1>1, <1>2, SumType
<1> QED BY <1>1, <1>3 DEF PolyValue

\* And so are those of the folded value.
LEMMA FoldTermsType ==
  ASSUME NEW L \in Nat, NEW a, Coefficients(a, L), NEW s \in Nat \ {0},
         NEW x \in Nat, NEW y \in Nat
  PROVE  /\ \A n \in 1..L : /\ n - 1 \in Nat /\ (n - 1) \div s \in Nat /\ (n - 1) % s \in Nat
                            /\ Pow(y)[(n - 1) \div s] \in Nat /\ Pow(x)[(n - 1) % s] \in Nat
                            /\ FoldTerms(a, L, s, x, y)[n]
                                 = a[n] ** (Pow(y)[(n - 1) \div s] ** Pow(x)[(n - 1) % s])
                            /\ FoldTerms(a, L, s, x, y)[n] \in Nat
         /\ FoldValue(a, L, s, x, y) \in Nat
<1> DEFINE T == 1..L
           f == FoldTerms(a, L, s, x, y)
           q(n) == (n - 1) \div s
           r(n) == (n - 1) % s
<1>1. ASSUME NEW n \in T
      PROVE /\ n - 1 \in Nat /\ q(n) \in Nat /\ r(n) \in Nat
            /\ Pow(y)[q(n)] \in Nat /\ Pow(x)[r(n)] \in Nat
            /\ f[n] = a[n] ** (Pow(y)[q(n)] ** Pow(x)[r(n)]) /\ f[n] \in Nat
  <2> DEFINE j == n - 1
             b == a[n]
             c == Pow(y)[q(n)]
             d == Pow(x)[r(n)]
  <2>1. j \in Nat /\ b \in Nat
    BY DEF Coefficients
  <2>2. q(n) \in Nat /\ r(n) \in Nat
    <3>1. j \div s \in Nat /\ j % s \in Nat
      <4> HIDE DEF j
      <4> QED BY <2>1, DivisionType
    <3> QED BY <3>1
  <2>3. c \in Nat /\ d \in Nat
    <3> HIDE DEF q, r
    <3> QED BY <2>2, PowType
  <2>4. f[n] = b ** (c ** d)
    BY DEF FoldTerms
  <2>5. b ** (c ** d) \in Nat
    <3> HIDE DEF b, c, d
    <3> QED BY <2>1, <2>3, NatProduct
  <2> HIDE DEF f
  <2> QED BY <2>1, <2>2, <2>3, <2>4, <2>5
<1>2. IsFiniteSet(T)
  BY FS_Interval
<1>3. Sum(f, T) \in Nat
  <2> HIDE DEF f, T, q, r
  <2> QED BY <1>1, <1>2, SumType
<1> QED BY <1>1, <1>3 DEF FoldValue

\* The value depends on the residue of the number alone.
LEMMA PolyResidue ==
  ASSUME NEW p \in Nat, p > 0, NEW L \in Nat, NEW a, Coefficients(a, L),
         NEW x \in Nat, NEW y \in Nat, Res(p, x) = Res(p, y)
  PROVE  Res(p, PolyValue(a, L, x)) = Res(p, PolyValue(a, L, y))
<1> DEFINE T == 1..L
           f == PolyTerms(a, L, x)
           g == PolyTerms(a, L, y)
<1>1. ASSUME NEW n \in T PROVE f[n] \in Nat /\ g[n] \in Nat /\ Res(p, f[n]) = Res(p, g[n])
  <2> DEFINE j == n - 1
             b == a[n]
             c == Pow(x)[j]
             d == Pow(y)[j]
  <2>1. j \in Nat /\ b \in Nat
    BY DEF Coefficients
  <2>2. c \in Nat /\ d \in Nat /\ Res(p, c) = Res(p, d)
    <3> HIDE DEF j
    <3> QED BY <2>1, PowType, ResPow
  <2>3. f[n] = b ** c /\ f[n] \in Nat
    BY PolyTermsType
  <2>4. g[n] = b ** d /\ g[n] \in Nat
    BY PolyTermsType
  <2> HIDE DEF b, c, d, f, g
  <2>5. Res(p, c ** b) = Res(p, d ** b)
    BY <2>1, <2>2, ResTimes
  <2>6. c ** b = b ** c /\ d ** b = b ** d
    BY <2>1, <2>2, SumAndProduct
  <2> QED BY <2>3, <2>4, <2>5, <2>6
<1>2. IsFiniteSet(T)
  BY FS_Interval
<1>3. Res(p, Sum(f, T)) = Res(p, Sum(g, T))
  <2> HIDE DEF f, g, T
  <2> QED BY <1>1, <1>2, SumResidue
<1> QED BY <1>3 DEF PolyValue

\* If y is x to the power s, the folded value is the value.
LEMMA PolyFolds ==
  ASSUME NEW p \in Nat, p > 0, NEW L \in Nat, NEW a, Coefficients(a, L),
         NEW s \in Nat \ {0}, NEW x \in Nat, NEW y \in Nat, Res(p, Pow(x)[s]) = Res(p, y)
  PROVE  Res(p, PolyValue(a, L, x)) = Res(p, FoldValue(a, L, s, x, y))
<1> DEFINE T == 1..L
           f == PolyTerms(a, L, x)
           g == FoldTerms(a, L, s, x, y)
           z == Pow(x)[s]
<1>0. z \in Nat
  BY PowType
<1>1. ASSUME NEW n \in T PROVE f[n] \in Nat /\ g[n] \in Nat /\ Res(p, f[n]) = Res(p, g[n])
  <2> DEFINE j == n - 1
             q == j \div s
             r == j % s
             b == a[n]
             c == Pow(x)[j]
             d == Pow(z)[q]
             e == Pow(x)[r]
             i == Pow(y)[q]
  <2>1. j \in Nat /\ b \in Nat
    BY DEF Coefficients
  <2>2. q \in Nat /\ r \in Nat /\ c = d ** e
    <3> HIDE DEF j
    <3> QED BY <2>1, PowDivided, DivisionType
  <2>3. c \in Nat /\ e \in Nat /\ d \in Nat /\ i \in Nat /\ Res(p, d) = Res(p, i)
    <3> HIDE DEF j, q, r, z
    <3> QED BY <1>0, <2>1, <2>2, PowType, ResPow DEF z
  <2>4. f[n] = b ** c /\ f[n] \in Nat
    BY PolyTermsType
  <2>5. g[n] = b ** (i ** e) /\ g[n] \in Nat
    <3>1. g[n] \in Nat
      BY FoldTermsType
    <3>2. g[n] = b ** (i ** e)
      BY DEF FoldTerms
    <3> QED BY <3>1, <3>2
  <2> HIDE DEF b, c, d, e, i, f, g
  <2> DEFINE k == b ** e
  <2>6. k \in Nat /\ b ** c = d ** k /\ b ** (i ** e) = i ** k
    BY <2>1, <2>2, <2>3 DEF **
  <2> HIDE DEF k
  <2>7. Res(p, d ** k) = Res(p, i ** k)
    BY <2>3, <2>6, ResTimes
  <2> QED BY <2>4, <2>5, <2>6, <2>7
<1>2. IsFiniteSet(T)
  BY FS_Interval
<1>3. Res(p, Sum(f, T)) = Res(p, Sum(g, T))
  <2> HIDE DEF f, g, T
  <2> QED BY <1>1, <1>2, SumResidue
<1> QED BY <1>3 DEF PolyValue, FoldValue

\* Any moment, by the quotient and the remainder of its index.
LEMMA MomentValue ==
  ASSUME NEW p, IsPrime(p), NEW w, NEW s, HasOrder(p, w, s), NEW h \in Nat, NEW x \in Nat, NEW u,
         CosetInverses(p, w, s, h, x, u), NEW j \in Nat, NEW n, n = j + 1
  PROVE  Res(p, Pow(h)[j] ** Moment(w, s, u, n))
           = Res(p, (Pow(Pow(h)[s])[j \div s] ** Pow(x)[j % s]) ** Moment(w, s, u, 1))
<1>1. p \in Nat /\ p > 1 /\ p > 0 /\ w \in Nat /\ s \in Nat /\ s # 0 /\ s > 0 /\ n \in Nat
  BY DEF IsPrime, HasOrder
<1> DEFINE q == j \div s
           r == j % s
           k == r + 1
           H == Pow(Pow(h)[s])[q]
           a == Pow(h)[r]
           b == Pow(x)[r]
           m0 == Moment(w, s, u, 1)
           m1 == Moment(w, s, u, k)
           m2 == Moment(w, s, u, n)
<1>2. q \in Nat /\ r \in Nat /\ r \in 0..(s - 1)
  BY <1>1, DivisionType
<1>3. Pow(h)[j] = H ** a
  BY <1>1, PowDivided, ZenonT(40)
<1>4. H \in Nat /\ a \in Nat /\ b \in Nat
  <2> HIDE DEF q, r
  <2> QED BY <1>1, <1>2, PowType
<1>5. m0 \in Nat /\ m1 \in Nat /\ m2 \in Nat
  <2>1. k \in Nat
    BY <1>2
  <2> HIDE DEF k
  <2> QED BY <1>1, <2>1, MomentTermsType
<1>6. Res(p, a ** m1) = Res(p, b ** m0)
  <2>1. k = r + 1
    OBVIOUS
  <2> HIDE DEF r, k
  <2> QED BY <1>2, <2>1, MomentPowers
<1>7. Res(p, m2) = Res(p, m1)
  <2>1. Res(s, j) = Res(s, r)
    <3>1. r % s = r
      BY <1>1, <1>2
    <3> HIDE DEF r
    <3> QED BY <3>1 DEF Res, r
  <2>2. Res(s, j ++ 1) = Res(s, r ++ 1)
    <3> HIDE DEF r
    <3> QED BY <1>1, <1>2, <2>1, ResPlus
  <2>3. n % s = k % s /\ k \in Nat
    <3>1. j ++ 1 = n /\ r ++ 1 = k
      BY DEF ++
    <3> HIDE DEF r, k
    <3> QED BY <1>2, <2>2, <3>1 DEF Res, k
  <2> HIDE DEF k
  <2> QED BY <1>1, <2>3, MomentsRepeat
<1> HIDE DEF H, a, b, m0, m1, m2
<1> DEFINE y == H ** a
           c == a ** m2
           d == a ** m1
           e == b ** m0
<1>8. y ** m2 = c ** H /\ (H ** b) ** m0 = e ** H /\ c = m2 ** a /\ d = m1 ** a
  BY <1>4, <1>5 DEF **
<1>9. c \in Nat /\ d \in Nat /\ e \in Nat
  BY <1>4, <1>5, NatProduct
<1>10. Res(p, c) = Res(p, e)
  <2>1. Res(p, m2 ** a) = Res(p, m1 ** a)
    BY <1>1, <1>4, <1>5, <1>7, ResTimes
  <2> QED BY <1>6, <1>8, <2>1
<1> HIDE DEF c, e
<1>11. Res(p, c ** H) = Res(p, e ** H)
  BY <1>1, <1>4, <1>9, <1>10, ResTimes
<1> QED BY <1>3, <1>8, <1>11 DEF H, b, m0, m2

\* The terms of the values on the coset, element by element and coefficient by coefficient.
CosetEntry(w, h, u, c, a, k, n) ==
  (u[k] ** (c ** Pow(w)[k])) ** (a[n] ** Pow(h ** Pow(w)[k])[n - 1])
CosetTable(w, s, h, u, c, a, L) ==
  [k \in 0..(s - 1) |-> [n \in 1..L |-> CosetEntry(w, h, u, c, a, k, n)]]
CoefficientTable(w, s, h, u, c, a, L) ==
  [n \in 1..L |-> [k \in 0..(s - 1) |-> CosetEntry(w, h, u, c, a, k, n)]]

\* An entry of the table is a term of a moment.
LEMMA CosetTableEntry ==
  ASSUME NEW p, IsPrime(p), NEW w, NEW s, HasOrder(p, w, s), NEW h \in Nat, NEW x \in Nat, NEW u,
         CosetInverses(p, w, s, h, x, u), NEW c \in Nat,
         NEW L \in Nat, NEW a, Coefficients(a, L),
         NEW k \in 0..(s - 1), NEW n \in 1..L
  PROVE  /\ CosetEntry(w, h, u, c, a, k, n)
              = MomentTerms(w, s, u, n)[k] ** ((a[n] ** c) ** Pow(h)[n - 1])
         /\ CosetEntry(w, h, u, c, a, k, n) \in Nat
         /\ u[k] \in Nat /\ Pow(w)[k] \in Nat
         /\ MomentTerms(w, s, u, n)[k] \in Nat /\ (a[n] ** c) ** Pow(h)[n - 1] \in Nat
<1>1. w \in Nat /\ k \in Nat /\ n \in Nat /\ n - 1 \in Nat
  BY DEF HasOrder
<1> DEFINE j == n - 1
           d == u[k]
           e == Pow(w)[k]
           f == a[n]
           g == Pow(h)[j]
           i == Pow(h ** e)[j]
           l == Pow(e)[j]
           t == MomentTerms(w, s, u, n)[k]
           o == Pow(w)[k * n]
<1>2. f \in Nat /\ d \in Nat /\ t \in Nat /\ t = o ** d /\ o \in Nat
  <2>1. d \in Nat /\ t = o ** d
    BY DEF CosetInverses, MomentTerms
  <2>3. o \in Nat
    <3> DEFINE m == k * n
    <3>1. m \in Nat
      BY <1>1
    <3> HIDE DEF m
    <3> QED BY <1>1, <3>1, PowType DEF m
  <2>4. o ** d \in Nat
    <3> HIDE DEF o, d
    <3> QED BY <2>1, <2>3, NatProduct
  <2>2. f \in Nat
    BY DEF Coefficients
  <2> QED BY <2>1, <2>2, <2>3, <2>4
<1>3. e \in Nat /\ g \in Nat
  <2> HIDE DEF j
  <2> QED BY <1>1, PowType DEF j
<1>4. i = g ** l /\ l \in Nat
  <2> HIDE DEF j, e
  <2> QED BY <1>1, <1>3, PowTimes, PowType DEF j
<1>5. o = l ** e
  <2> DEFINE m == k * j
  <2>1. m \in Nat /\ k * n = m + k
    BY <1>1
  <2>2. Pow(Pow(w)[k])[j] = Pow(w)[m]
    <3> HIDE DEF j
    <3> QED BY <1>1, PowPow DEF j
  <2>3. Pow(w)[m + k] = Pow(w)[m] ** Pow(w)[k]
    <3> HIDE DEF m
    <3> QED BY <1>1, <2>1, PowPlus
  <2> QED BY <2>1, <2>2, <2>3
<1> HIDE DEF d, e, f, g, i, l, t, o
<1>6. (d ** (c ** e)) ** (f ** i) = t ** ((f ** c) ** g)
  BY <1>2, <1>3, <1>4, <1>5 DEF **
<1>7. (d ** (c ** e)) ** (f ** i) \in Nat /\ (f ** c) ** g \in Nat
  BY <1>2, <1>3, <1>4, NatProduct
<1> QED BY <1>1, <1>2, <1>3, <1>6, <1>7 DEF d, e, f, g, i, t, CosetEntry

\* The summands of all the values on a coset, by the elements and by the coefficients.
LEMMA CosetTables ==
  ASSUME NEW p, IsPrime(p), NEW w, NEW s, HasOrder(p, w, s), NEW h \in Nat, NEW x \in Nat, NEW u,
         CosetInverses(p, w, s, h, x, u), NEW c \in Nat,
         NEW L \in Nat, NEW a, Coefficients(a, L)
  PROVE  /\ CosetTable(w, s, h, u, c, a, L) \in [0..(s - 1) -> [1..L -> Nat]]
         /\ CoefficientTable(w, s, h, u, c, a, L) \in [1..L -> [0..(s - 1) -> Nat]]
         /\ \A k \in 0..(s - 1), n \in 1..L :
              CoefficientTable(w, s, h, u, c, a, L)[n][k] = CosetTable(w, s, h, u, c, a, L)[k][n]
<1> DEFINE e(k, n) == CosetEntry(w, h, u, c, a, k, n)
           S == 0..(s - 1)
           T == 1..L
<1>1. \A k \in S : \A n \in T : e(k, n) \in Nat
  <2>1. ASSUME NEW k \in S, NEW n \in T PROVE e(k, n) \in Nat
    BY CosetTableEntry
  <2> QED BY <2>1
<1>2. CosetTable(w, s, h, u, c, a, L) = [k \in S |-> [n \in T |-> e(k, n)]]
  BY DEF CosetTable
<1>3. CoefficientTable(w, s, h, u, c, a, L) = [n \in T |-> [k \in S |-> e(k, n)]]
  BY DEF CoefficientTable
<1> HIDE DEF e
<1>4. [k \in S |-> [n \in T |-> e(k, n)]] \in [S -> [T -> Nat]]
  <2> HIDE DEF S, T
  <2> QED BY <1>1
<1>5. [n \in T |-> [k \in S |-> e(k, n)]] \in [T -> [S -> Nat]]
  <2> HIDE DEF S, T
  <2> QED BY <1>1
<1>6. \A k \in S, n \in T : [i \in T |-> [l \in S |-> e(l, i)]][n][k]
                              = [l \in S |-> [i \in T |-> e(l, i)]][k][n]
  <2> HIDE DEF S, T
  <2> QED OBVIOUS
<1> QED BY <1>2, <1>3, <1>4, <1>5, <1>6

\* v lists the values of a polynomial on the coset, and t what is added up to fold them.
CosetValues(p, w, s, h, a, L, v) ==
  \A k \in 0..(s - 1) :
    v[k] \in Nat /\ Res(p, v[k]) = Res(p, PolyValue(a, L, h ** Pow(w)[k]))
CosetParts(p, w, s, u, c, v, t) ==
  \A k \in 0..(s - 1) :
    t[k] \in Nat /\ Res(p, t[k]) = Res(p, (u[k] ** (c ** Pow(w)[k])) ** v[k])

\* What is folded out of the values on the coset is the folded value.
LEMMA CosetFold ==
  ASSUME NEW p, IsPrime(p), NEW w, NEW s, HasOrder(p, w, s), NEW h \in Nat, NEW x \in Nat, NEW u,
         CosetInverses(p, w, s, h, x, u), NEW c \in Nat, Res(p, c ** Moment(w, s, u, 1)) = 1,
         NEW L \in Nat, NEW a, Coefficients(a, L),
         NEW v, CosetValues(p, w, s, h, a, L, v), NEW t, CosetParts(p, w, s, u, c, v, t)
  PROVE  Res(p, Sum(t, 0..(s - 1))) = Res(p, FoldValue(a, L, s, x, Pow(h)[s]))
<1>1. p \in Nat /\ p > 1 /\ p > 0 /\ w \in Nat /\ s \in Nat \ {0}
  BY DEF IsPrime, HasOrder
<1> DEFINE S == 0..(s - 1)
           T == 1..L
           A == CosetTable(w, s, h, u, c, a, L)
           B == CoefficientTable(w, s, h, u, c, a, L)
           U == [k \in S |-> Sum(A[k], T)]
           V == [n \in T |-> Sum(B[n], S)]
           y == Pow(h)[s]
           F == FoldTerms(a, L, s, x, y)
<1>2. IsFiniteSet(S) /\ IsFiniteSet(T)
  BY <1>1, FS_Interval
<1>3. A \in [S -> [T -> Nat]] /\ B \in [T -> [S -> Nat]] /\ \A k \in S, n \in T : B[n][k] = A[k][n]
  BY CosetTables
<1>4. \A k \in S : U[k] = Sum(A[k], T) /\ U[k] \in Nat
  <2> HIDE DEF S, T, A
  <2>1. \A k \in S : Sum(A[k], T) \in Nat
    BY <1>2, <1>3, SumType
  <2> QED BY <2>1
<1>5. \A n \in T : V[n] = Sum(B[n], S) /\ V[n] \in Nat
  <2> HIDE DEF S, T, B
  <2>1. \A n \in T : Sum(B[n], S) \in Nat
    BY <1>2, <1>3, SumType
  <2> QED BY <2>1
<1>6. y \in Nat
  BY <1>1, PowType
<1>7. ASSUME NEW k \in S PROVE Res(p, t[k]) = Res(p, U[k])
  <2> DEFINE d == u[k] ** (c ** Pow(w)[k])
             z == h ** Pow(w)[k]
             f == PolyTerms(a, L, z)
             e == v[k]
             g == A[k]
  <2>0. e \in Nat /\ Res(p, e) = Res(p, PolyValue(a, L, z))
    BY DEF CosetValues
  <2>1. d \in Nat /\ z \in Nat
    <3>1. k \in Nat
      BY <1>1
    <3> DEFINE i == Pow(w)[k]
               j == u[k]
    <3>2. i \in Nat /\ j \in Nat
      BY <1>1, <3>1, PowType DEF CosetInverses
    <3>3. j ** (c ** i) \in Nat /\ h ** i \in Nat
      <4> HIDE DEF i, j
      <4> QED BY <3>2, NatProduct
    <3> QED BY <3>3
  <2>2. \A n \in T : f[n] \in Nat /\ f[n] = a[n] ** Pow(z)[n - 1]
    <3>1. ASSUME NEW n \in T PROVE f[n] \in Nat /\ f[n] = a[n] ** Pow(z)[n - 1]
      <4> HIDE DEF z
      <4> QED BY <2>1, PolyTermsType
    <3> HIDE DEF f, z
    <3> QED BY <3>1
  <2>3. \A n \in T : g[n] = f[n] ** d
    <3>1. ASSUME NEW n \in T PROVE g[n] = f[n] ** d
      <4>1. g[n] = d ** (a[n] ** Pow(z)[n - 1])
        <5>1. g[n] = CosetEntry(w, h, u, c, a, k, n)
          BY DEF CosetTable
        <5> QED BY <5>1 DEF CosetEntry
      <4>2. f[n] \in Nat /\ f[n] = a[n] ** Pow(z)[n - 1]
        BY <2>2
      <4> HIDE DEF d, z, f, g
      <4> QED BY <2>1, <4>1, <4>2, SumAndProduct
    <3> QED BY <3>1
  <2>4. Sum(g, T) = Sum(f, T) ** d
    <3> HIDE DEF T, d, z, f, g
    <3> QED BY <1>2, <2>1, <2>2, <2>3, SumScaled
  <2> DEFINE i == PolyValue(a, L, z)
  <2>6. i = Sum(f, T) /\ i \in Nat
    <3> HIDE DEF z
    <3> QED BY <2>1, PolyTermsType DEF PolyValue
  <2>7. Res(p, t[k]) = Res(p, d ** e)
    BY DEF CosetParts
  <2>8. U[k] = i ** d
    BY <1>4, <2>4, <2>6
  <2>9. d ** e = e ** d
    <3> HIDE DEF d, e
    <3> QED BY <2>0, <2>1, SumAndProduct
  <2> HIDE DEF d, e, i, U
  <2>10. Res(p, e ** d) = Res(p, i ** d)
    BY <1>1, <2>0, <2>1, <2>6, ResTimes DEF i
  <2> QED BY <2>7, <2>8, <2>9, <2>10
<1>8. ASSUME NEW n \in T PROVE F[n] \in Nat /\ Res(p, V[n]) = Res(p, F[n])
  <2> DEFINE j == n - 1
             M == MomentTerms(w, s, u, n)
             b == a[n]
             i == Pow(h)[j]
             e == (b ** c) ** i
             q == Pow(y)[j \div s]
             r == Pow(x)[j % s]
             m == Moment(w, s, u, n)
             l == Moment(w, s, u, 1)
             g == B[n]
  <2>1. j \in Nat /\ b \in Nat /\ n \in Nat /\ n = j + 1
    BY DEF Coefficients
  <2>2. i \in Nat /\ m \in Nat /\ l \in Nat
    <3> HIDE DEF j
    <3> QED BY <1>1, <2>1, PowType, MomentTermsType
  <2>3. q \in Nat /\ r \in Nat /\ F[n] = b ** (q ** r) /\ F[n] \in Nat
    <3> HIDE DEF y
    <3>1. q \in Nat /\ r \in Nat
      BY <1>1, <1>6, FoldTermsType
    <3>2. F[n] = b ** (q ** r)
      BY DEF FoldTerms
    <3>3. F[n] \in Nat
      BY <1>1, <1>6, FoldTermsType
    <3> QED BY <3>1, <3>2, <3>3
  <2>4. \A k \in S : M[k] \in Nat /\ g[k] = M[k] ** e
    <3>1. ASSUME NEW k \in S PROVE M[k] \in Nat /\ g[k] = M[k] ** e
      <4>1. g[k] = CosetEntry(w, h, u, c, a, k, n)
        BY DEF CoefficientTable
      <4>2. CosetEntry(w, h, u, c, a, k, n)
               = MomentTerms(w, s, u, n)[k] ** ((a[n] ** c) ** Pow(h)[n - 1])
        BY CosetTableEntry
      <4>3. MomentTerms(w, s, u, n)[k] \in Nat
        BY CosetTableEntry
      <4> QED BY <4>1, <4>2, <4>3
    <3> QED BY <3>1
  <2>5. e \in Nat
    <3> HIDE DEF b, i
    <3> QED BY <2>1, <2>2, NatProduct
  <2>6. V[n] = m ** e
    <3>1. Sum(g, S) = Sum(M, S) ** e
      <4> HIDE DEF S, M, e, g
      <4> QED BY <1>2, <2>4, <2>5, SumScaled
    <3> QED BY <3>1, <1>5 DEF Moment
  <2>7. Res(p, i ** m) = Res(p, (q ** r) ** l)
    <3> HIDE DEF j
    <3> QED BY <2>1, MomentValue DEF j
  <2> HIDE DEF b, i, q, r, m, l, V, F
  <2> DEFINE f == i ** m
             o == (q ** r) ** l
             z == b ** c
             x1 == c ** l
             x2 == b ** (q ** r)
  <2>8. f \in Nat /\ o \in Nat /\ z \in Nat /\ x1 \in Nat /\ x2 \in Nat
    BY <2>1, <2>2, <2>3, NatProduct
  <2>9. m ** e = f ** z /\ o ** z = x1 ** x2 /\ 1 ** x2 = x2
    BY <2>1, <2>2, <2>3 DEF **
  <2>10. Res(p, f) = Res(p, o)
    BY <2>7
  <2>11. Res(p, x1) = Res(p, 1)
    BY <1>1, ResSmall DEF l
  <2> HIDE DEF f, o, z, x1, x2, e
  <2>12. Res(p, f ** z) = Res(p, o ** z) /\ Res(p, x1 ** x2) = Res(p, 1 ** x2)
    BY <1>1, <2>8, <2>10, <2>11, ResTimes
  <2>13. Res(p, V[n]) = Res(p, x2)
    BY <2>6, <2>9, <2>12
  <2> QED BY <2>3, <2>13 DEF x2
<1>9. Res(p, Sum(t, S)) = Res(p, Sum(U, S))
  <2>1. \A k \in S : t[k] \in Nat /\ U[k] \in Nat /\ Res(p, t[k]) = Res(p, U[k])
    BY <1>4, <1>7 DEF CosetParts
  <2> HIDE DEF S, T, A, B, U, V, y, F
  <2> QED BY <1>1, <1>2, <2>1, SumResidue
<1>10. Sum(U, S) = Sum(V, T)
  <2> HIDE DEF S, T, A, B, U, V, y, F
  <2>1. Transposed(A, B, S, T)
    BY <1>3 DEF Transposed
  <2>2. SumsOf(U, A, S, T) /\ SumsOf(V, B, T, S)
    BY <1>4, <1>5 DEF SumsOf
  <2> QED BY <1>2, <2>1, <2>2, SumExchange
<1>11. Res(p, Sum(V, T)) = Res(p, Sum(F, T))
  <2>1. \A n \in T : V[n] \in Nat /\ F[n] \in Nat /\ Res(p, V[n]) = Res(p, F[n])
    BY <1>5, <1>8
  <2> HIDE DEF S, T, A, B, U, V, y, F
  <2> QED BY <1>1, <1>2, <2>1, SumResidue
<1> QED BY <1>9, <1>10, <1>11 DEF FoldValue

\* Quotient and remainder are the only ones.
LEMMA QuotientUnique ==
  ASSUME NEW s \in Nat \ {0}, NEW q \in Nat, NEW k \in 0..(s - 1), NEW n, n = (q ** s) ++ k
  PROVE  n \div s = q /\ n % s = k
<1>1. n \in Nat /\ n = (s * q) + k
  BY DEF ++, **
<1>2. n % s = k
  BY <1>1, ModUnique
<1> DEFINE d == n \div s
<1>3. d \in Nat /\ n = (s * d) + k
  BY <1>1, <1>2
<1> HIDE DEF d
<1>4. s * d = s * q
  BY <1>1, <1>3
<1>5. d = q
  BY <1>3, <1>4
<1> QED BY <1>2, <1>5 DEF d

\* The index of the group that a coefficient belongs to.
LEMMA QuotientBound ==
  ASSUME NEW s \in Nat \ {0}, NEW L \in Nat, NEW n \in 1..L
  PROVE  (n - 1) \div s < (L + s - 1) \div s
<1> DEFINE q == (n - 1) \div s
           t == L + s - 1
           d == t \div s
<1>1. q \in Nat /\ n - 1 >= s * q /\ t \in Nat /\ t >= (s * q) + s
  OBVIOUS
<1>2. d \in Nat /\ t < (s * d) + s
  OBVIOUS
<1> HIDE DEF q, d, t
<1>3. (s * q) < (s * d)
  BY <1>1, <1>2
<1>4. q < d
  BY <1>1, <1>2, <1>3
<1> QED BY <1>4 DEF q, d, t

\* The coefficients that go together into the mth of the folded polynomial.
Group(L, s, m) == {k \in 0..(s - 1) : ((m - 1) * s) + k < L}
GroupTerms(a, L, s, m, x) ==
  [k \in Group(L, s, m) |-> a[((m - 1) * s) + k + 1] ** Pow(x)[k]]
FoldedFrom(p, b, B, a, L, s, x) ==
  \A m \in 1..B : /\ b[m] \in Nat
                  /\ Res(p, b[m]) = Res(p, Sum(GroupTerms(a, L, s, m, x), Group(L, s, m)))

\* The terms of the folded value, those with the same power of y together.
LEMMA GroupSum ==
  ASSUME NEW L \in Nat, NEW a, Coefficients(a, L), NEW s \in Nat \ {0}, NEW x \in Nat,
         NEW y \in Nat, NEW m \in Nat \ {0}, NEW q, q = m - 1,
         NEW T, T = {n \in 1..L : (n - 1) \div s = q}
  PROVE  /\ Sum(GroupTerms(a, L, s, m, x), Group(L, s, m)) \in Nat
         /\ Sum(FoldTerms(a, L, s, x, y), T)
              = Sum(GroupTerms(a, L, s, m, x), Group(L, s, m)) ** Pow(y)[q]
<1> DEFINE S == Group(L, s, m)
           f == FoldTerms(a, L, s, x, y)
           g == GroupTerms(a, L, s, m, x)
           o == q * s
           b == [k \in S |-> (o + k) + 1]
           z == Pow(y)[q]
           h == [k \in S |-> g[k] ** z]
<1>1. q \in Nat /\ o \in Nat
  OBVIOUS
<1>2. IsFiniteSet(S) /\ IsFiniteSet(T)
  <2>1. IsFiniteSet(0..(s - 1)) /\ IsFiniteSet(1..L)
    BY FS_Interval
  <2>2. S \subseteq 0..(s - 1) /\ T \subseteq 1..L
    BY DEF Group
  <2> QED BY <2>1, <2>2, FS_Subset
<1>3. ASSUME NEW k \in S
      PROVE /\ k \in 0..(s - 1) /\ b[k] \in T /\ b[k] = (o + k) + 1
            /\ (b[k] - 1) % s = k
  <2>1. k \in 0..(s - 1) /\ o + k < L
    BY DEF Group
  <2> DEFINE n == (o + k) + 1
  <2>2. n \in 1..L /\ n - 1 = o + k
    BY <1>1, <2>1
  <2>3. (n - 1) \div s = q /\ (n - 1) % s = k
    <3> DEFINE j == n - 1
    <3>1. j = (q ** s) ++ k
      BY <2>2 DEF ++, **
    <3> HIDE DEF j
    <3>2. j \div s = q /\ j % s = k
      BY <1>1, <2>1, <3>1, QuotientUnique
    <3> QED BY <3>2 DEF j
  <2>4. b[k] = n
    OBVIOUS
  <2> HIDE DEF n
  <2> QED BY <2>1, <2>2, <2>3, <2>4 DEF n
<1>4. b \in [S -> T]
  <2> HIDE DEF S, o
  <2> QED BY <1>3
<1>5. \A k, l \in S : b[k] = b[l] => k = l
  <2>1. \A k, l \in S : k \in Nat /\ l \in Nat
    BY <1>3
  <2> HIDE DEF S, o
  <2> QED BY <1>1, <2>1
<1>6. ASSUME NEW n \in T PROVE \E k \in S : b[k] = n
  <2> DEFINE j == n - 1
             k == j % s
  <2>1. j \in Nat /\ n \in 1..L /\ j \div s = q /\ j < L
    OBVIOUS
  <2>2. k \in 0..(s - 1) /\ j = o + k
    <3> HIDE DEF j
    <3> QED BY <2>1
  <2>3. k \in S
    <3> HIDE DEF k, j
    <3> QED BY <2>1, <2>2 DEF Group
  <2>4. b[k] = n
    <3>1. b[k] = (o + k) + 1 /\ n = j + 1
      <4> HIDE DEF S, k, o
      <4> QED BY <2>3
    <3> HIDE DEF b, k, o, j
    <3> QED BY <2>2, <3>1
  <2> HIDE DEF S, b, k
  <2> QED BY <2>3, <2>4
<1>7. z \in Nat
  BY <1>1, PowType
<1>8. ASSUME NEW k \in S PROVE g[k] \in Nat /\ f[b[k]] = h[k]
  <2> DEFINE n == b[k]
             c == a[n]
             d == Pow(x)[k]
  <2>1. n \in 1..L /\ k \in Nat /\ (n - 1) \div s = q /\ (n - 1) % s = k
    <3> HIDE DEF S, b
    <3> QED BY <1>3
  <2>2. c \in Nat /\ d \in Nat
    <3> HIDE DEF n
    <3> QED BY <2>1, PowType DEF Coefficients
  <2>3. g[k] = c ** d
    <3>1. n = ((m - 1) * s) + k + 1
      <4> HIDE DEF S
      <4> QED BY <1>3
    <3> HIDE DEF n
    <3> QED BY <3>1 DEF GroupTerms
  <2>4. f[n] = c ** (z ** d)
    <3> HIDE DEF n
    <3> QED BY <2>1 DEF FoldTerms
  <2>5. h[k] = (c ** d) ** z
    BY <2>3
  <2> HIDE DEF n, c, d, z, f, g, h
  <2>6. (c ** d) ** z = c ** (z ** d) /\ c ** d \in Nat
    BY <1>7, <2>2 DEF **
  <2> QED BY <2>3, <2>4, <2>5, <2>6 DEF n
<1>9. Sum(h, S) = Sum(f, T)
  <2>1. \A n \in T : f[n] \in Nat
    <3>1. ASSUME NEW n \in T PROVE f[n] \in Nat
      <4>1. n \in 1..L
        OBVIOUS
      <4> QED BY <4>1, FoldTermsType
    <3> QED BY <3>1
  <2>2. \A k \in S : h[k] = f[b[k]]
    BY <1>8
  <2>3. \A n \in T : \E k \in S : b[k] = n
    BY <1>6
  <2> HIDE DEF S, b, f, h
  <2> QED BY <1>2, <1>4, <1>5, <2>1, <2>2, <2>3, SumReindexed
<1>10. Sum(h, S) = Sum(g, S) ** z
  <2>1. \A k \in S : g[k] \in Nat /\ h[k] = g[k] ** z
    <3> HIDE DEF S, g, z
    <3> QED BY <1>8
  <2> HIDE DEF S, g, h, z
  <2> QED BY <1>2, <1>7, <2>1, SumScaled
<1>11. Sum(g, S) \in Nat
  <2>1. \A k \in S : g[k] \in Nat
    BY <1>8
  <2> HIDE DEF S, g
  <2> QED BY <1>2, <2>1, SumType
<1> QED BY <1>9, <1>10, <1>11

\* How many groups of s there are in L coefficients.
Groups(L, s) == (L + s - 1) \div s

\* The folded value is the value of the polynomial of the folded coefficients.
LEMMA FoldGroups ==
  ASSUME NEW p \in Nat, p > 0, NEW L \in Nat, NEW a, Coefficients(a, L), NEW s \in Nat \ {0},
         NEW x \in Nat, NEW y \in Nat, NEW B, B = Groups(L, s),
         NEW b, FoldedFrom(p, b, B, a, L, s, x)
  PROVE  Res(p, PolyValue(b, B, y)) = Res(p, FoldValue(a, L, s, x, y))
<1>0. B = (L + s - 1) \div s
  BY DEF Groups
<1> USE <1>0
<1>1. B \in Nat
  <2> DEFINE t == L + s - 1
  <2>1. t \in Nat
    OBVIOUS
  <2> HIDE DEF t
  <2>2. t \div s \in Nat
    BY <2>1
  <2> QED BY <2>2 DEF t
<1>2. Coefficients(b, B)
  BY DEF FoldedFrom, Coefficients
<1> DEFINE U == 1..L
           I == 1..B
           F == [m \in I |-> {n \in U : (n - 1) \div s = m - 1}]
           f == FoldTerms(a, L, s, x, y)
           g == PolyTerms(b, B, y)
           h == [m \in I |-> Sum(f, F[m])]
<1>3. IsFiniteSet(U) /\ IsFiniteSet(I)
  BY <1>1, FS_Interval
<1>4. \A n \in U : f[n] \in Nat
  BY FoldTermsType
<1>5. F \in [I -> SUBSET U] /\ \A m \in I : F[m] = {n \in U : (n - 1) \div s = m - 1}
  OBVIOUS
<1>6. \A i, j \in I : i # j => F[i] \intersect F[j] = {}
  <2>1. ASSUME NEW i \in I, NEW j \in I, NEW n \in F[i], n \in F[j] PROVE i = j
    <3>1. (n - 1) \div s = i - 1 /\ (n - 1) \div s = j - 1 /\ i \in Int /\ j \in Int
      BY <2>1
    <3> HIDE DEF F
    <3>2. i - 1 = j - 1
      BY <3>1
    <3> QED BY <3>1, <3>2
  <2> HIDE DEF F, I
  <2> QED BY <2>1
<1>7. ASSUME NEW n \in U PROVE \E m \in I : n \in F[m]
  <2> DEFINE q == (n - 1) \div s
             m == q + 1
  <2>1. q < B
    BY QuotientBound
  <2>2. q \in Nat
    <3>1. n - 1 \in Nat
      OBVIOUS
    <3> QED BY <3>1, DivisionType
  <2> HIDE DEF q
  <2>3. m \in I /\ m - 1 = q
    BY <1>1, <2>1, <2>2
  <2> HIDE DEF I, m, F
  <2>4. n \in F[m]
    BY <1>5, <2>3 DEF q
  <2> QED BY <2>3, <2>4
<1>8. Sum(h, I) = Sum(f, U)
  <2>1. \A m \in I : h[m] = Sum(f, F[m])
    OBVIOUS
  <2>2. U \in SUBSET U /\ \A n \in U : n \in U <=> \E m \in I : n \in F[m]
    BY <1>7
  <2> HIDE DEF U, I, F, f, h
  <2> QED BY <1>3, <1>4, <1>5, <1>6, <2>1, <2>2, SumFamily
<1>9. ASSUME NEW m \in I PROVE h[m] \in Nat /\ g[m] \in Nat /\ Res(p, g[m]) = Res(p, h[m])
  <2> DEFINE q == m - 1
             d == Sum(GroupTerms(a, L, s, m, x), Group(L, s, m))
             z == Pow(y)[q]
             T == F[m]
             c == b[m]
  <2>1. q \in Nat /\ m \in Nat \ {0} /\ T = {n \in 1..L : (n - 1) \div s = q}
    OBVIOUS
  <2>2. d \in Nat /\ Sum(f, T) = d ** z
    <3> HIDE DEF T, q
    <3> QED BY <2>1, GroupSum DEF q
  <2>3. z \in Nat
    <3> HIDE DEF q
    <3> QED BY <2>1, PowType
  <2>4. c \in Nat /\ Res(p, c) = Res(p, d)
    BY DEF FoldedFrom
  <2>5. g[m] = c ** z
    BY DEF PolyTerms
  <2>6. h[m] = d ** z
    BY <2>2
  <2> HIDE DEF d, z, c, g, h, T, q
  <2> QED BY <2>2, <2>3, <2>4, <2>5, <2>6, NatProduct, ResTimes
<1>10. Res(p, Sum(g, I)) = Res(p, Sum(h, I))
  <2> HIDE DEF g, h, I
  <2> QED BY <1>3, <1>9, SumResidue
<1> QED BY <1>8, <1>10 DEF PolyValue, FoldValue

-----------------------------------------------------------------------------
(***************************************************************************)
(* The coefficients of a polynomial out of its values on a coset.          *)
(***************************************************************************)
\* e lists the inverses of the powers to j of 1, w, w^2, ...; t are the terms of the sum that
\* the coefficient is made of.
PowerInverses(p, w, s, j, e) ==
  \A k \in 0..(s - 1) : e[k] \in Nat /\ Res(p, e[k] ** Pow(Pow(w)[k])[j]) = 1
InverseTerms(p, s, v, e, t) ==
  \A k \in 0..(s - 1) : t[k] \in Nat /\ Res(p, t[k]) = Res(p, v[k] ** e[k])

\* The inverse of a power of a root of unity is another one.
LEMMA PowerInverse ==
  ASSUME NEW p, IsPrime(p), NEW w, NEW s, HasOrder(p, w, s), NEW j \in Nat, j <= s,
         NEW e, PowerInverses(p, w, s, j, e), NEW k \in 0..(s - 1), NEW i, i = s - j
  PROVE  e[k] \in Nat /\ i \in Nat /\ Res(p, e[k]) = Res(p, Pow(w)[i * k])
<1>1. p \in Nat /\ p > 1 /\ p > 0 /\ w \in Nat /\ s \in Nat /\ s # 0 /\ k \in Nat /\ i \in Nat
  BY DEF IsPrime, HasOrder
<1> DEFINE a == Pow(w)[k]
           y == Pow(a)[j]
           z == Pow(a)[i]
           d == e[k]
           m == i * k
<1>2. a \in Nat
  BY <1>1, PowType
<1>3. y \in Nat /\ z \in Nat
  <2> HIDE DEF a
  <2> QED BY <1>1, <1>2, PowType
<1>4. d \in Nat /\ Res(p, d ** y) = 1
  BY DEF PowerInverses
<1>5. z = Pow(w)[i * k]
  <2>1. Pow(Pow(w)[k])[i] = Pow(w)[k * i]
    BY <1>1, PowPow
  <2>2. k * i = i * k
    BY <1>1
  <2> QED BY <2>1, <2>2
<1>6. Res(p, y ** z) = 1
  <2>1. y ** z = Pow(a)[j + i]
    <3> HIDE DEF a
    <3> QED BY <1>1, <1>2, PowPlus
  <2>2. j + i = s
    BY <1>1
  <2>3. Pow(a)[s] = Pow(w)[k * s]
    BY <1>1, PowPow
  <2> DEFINE n == k * s
  <2>4. n \in Nat /\ n % s = 0
    BY <1>1
  <2>5. Res(p, Pow(w)[n]) = 1
    <3> HIDE DEF n
    <3> QED BY <2>4 DEF HasOrder
  <2> QED BY <2>1, <2>2, <2>3, <2>5
<1> HIDE DEF a, y, z, d
<1>7. Res(p, 1) = 1
  BY <1>1, ResSmall
<1>8. Res(p, y) # 0
  <2>1. SUFFICES ASSUME Res(p, y) = Res(p, 0) PROVE FALSE
    BY <1>1, ResSmall
  <2>2. Res(p, y ** z) = Res(p, 0 ** z)
    BY <1>1, <1>3, <2>1, ResTimes
  <2>3. 0 ** z = 0 /\ Res(p, 0) = 0
    BY <1>1, <1>3, SumAndProduct, ResSmall
  <2> QED BY <1>6, <2>2, <2>3
<1>9. Res(p, d ** y) = Res(p, z ** y)
  <2>1. y ** z = z ** y
    BY <1>3, SumAndProduct
  <2> QED BY <1>4, <1>6, <2>1
<1>10. Res(p, d) = Res(p, z)
  BY <1>3, <1>4, <1>8, <1>9, ResCancelTimes
<1> QED BY <1>1, <1>4, <1>5, <1>10 DEF d

\* The terms of the values times those inverses, element by element and coefficient by
\* coefficient.
InverseEntry(w, h, i, a, k, n) == (a[n] ** Pow(h)[n - 1]) ** Pow(w)[((n - 1) + i) * k]
InverseTable(w, s, h, i, a, L) == [k \in 0..(s - 1) |-> [n \in 1..L |-> InverseEntry(w, h, i, a, k, n)]]
InverseColumns(w, s, h, i, a, L) == [n \in 1..L |-> [k \in 0..(s - 1) |-> InverseEntry(w, h, i, a, k, n)]]

\* The summands of the inverse transform, by the elements and by the coefficients.
LEMMA InverseTables ==
  ASSUME NEW w \in Nat, NEW s \in Nat \ {0}, NEW h \in Nat, NEW i \in Nat, NEW L \in Nat, NEW a,
         Coefficients(a, L)
  PROVE  Transposed(InverseTable(w, s, h, i, a, L), InverseColumns(w, s, h, i, a, L),
                    0..(s - 1), 1..L)
<1> DEFINE e(k, n) == InverseEntry(w, h, i, a, k, n)
           S == 0..(s - 1)
           T == 1..L
<1>1. ASSUME NEW k \in S, NEW n \in T PROVE e(k, n) \in Nat
  <2> DEFINE j == n - 1
             m == (j + i) * k
             b == a[n]
             c == Pow(h)[j]
             d == Pow(w)[m]
  <2>1. j \in Nat /\ m \in Nat /\ b \in Nat
    BY DEF Coefficients
  <2>2. c \in Nat /\ d \in Nat
    <3> HIDE DEF j, m
    <3> QED BY <2>1, PowType
  <2>3. (b ** c) ** d \in Nat
    <3> HIDE DEF b, c, d
    <3> QED BY <2>1, <2>2, NatProduct
  <2> QED BY <2>3 DEF InverseEntry
<1>2. InverseTable(w, s, h, i, a, L) = [k \in S |-> [n \in T |-> e(k, n)]]
  BY DEF InverseTable
<1>3. InverseColumns(w, s, h, i, a, L) = [n \in T |-> [k \in S |-> e(k, n)]]
  BY DEF InverseColumns
<1> HIDE DEF e
<1>4. [k \in S |-> [n \in T |-> e(k, n)]] \in [S -> [T -> Nat]]
  <2> HIDE DEF S, T
  <2> QED BY <1>1
<1>5. [n \in T |-> [k \in S |-> e(k, n)]] \in [T -> [S -> Nat]]
  <2> HIDE DEF S, T
  <2> QED BY <1>1
<1>6. \A k \in S, n \in T : [j \in T |-> [l \in S |-> e(l, j)]][n][k]
                              = [l \in S |-> [j \in T |-> e(l, j)]][k][n]
  <2> HIDE DEF S, T
  <2> QED OBVIOUS
<1> QED BY <1>2, <1>3, <1>4, <1>5, <1>6, SMTT(25) DEF Transposed

\* Only the exponent that goes with the coefficient leaves something.
LEMMA SameExponent ==
  ASSUME NEW s \in Nat \ {0}, NEW j \in 0..(s - 1), NEW l \in 0..(s - 1), NEW i, i = s - j
  PROVE  l + i \in Nat /\ ((l + i) % s = 0 <=> l = j)
<1>1. l + i \in Nat /\ l + i > 0 /\ l + i < s + s
  OBVIOUS
<1>2. CASE l = j
  <2>1. l + i = s
    BY <1>2
  <2> QED BY <1>1, <1>2, <2>1
<1>3. CASE l # j
  <2>1. l + i # s
    BY <1>3
  <2>2. CASE l + i < s
    BY <1>1, <1>3, <2>2
  <2>3. CASE l + i > s
    <3> DEFINE r == l + i - s
    <3>1. r \in 0..(s - 1) /\ r # 0 /\ l + i = (s * 1) + r
      BY <1>1, <2>3
    <3> HIDE DEF r
    <3>2. ((s * 1) + r) % s = r
      BY <3>1, ModUnique
    <3> QED BY <1>1, <1>3, <3>1, <3>2
  <2> QED BY <1>1, <2>1, <2>2, <2>3
<1> QED BY <1>2, <1>3

\* The inverse transform: the sum over the coset gives the coefficient back, and 0 beyond them.
LEMMA Interpolates ==
  ASSUME NEW p, IsPrime(p), NEW w, NEW s, HasOrder(p, w, s), NEW h \in Nat,
         NEW L \in Nat, L <= s, NEW a, Coefficients(a, L),
         NEW v, CosetValues(p, w, s, h, a, L, v),
         NEW n \in 1..s, NEW j, j = n - 1,
         NEW e, PowerInverses(p, w, s, j, e), NEW t, InverseTerms(p, s, v, e, t),
         NEW d \in Nat, Res(p, d ** (s ** Pow(h)[j])) = 1
  PROVE  Res(p, d ** Sum(t, 0..(s - 1))) = IF n <= L THEN Res(p, a[n]) ELSE 0
<1>1. p \in Nat /\ p > 1 /\ p > 0 /\ w \in Nat /\ s \in Nat /\ s # 0 /\ s \in Nat \ {0}
      /\ n \in Nat /\ j \in Nat /\ j <= s /\ j \in 0..(s - 1)
  BY DEF IsPrime, HasOrder
<1> DEFINE i == s - j
           S == 0..(s - 1)
           T == 1..L
           A == InverseTable(w, s, h, i, a, L)
           B == InverseColumns(w, s, h, i, a, L)
           U == [k \in S |-> Sum(A[k], T)]
           V == [m \in T |-> Sum(B[m], S)]
           C(m) == a[m] ** Pow(h)[m - 1]
           G == [m \in T |-> IF m = n THEN C(m) ** s ELSE 0]
<1>2. i \in Nat /\ IsFiniteSet(S) /\ IsFiniteSet(T)
  BY <1>1, FS_Interval
<1>3. Transposed(A, B, S, T)
  <2> HIDE DEF i
  <2> QED BY <1>1, <1>2, InverseTables
<1>4. \A k \in S : U[k] = Sum(A[k], T) /\ U[k] \in Nat
  <2> HIDE DEF S, T, A
  <2>1. \A k \in S : Sum(A[k], T) \in Nat
    BY <1>2, <1>3, SumType DEF Transposed
  <2> QED BY <2>1
<1>5. \A m \in T : V[m] = Sum(B[m], S) /\ V[m] \in Nat
  <2> HIDE DEF S, T, B
  <2>1. \A m \in T : Sum(B[m], S) \in Nat
    BY <1>2, <1>3, SumType DEF Transposed
  <2> QED BY <2>1
<1>6. ASSUME NEW m \in T
      PROVE m - 1 \in Nat /\ m \in 1..L /\ a[m] \in Nat /\ Pow(h)[m - 1] \in Nat /\ C(m) \in Nat
  <2> DEFINE l == m - 1
             b == a[m]
             c == Pow(h)[l]
  <2>1. l \in Nat /\ b \in Nat
    BY DEF Coefficients
  <2>2. c \in Nat
    <3> HIDE DEF l
    <3> QED BY <2>1, PowType
  <2>3. b ** c \in Nat
    <3> HIDE DEF b, c
    <3> QED BY <2>1, <2>2, NatProduct
  <2> QED BY <2>1, <2>2, <2>3
<1>7. ASSUME NEW k \in S PROVE t[k] \in Nat /\ Res(p, t[k]) = Res(p, U[k])
  <2> DEFINE y == Pow(w)[k]
             z == h ** y
             o == i * k
             W == Pow(w)[o]
             f == PolyTerms(a, L, z)
             g == A[k]
             x == PolyValue(a, L, z)
             b == v[k]
             c == e[k]
  <2>1. k \in Nat /\ o \in Nat
    BY <1>1
  <2>2. y \in Nat /\ W \in Nat
    <3> HIDE DEF o
    <3> QED BY <1>1, <2>1, PowType
  <2>3. z \in Nat
    <3> HIDE DEF y
    <3> QED BY <2>2, NatProduct
  <2>4. \A m \in T : f[m] \in Nat /\ g[m] = f[m] ** W
    <3>1. ASSUME NEW m \in T PROVE f[m] \in Nat /\ g[m] = f[m] ** W
      <4> DEFINE l == m - 1
                 a1 == a[m]
                 b1 == Pow(h)[l]
                 c1 == Pow(y)[l]
                 q == k * l
      <4>1. l \in Nat /\ a1 \in Nat /\ b1 \in Nat
        <5> HIDE DEF C
        <5> QED BY <1>6
      <4>2. f[m] \in Nat /\ f[m] = a1 ** Pow(z)[l]
        <5> HIDE DEF z
        <5> QED BY <2>3, PolyTermsType
      <4>3. Pow(z)[l] = b1 ** c1 /\ c1 \in Nat
        <5> HIDE DEF l, y
        <5> QED BY <2>2, <4>1, PowTimes, PowType
      <4>4. g[m] = (a1 ** b1) ** Pow(w)[(l + i) * k]
        <5>1. g[m] = InverseEntry(w, h, i, a, k, m)
          BY DEF InverseTable
        <5> QED BY <5>1 DEF InverseEntry
      <4>5. Pow(w)[(l + i) * k] = c1 ** W
        <5>1. q \in Nat /\ (l + i) * k = q + o
          BY <1>2, <2>1, <4>1
        <5>2. Pow(Pow(w)[k])[l] = Pow(w)[q]
          <6> HIDE DEF l
          <6> QED BY <1>1, <2>1, <4>1, PowPow
        <5>3. Pow(w)[q + o] = Pow(w)[q] ** Pow(w)[o]
          <6> HIDE DEF q, o
          <6> QED BY <1>1, <2>1, <5>1, PowPlus
        <5> QED BY <5>1, <5>2, <5>3
      <4> HIDE DEF f, g, l, a1, b1, c1, W
      <4>6. (a1 ** b1) ** (c1 ** W) = (a1 ** (b1 ** c1)) ** W
        BY <2>2, <4>1, <4>3 DEF **
      <4> QED BY <4>2, <4>3, <4>4, <4>5, <4>6
    <3> QED BY <3>1
  <2>5. Sum(g, T) = Sum(f, T) ** W
    <3> HIDE DEF T, W, f, g
    <3> QED BY <1>2, <2>2, <2>4, SumScaled
  <2>6. x \in Nat /\ x = Sum(f, T)
    <3> HIDE DEF z
    <3> QED BY <2>3, PolyTermsType DEF PolyValue
  <2>7. b \in Nat /\ Res(p, b) = Res(p, x)
    BY DEF CosetValues
  <2>8. c \in Nat /\ Res(p, c) = Res(p, W)
    <3> HIDE DEF i
    <3> QED BY <1>1, PowerInverse DEF i
  <2>9. t[k] \in Nat /\ Res(p, t[k]) = Res(p, b ** c)
    BY DEF InverseTerms
  <2>10. U[k] = x ** W
    BY <1>4, <2>5, <2>6
  <2> HIDE DEF W, x, b, c, U
  <2>11. Res(p, b ** c) = Res(p, x ** W)
    BY <1>1, <2>2, <2>6, <2>7, <2>8, ResTimesBoth, SMTT(25)
  <2> QED BY <2>9, <2>10, <2>11
<1>8. ASSUME NEW m \in T PROVE G[m] \in Nat /\ Res(p, V[m]) = Res(p, G[m])
  <2> DEFINE l == m - 1
             r == l + i
             c == C(m)
             R == [k \in S |-> Pow(w)[r * k]]
             g == B[m]
             b == Sum(R, S)
             E == IF m = n THEN s ELSE 0
  <2>1. l \in 0..(s - 1) /\ m \in Nat /\ c \in Nat
    <3> HIDE DEF C
    <3> QED BY <1>6, <1>1
  <2>2. r \in Nat /\ (r % s = 0 <=> m = n)
    <3>1. l + i \in Nat /\ ((l + i) % s = 0 <=> l = j)
      <4> HIDE DEF l
      <4> QED BY <1>1, <2>1, SameExponent
    <3>2. l = j <=> m = n
      BY <1>1, <2>1
    <3> HIDE DEF i, l
    <3> QED BY <3>1, <3>2
  <2>3. \A k \in S : R[k] \in Nat
    <3>1. ASSUME NEW k \in S PROVE R[k] \in Nat
      <4> DEFINE q == r * k
      <4>1. q \in Nat
        <5> HIDE DEF r
        <5> QED BY <2>2
      <4>2. Pow(w)[q] \in Nat
        <5> HIDE DEF q
        <5> QED BY <1>1, <4>1, PowType
      <4> QED BY <4>2
    <3> QED BY <3>1
  <2>4. b \in Nat
    <3> HIDE DEF S, R
    <3> QED BY <1>2, <2>3, SumType
  <2>5. Res(p, b) = Res(p, E)
    <3>1. \A k \in 0..(s - 1) : R[k] \in Nat /\ Res(p, R[k]) = Res(p, Pow(w)[r * k])
      BY <2>3
    <3>2. Res(p, Sum(R, 0..(s - 1))) = IF r % s = 0 THEN Res(p, s) ELSE 0
      <4> HIDE DEF r, R
      <4> QED BY <2>2, <3>1, RootSum
    <3>3. Res(p, 0) = 0
      BY <1>1, ResSmall
    <3> HIDE DEF r, R
    <3> QED BY <2>2, <3>2, <3>3
  <2>6. \A k \in S : g[k] = R[k] ** c
    <3>1. ASSUME NEW k \in S PROVE g[k] = R[k] ** c
      <4> DEFINE x == Pow(w)[r * k]
      <4>1. g[k] = InverseEntry(w, h, i, a, k, m)
        BY DEF InverseColumns
      <4>2. g[k] = c ** x
        BY <4>1 DEF InverseEntry
      <4>3. R[k] = x /\ x \in Nat
        BY <2>3
      <4> HIDE DEF x, c, R, g
      <4> QED BY <2>1, <4>2, <4>3, SumAndProduct
    <3> QED BY <3>1
  <2>7. V[m] = b ** c
    <3>1. Sum(g, S) = Sum(R, S) ** c
      <4> HIDE DEF S, R, g, c
      <4> QED BY <1>2, <2>1, <2>3, <2>6, SumScaled
    <3> QED BY <1>5, <3>1
  <2>8. G[m] = IF m = n THEN c ** s ELSE 0
    OBVIOUS
  <2>9. E \in Nat
    BY <1>1
  <2> HIDE DEF b, c, V, G
  <2>10. Res(p, b ** c) = Res(p, E ** c)
    <3> HIDE DEF E
    <3> QED BY <1>1, <2>1, <2>4, <2>5, <2>9, ResTimes
  <2>11. E ** c = G[m] /\ E ** c \in Nat
    <3>1. s ** c = c ** s /\ 0 ** c = 0 /\ s ** c \in Nat
      BY <1>1, <2>1, SumAndProduct
    <3> QED BY <2>8, <3>1
  <2> QED BY <2>7, <2>10, <2>11
<1>9. Res(p, Sum(t, S)) = Res(p, Sum(U, S))
  <2>1. \A k \in S : t[k] \in Nat /\ U[k] \in Nat /\ Res(p, t[k]) = Res(p, U[k])
    BY <1>4, <1>7
  <2> HIDE DEF i, S, T, A, B, U, V, G
  <2> QED BY <1>1, <1>2, <2>1, SumResidue
<1>10. Sum(U, S) = Sum(V, T)
  <2>1. SumsOf(U, A, S, T) /\ SumsOf(V, B, T, S)
    BY <1>4, <1>5 DEF SumsOf
  <2> HIDE DEF i, S, T, A, B, U, V, G
  <2> QED BY <1>2, <1>3, <2>1, SumExchange
<1>11. Res(p, Sum(V, T)) = Res(p, Sum(G, T))
  <2>1. \A m \in T : V[m] \in Nat /\ G[m] \in Nat /\ Res(p, V[m]) = Res(p, G[m])
    BY <1>5, <1>8
  <2> HIDE DEF i, S, T, A, B, U, V, G
  <2> QED BY <1>1, <1>2, <2>1, SumResidue
<1> DEFINE x == Sum(t, S)
           y == Sum(G, T)
<1>12. x \in Nat /\ y \in Nat
  <2>1. \A k \in S : t[k] \in Nat
    BY <1>7
  <2>2. \A m \in T : G[m] \in Nat
    BY <1>8
  <2> HIDE DEF S, T, G
  <2> QED BY <1>2, <2>1, <2>2, SumType
<1>13. Res(p, d ** x) = Res(p, d ** y)
  <2>1. Res(p, x) = Res(p, y)
    BY <1>9, <1>10, <1>11
  <2> HIDE DEF x, y
  <2>2. Res(p, x ** d) = Res(p, y ** d)
    BY <1>1, <1>12, <2>1, ResTimes
  <2>3. x ** d = d ** x /\ y ** d = d ** y
    BY <1>12, SumAndProduct
  <2> QED BY <2>2, <2>3
<1>14. CASE n <= L
  <2> DEFINE b == a[n]
             c == Pow(h)[j]
             f == d ** (s ** c)
  <2>1. n \in T
    BY <1>1, <1>14
  <2>2. b \in Nat /\ c \in Nat
    <3> HIDE DEF C
    <3> QED BY <1>1, <1>6, <2>1
  <2>3. y = (b ** c) ** s
    <3>1. G[n] = (b ** c) ** s
      BY <2>1
    <3>2. G[n] \in Nat /\ \A m \in T \ {n} : G[m] = 0
      BY <1>8, <2>1
    <3> HIDE DEF G, T
    <3>3. Sum(G, T) = G[n]
      BY <1>2, <2>1, <3>2, SumOnly
    <3> QED BY <3>1, <3>3
  <2> HIDE DEF b, c, y
  <2>4. d ** ((b ** c) ** s) = f ** b /\ f \in Nat /\ 1 ** b = b
    BY <1>1, <2>2 DEF **
  <2>5. Res(p, f) = Res(p, 1)
    BY <1>1, ResSmall DEF c
  <2> HIDE DEF f
  <2>6. Res(p, f ** b) = Res(p, 1 ** b)
    BY <1>1, <2>2, <2>4, <2>5, ResTimes
  <2> QED BY <1>13, <1>14, <2>3, <2>4, <2>6 DEF b
<1>15. CASE ~(n <= L)
  <2>1. \A m \in T : G[m] = 0
    BY <1>1, <1>15
  <2>2. y = 0
    <3> HIDE DEF G, T
    <3> QED BY <1>2, <2>1, SumZeros
  <2>3. d ** 0 = 0 /\ Res(p, 0) = 0
    BY <1>1, SumAndProduct, ResSmall
  <2> HIDE DEF y
  <2> QED BY <1>13, <1>15, <2>2, <2>3
<1> QED BY <1>14, <1>15
=============================================================================
