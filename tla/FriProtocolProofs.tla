------------------------- MODULE FriProtocolProofs -------------------------
(***************************************************************************)
(* Theorems about FriProtocol, for every prime field, domain, localization *)
(* and number of interactions and queries that the assumptions allow.      *)
(*                                                                         *)
(* The tables of the field and the cosets of a domain come first.  Then    *)
(* the two ways in which the values on a coset are folded: both give the   *)
(* value of the folded polynomial at the image of the coset, so that the   *)
(* codewords stay the values of one polynomial.  Last, what a query reads: *)
(* the leaves that are rebuilt fit, and the verdict is that of the last    *)
(* codeword and of the polynomial that is sent.                            *)
(***************************************************************************)
EXTENDS FriProtocol, LibraryFacts, TLAPS
-----------------------------------------------------------------------------
(***************************************************************************)
(* The field.                                                              *)
(***************************************************************************)
\* P is a prime.
LEMMA FieldPrime == IsPrime(P) /\ P \in Nat /\ P > 0 /\ P > 1 /\ P > 2
BY FieldAssumption DEF IsPrime

\* The elements of the field are numbers and their own residues.
LEMMA FieldType ==
  ASSUME NEW x \in Field
  PROVE  x \in Nat /\ x \in Int /\ x < P /\ Res(P, x) = x
<1>1. x \in Nat /\ x < P
  BY FieldPrime DEF Field
<1> QED BY <1>1, FieldPrime, ResSmall

\* Residues are elements of the field.
LEMMA FieldRes ==
  ASSUME NEW a \in Nat
  PROVE  Res(P, a) \in Field /\ Res(P, Res(P, a)) = Res(P, a)
BY FieldPrime, ResType, ResRes DEF Field

\* What the function of the powers of x says.
Powering(x, f) == f = [n \in 0..P |-> IF n = 0 THEN 1 ELSE (f[n - 1] * x) % P]

\* The table of the powers holds the residues of the powers.
LEMMA PowerValue ==
  ASSUME NEW x \in Field, NEW n \in 0..P
  PROVE  Power[x][n] = Res(P, Pow(x)[n]) /\ Power[x][n] \in Field /\ Power[x][n] \in Nat
<1>1. P \in Nat /\ P > 0 /\ P > 1 /\ x \in Nat
  BY FieldPrime, FieldType
<1> DEFINE g == [k \in 0..P |-> Res(P, Pow(x)[k])]
           F == CHOOSE f : Powering(x, f)
           N == {k \in Nat : k <= P => F[k] = Res(P, Pow(x)[k])}
<1>2. Res(P, Pow(x)[0]) = 1
  BY <1>1, PowFirst, ResSmall
<1>3. ASSUME NEW k \in Nat
      PROVE  Res(P, Pow(x)[k + 1]) = (Res(P, Pow(x)[k]) * x) % P
  <2>1. Pow(x)[k] \in Nat /\ Pow(x)[k + 1] = Pow(x)[k] ** x
    BY <1>1, PowEquation
  <2>2. Res(P, Pow(x)[k]) \in Nat /\ Res(P, Res(P, Pow(x)[k])) = Res(P, Pow(x)[k])
    BY <1>1, <2>1, ResType, ResRes
  <2>3. Res(P, Res(P, Pow(x)[k]) ** x) = Res(P, Pow(x)[k] ** x)
    BY <1>1, <2>1, <2>2, ResTimes
  <2>4. Res(P, Res(P, Pow(x)[k]) ** x) = (Res(P, Pow(x)[k]) * x) % P
    BY DEF Res, **
  <2> QED BY <2>1, <2>3, <2>4
<1>4. Powering(x, g)
  <2>1. ASSUME NEW k \in 0..P
        PROVE  Res(P, Pow(x)[k]) = IF k = 0 THEN 1 ELSE (g[k - 1] * x) % P
    <3>1. CASE k = 0
      BY <1>2, <3>1
    <3>2. CASE k # 0
      <4>1. k - 1 \in Nat /\ (k - 1) + 1 = k /\ k - 1 \in 0..P
        BY <1>1, <3>2
      <4>2. g[k - 1] = Res(P, Pow(x)[k - 1])
        BY <4>1
      <4>3. Res(P, Pow(x)[(k - 1) + 1]) = (Res(P, Pow(x)[k - 1]) * x) % P
        BY <1>3, <4>1
      <4> QED BY <3>2, <4>1, <4>2, <4>3
    <3> QED BY <3>1, <3>2
  <2>2. g = [k \in 0..P |-> IF k = 0 THEN 1 ELSE (g[k - 1] * x) % P]
    BY <2>1
  <2> HIDE DEF g
  <2> QED BY <2>2, Zenon DEF Powering
<1> HIDE DEF g
<1>5. Powering(x, F)
  BY <1>4
<1>6. Power[x] = F
  BY Zenon DEF Power, Powering
<1> HIDE DEF F
<1>7. F = [k \in 0..P |-> IF k = 0 THEN 1 ELSE (F[k - 1] * x) % P]
  BY <1>5, Zenon DEF Powering
<1>8. 0 \in N
  <2>1. 0 \in 0..P
    BY <1>1
  <2>2. F[0] = 1
    BY <1>7, <2>1
  <2> QED BY <1>2, <2>2
<1>9. ASSUME NEW k \in Nat, k \in N PROVE k + 1 \in N
  <2>1. SUFFICES ASSUME k + 1 <= P PROVE F[k + 1] = Res(P, Pow(x)[k + 1])
    OBVIOUS
  <2>2. k <= P /\ k + 1 \in 0..P /\ k + 1 # 0 /\ (k + 1) - 1 = k
    BY <1>1, <2>1
  <2>3. F[k + 1] = (F[k] * x) % P
    BY <1>7, <2>2
  <2>4. F[k] = Res(P, Pow(x)[k])
    BY <1>9, <2>2
  <2> QED BY <1>3, <2>3, <2>4
<1> HIDE DEF N
<1>10. Nat \subseteq N
  BY <1>8, <1>9, NatSetInduction
<1>11. n \in Nat /\ n <= P
  BY <1>1
<1>12. F[n] = Res(P, Pow(x)[n])
  BY <1>10, <1>11 DEF N
<1>13. Pow(x)[n] \in Nat
  BY <1>1, <1>11, PowType
<1> QED BY <1>1, <1>6, <1>12, <1>13, FieldRes, ResType

\* The inverse of an element.
LEMMA InvertedValue ==
  ASSUME NEW x \in Field, x # 0
  PROVE  /\ Inverted[x] \in Field /\ Inverted[x] \in Nat
         /\ Res(P, x ** Inverted[x]) = 1 /\ Res(P, Inverted[x] ** x) = 1
<1>1. P \in Nat /\ P > 1 /\ IsPrime(P) /\ x \in Nat /\ Res(P, x) # 0
  BY FieldPrime, FieldType
<1>2. PICK y \in 1..(P - 1) : Res(P, x ** y) = 1
  BY <1>1, InverseExists
<1>3. y \in Field /\ (x * y) % P = 1
  BY <1>1, <1>2 DEF Field, Res, **
<1>4. Inverted[x] = CHOOSE z \in Field : (x * z) % P = 1
  BY DEF Inverted
<1>5. Inverted[x] \in Field /\ (x * Inverted[x]) % P = 1
  BY <1>3, <1>4
<1>6. Inverted[x] \in Nat
  BY <1>5, FieldType
<1>7. x ** Inverted[x] = Inverted[x] ** x
  BY <1>1, <1>6, SumAndProduct
<1>8. Res(P, x ** Inverted[x]) = 1
  BY <1>5 DEF Res, **
<1> QED BY <1>5, <1>6, <1>7, <1>8

\* The difference of two elements.
LEMMA MinusValue ==
  ASSUME NEW x \in Field, NEW y \in Field
  PROVE  /\ Minus(x, y) \in Field /\ Minus(x, y) \in Nat
         /\ Res(P, Minus(x, y) ++ y) = x
         /\ Minus(x, y) = 0 => x = y
<1>1. P \in Nat /\ P > 0 /\ x \in Nat /\ y \in Nat /\ x < P /\ y < P
  BY FieldPrime, FieldType
<1> DEFINE a == (x + P) - y
<1>2. a \in Nat /\ Minus(x, y) = Res(P, a) /\ a ++ y = x ++ (P ** 1)
  BY <1>1 DEF Minus, Res, ++, **
<1> HIDE DEF a
<1>3. Res(P, a) \in Field /\ Res(P, Res(P, a)) = Res(P, a) /\ Res(P, a) \in Nat
  BY <1>1, <1>2, FieldRes, ResType
<1>4. Res(P, Res(P, a) ++ y) = Res(P, a ++ y)
  BY <1>1, <1>2, <1>3, ResPlus
<1>5. Res(P, x ++ (P ** 1)) = Res(P, x)
  BY <1>1, ResMultiple
<1>6. Res(P, x) = x /\ Res(P, y) = y /\ 0 ++ y = y
  BY FieldType, SumAndProduct, <1>1
<1> QED BY <1>2, <1>3, <1>4, <1>5, <1>6

\* A total is the residue of a sum.
LEMMA TotalValue ==
  ASSUME NEW S, NEW f, DOMAIN f = S
  PROVE  Total(f) = Res(P, Sum(f, S))
BY DEF Total, Res, Sum

-----------------------------------------------------------------------------
(***************************************************************************)
(* Roots of unity and domains.                                             *)
(***************************************************************************)
\* The orders of the subgroups of the field.
Divisor(s) == s \in Nat \ {0} /\ (P - 1) % s = 0

\* The generator of the field generates, as the theory of roots of unity has it.
LEMMA FieldGenerator == IsGenerator(P, Generator) /\ Generator \in Field
<1>1. Generator \in Field /\ {Power[Generator][n] : n \in 1..(P - 1)} = Field \ {0}
  BY FieldAssumption
<1>2. P \in Nat /\ P > 2 /\ Generator \in Nat /\ Generator < P
  BY <1>1, FieldPrime, FieldType
<1>3. ASSUME NEW y \in 1..(P - 1) PROVE \E n \in 1..(P - 1) : Res(P, Pow(Generator)[n]) = y
  <2>1. y \in Field \ {0}
    BY <1>2 DEF Field
  <2>2. PICK n \in 1..(P - 1) : Power[Generator][n] = y
    BY <1>1, <2>1
  <2>3. n \in 0..P
    BY <1>2
  <2> QED BY <1>1, <2>2, <2>3, PowerValue
<1>4. Generator # 0
  <2>1. SUFFICES ASSUME Generator = 0 PROVE FALSE
    OBVIOUS
  <2>2. PICK n \in 1..(P - 1) : Res(P, Pow(Generator)[n]) = 1
    BY <1>2, <1>3
  <2>3. n - 1 \in Nat /\ (n - 1) + 1 = n
    BY <1>2
  <2>4. Pow(Generator)[n - 1] \in Nat /\ Pow(Generator)[n] = Pow(Generator)[n - 1] ** Generator
    BY <1>2, <2>3, PowEquation
  <2>5. Pow(Generator)[n] = 0
    BY <2>1, <2>4, SumAndProduct
  <2>6. Res(P, 0) = 0
    BY <1>2, ResSmall
  <2> QED BY <2>2, <2>5, <2>6
<1>5. Generator \in 1..(P - 1)
  BY <1>2, <1>4
<1> QED BY <1>1, <1>3, <1>5 DEF IsGenerator

\* What divides the number of units.
LEMMA DivisorQuotient ==
  ASSUME NEW s, Divisor(s)
  PROVE  /\ s \in Nat \ {0} /\ s <= P - 1 /\ s < P /\ s \in 0..P
         /\ (P - 1) \div s \in Nat \ {0} /\ (P - 1) \div s \in 0..P
         /\ P - 1 = ((P - 1) \div s) * s
<1> DEFINE m == P - 1
           d == m \div s
<1>1. s \in Nat \ {0} /\ m \in Nat /\ m > 0 /\ m % s = 0 /\ m < P /\ P \in Nat
  BY FieldPrime DEF Divisor
<1> HIDE DEF m
<1>2. d \in Nat /\ m = (s * d) + 0
  BY <1>1, DivisionType
<1> HIDE DEF d
<1>3. d # 0
  <2>1. d = 0 => s * d = 0
    BY <1>1
  <2> QED BY <1>1, <1>2, <2>1
<1>4. s <= s * d /\ d <= s * d /\ s * d = d * s
  BY <1>1, <1>2, <1>3
<1>5. s <= m /\ d <= m /\ m = d * s
  BY <1>1, <1>2, <1>4
<1> QED BY <1>1, <1>2, <1>3, <1>5 DEF d, m

\* The root of unity of an order has that order.
LEMMA RootValue ==
  ASSUME NEW s, Divisor(s)
  PROVE  /\ RootOfUnity(s) \in Field /\ RootOfUnity(s) \in Nat
         /\ RootOfUnity(s) = Res(P, Pow(Generator)[(P - 1) \div s])
         /\ HasOrder(P, RootOfUnity(s), s)
<1> DEFINE d == (P - 1) \div s
           w == RootOfUnity(s)
<1>1. s \in Nat \ {0} /\ d \in Nat \ {0} /\ d \in 0..P /\ P - 1 = d * s /\ d \in Nat
  BY DivisorQuotient
<1>2. w = Power[Generator][d]
  BY DEF RootOfUnity
<1> HIDE DEF d
<1>3. w = Res(P, Pow(Generator)[d]) /\ w \in Field /\ w \in Nat
  BY <1>1, <1>2, FieldGenerator, PowerValue
<1> HIDE DEF w
<1>4. Res(P, w) = w
  BY <1>3, FieldType
<1>5. Res(P, w) = Res(P, Pow(Generator)[d])
  BY <1>3, <1>4
<1>6. HasOrder(P, w, s)
  BY <1>1, <1>3, <1>5, FieldPrime, FieldGenerator, RootHasOrder
<1> QED BY <1>3, <1>6 DEF w, d

\* Elements of the field that have the residue 1 to a power are powers of the root.
LEMMA RootPowers ==
  ASSUME NEW s, Divisor(s), NEW y \in Nat, Res(P, Pow(y)[s]) = 1
  PROVE  \E k \in 0..(s - 1) : Res(P, y) = Res(P, Pow(RootOfUnity(s))[k])
<1> DEFINE d == (P - 1) \div s
           w == RootOfUnity(s)
<1>1. s \in Nat \ {0} /\ d \in Nat \ {0} /\ P - 1 = d * s
  BY DivisorQuotient
<1>2. w \in Field /\ w \in Nat /\ w = Res(P, Pow(Generator)[d])
  BY RootValue
<1> HIDE DEF d, w
<1>3. Res(P, w) = Res(P, Pow(Generator)[d])
  BY <1>2, FieldType
<1>4. IsPrime(P) /\ IsGenerator(P, Generator)
  BY FieldPrime, FieldGenerator
<1>5. ASSUME NEW g, IsGenerator(P, g), Res(P, w) = Res(P, Pow(g)[d])
      PROVE  \E k \in 0..(s - 1) : Res(P, y) = Res(P, Pow(w)[k])
  BY <1>1, <1>2, <1>4, <1>5, RootsArePowers
<1>6. \E k \in 0..(s - 1) : Res(P, y) = Res(P, Pow(w)[k])
  BY <1>3, <1>4, <1>5
<1> QED BY <1>6 DEF w

\* The parts that an order is divided into.
LEMMA PartsOf ==
  ASSUME NEW N, Divisor(N), NEW s \in Nat \ {0}, N % s = 0, NEW M, M = N \div s
  PROVE  /\ M \in Nat \ {0} /\ N = s * M /\ M <= N /\ s <= N
         /\ Divisor(s) /\ Divisor(M)
         /\ (P - 1) \div s = ((P - 1) \div N) * M
         /\ (P - 1) \div M = ((P - 1) \div N) * s
<1> DEFINE d == (P - 1) \div N
           m == P - 1
<1>1. N \in Nat \ {0} /\ d \in Nat \ {0} /\ m = d * N /\ m \in Nat
  <2>1. P - 1 \in Nat
    BY FieldPrime
  <2> QED BY DivisorQuotient, <2>1
<1> HIDE DEF d
<1>2. M \in Nat /\ N = (s * M) + 0
  BY <1>1, DivisionType
<1>3. M # 0
  <2>1. M = 0 => s * M = 0
    BY <1>2
  <2> QED BY <1>1, <1>2, <2>1
<1>4. M <= s * M /\ s <= s * M
  BY <1>2, <1>3
<1>5. s * M = N /\ M \in Nat \ {0}
  BY <1>2, <1>3
<1>6. m = s * (d * M) /\ m = M * (d * s) /\ d * M \in Nat /\ d * s \in Nat
  <2>1. s * (d * M) = d * (s * M) /\ M * (d * s) = d * (s * M)
    BY <1>1, <1>5
  <2> QED BY <2>1, <1>5, <1>1
<1>7. m % s = 0 /\ m \div s = d * M
  <2> DEFINE q == d * M
  <2>1. q \in Nat /\ m = (q ** s) ++ 0 /\ 0 \in 0..(s - 1)
    BY <1>6 DEF **, ++
  <2> HIDE DEF q, m
  <2>2. m \div s = q /\ m % s = 0
    BY <2>1, QuotientUnique
  <2> QED BY <2>2 DEF q
<1>8. m % M = 0 /\ m \div M = d * s
  <2> DEFINE q == d * s
  <2>1. q \in Nat /\ m = (q ** M) ++ 0 /\ 0 \in 0..(M - 1)
    BY <1>6, <1>5 DEF **, ++
  <2> HIDE DEF q, m
  <2>2. m \div M = q /\ m % M = 0
    BY <2>1, <1>5, QuotientUnique
  <2> QED BY <2>2 DEF q
<1> QED BY <1>4, <1>5, <1>7, <1>8 DEF Divisor, d

\* A root of unity is the power of one of a greater order.
LEMMA RootOfPart ==
  ASSUME NEW N, Divisor(N), NEW s \in Nat \ {0}, N % s = 0, NEW M, M = N \div s
  PROVE  Res(P, RootOfUnity(s)) = Res(P, Pow(RootOfUnity(N))[M])
<1> DEFINE d == (P - 1) \div N
           e == (P - 1) \div s
           w == RootOfUnity(N)
           g == Generator
<1>1. M \in Nat /\ Divisor(s) /\ e = d * M
  BY PartsOf
<1>2. d \in Nat /\ e \in Nat /\ P \in Nat /\ P > 0
  BY <1>1, DivisorQuotient, FieldPrime
<1>3. w \in Nat /\ w = Res(P, Pow(g)[d]) /\ RootOfUnity(s) = Res(P, Pow(g)[e]) /\ RootOfUnity(s) \in Field
  BY <1>1, RootValue
<1>4. g \in Nat
  BY FieldGenerator, FieldType
<1> HIDE DEF d, e, w, g
<1>5. Pow(g)[d] \in Nat
  BY <1>2, <1>4, PowType
<1>6. Res(P, w) = Res(P, Pow(g)[d])
  BY <1>2, <1>3, <1>5, ResRes
<1>7. Res(P, Pow(w)[M]) = Res(P, Pow(Pow(g)[d])[M])
  BY <1>1, <1>2, <1>3, <1>5, <1>6, ResPow
<1>8. Pow(Pow(g)[d])[M] = Pow(g)[e]
  BY <1>1, <1>2, <1>4, PowPow, ZenonT(40)
<1>9. Res(P, RootOfUnity(s)) = RootOfUnity(s)
  BY <1>3, FieldType
<1> QED BY <1>3, <1>7, <1>8, <1>9 DEF w

\* A domain of the field: a coset of a subgroup.
Domain(d) == Divisor(d.order) /\ d.shift \in Field \ {0}

\* A domain that is cut into cosets of a size.
CutInto(d, s) == Domain(d) /\ s \in Nat \ {0} /\ d.order % s = 0

\* An element of a domain is the shift times a power of the root.
LEMMA ElementValue ==
  ASSUME NEW d, Domain(d), NEW i \in 0..(d.order - 1)
  PROVE  /\ ElementByIndex(d, i) \in Field \ {0} /\ ElementByIndex(d, i) \in Nat
         /\ ElementByIndex(d, i) = Res(P, d.shift ** Pow(RootOfUnity(d.order))[i])
<1> DEFINE w == RootOfUnity(d.order)
           h == d.shift
<1>1. Divisor(d.order) /\ h \in Field \ {0}
  BY DEF Domain
<1>2. i \in Nat /\ i \in 0..P /\ P \in Nat /\ P > 0 /\ IsPrime(P)
  BY <1>1, DivisorQuotient, FieldPrime
<1>3. w \in Field /\ w \in Nat /\ HasOrder(P, w, d.order)
  BY <1>1, RootValue
<1>4. h \in Nat /\ Res(P, h) # 0
  BY <1>1, FieldType
<1>5. ElementByIndex(d, i) = Res(P, h ** Power[w][i])
  BY DEF ElementByIndex, Res, **
<1> HIDE DEF w, h
<1>6. Power[w][i] = Res(P, Pow(w)[i]) /\ Power[w][i] \in Nat
  BY <1>2, <1>3, PowerValue
<1>7. Pow(w)[i] \in Nat /\ Res(P, Power[w][i]) = Res(P, Pow(w)[i])
  BY <1>2, <1>3, <1>6, PowType, ResRes
<1>8. Res(P, h ** Power[w][i]) = Res(P, h ** Pow(w)[i])
  BY <1>2, <1>4, <1>6, <1>7, ResTimesBoth
<1>9. h ** Pow(w)[i] \in Nat
  BY <1>4, <1>7, NatProduct
<1>10. Res(P, h ** Pow(w)[i]) \in Field
  BY <1>9, FieldRes
<1>11. Res(P, Pow(w)[i]) # 0
  <2>1. Res(P, w) # 0
    BY <1>2, <1>3, OrderPower
  <2> QED BY <2>1, <1>2, <1>3, PowNotZero
<1>12. Res(P, h ** Pow(w)[i]) # 0
  BY <1>2, <1>4, <1>7, <1>11, PrimeProduct
<1> QED BY <1>5, <1>8, <1>10, <1>12, FieldType DEF w, h

\* The image of a domain is a domain, and has an element for each coset.
LEMMA LocalizedDomain ==
  ASSUME NEW d, NEW s, CutInto(d, s)
  PROVE  /\ Domain(Localized(d, s))
         /\ Localized(d, s).order = NumCosets(d, s)
         /\ Localized(d, s).shift = Res(P, Pow(d.shift)[s])
         /\ NumCosets(d, s) \in Nat \ {0} /\ d.order = s * NumCosets(d, s)
         /\ Divisor(s) /\ Divisor(d.order) /\ NumCosets(d, s) <= d.order
<1> DEFINE M == NumCosets(d, s)
           h == d.shift
<1>1. Divisor(d.order) /\ h \in Field \ {0} /\ s \in Nat \ {0} /\ d.order % s = 0 /\ M = d.order \div s
  BY DEF CutInto, Domain, NumCosets
<1>2. M \in Nat \ {0} /\ d.order = s * M /\ Divisor(s) /\ Divisor(M) /\ M <= d.order
  BY <1>1, PartsOf
<1>3. Localized(d, s).order = M /\ Localized(d, s).shift = Power[h][s]
  BY <1>1 DEF Localized
<1>4. s \in 0..P /\ s \in Nat
  BY <1>2, DivisorQuotient
<1> HIDE DEF h, M
<1>5. Power[h][s] = Res(P, Pow(h)[s]) /\ Power[h][s] \in Field
  BY <1>1, <1>4, PowerValue
<1>6. Res(P, Pow(h)[s]) # 0
  <2>1. h \in Nat /\ Res(P, h) # 0
    BY <1>1, FieldType
  <2> QED BY <2>1, <1>4, FieldPrime, PowNotZero
<1>7. Domain(Localized(d, s))
  BY <1>2, <1>3, <1>5, <1>6 DEF Domain
<1> QED BY <1>1, <1>2, <1>3, <1>5, <1>7 DEF M, h

\* The positions of a coset, and the coset and the place of a position.
LEMMA CosetPosition ==
  ASSUME NEW d, NEW s, CutInto(d, s), NEW j \in 0..(NumCosets(d, s) - 1), NEW k \in 0..(s - 1)
  PROVE  /\ PositionByCosetIndices(d, j, k, s) \in 0..(d.order - 1)
         /\ PositionByCosetIndices(d, j, k, s) = j + (k * NumCosets(d, s))
         /\ CosetIndex(d, PositionByCosetIndices(d, j, k, s), s) = j
         /\ IntraCosetIndex(d, PositionByCosetIndices(d, j, k, s), s) = k
<1> DEFINE M == NumCosets(d, s)
           p == PositionByCosetIndices(d, j, k, s)
<1>1. M \in Nat \ {0} /\ d.order = s * M /\ s \in Nat \ {0}
  BY LocalizedDomain DEF CutInto
<1>2. p = j + (k * M)
  BY DEF PositionByCosetIndices
<1> HIDE DEF M
<1>3. j \in Nat /\ k \in Nat /\ j \in 0..(M - 1) /\ j < M
  BY <1>1 DEF M
<1>4. p \in 0..((s * M) - 1)
  <2>1. k * M \in Nat /\ s * M \in Nat
    BY <1>1, <1>3
  <2>2. k + 1 <= s
    BY <1>1
  <2>3. (k + 1) * M <= s * M
    <3> DEFINE a == s - (k + 1)
    <3>1. a \in Nat /\ s = (k + 1) + a
      BY <1>1, <1>3, <2>2
    <3> HIDE DEF a
    <3>2. a * M \in Nat /\ s * M = ((k + 1) * M) + (a * M)
      BY <1>1, <1>3, <3>1
    <3> QED BY <3>2, <1>1, <1>3
  <2>4. (k + 1) * M = (k * M) + M
    BY <1>1, <1>3
  <2> QED BY <1>1, <1>2, <1>3, <2>1, <2>3, <2>4
<1>5. p = (k ** M) ++ j
  BY <1>1, <1>2, <1>3 DEF **, ++
<1> HIDE DEF p
<1>6. p \div M = k /\ p % M = j
  BY <1>1, <1>3, <1>5, QuotientUnique
<1>7. CosetIndex(d, p, s) = j /\ IntraCosetIndex(d, p, s) = k
  BY <1>6 DEF CosetIndex, IntraCosetIndex, M
<1> QED BY <1>1, <1>2, <1>4, <1>7 DEF p, M

\* And every position is in a coset.
LEMMA PositionInCoset ==
  ASSUME NEW d, NEW s, CutInto(d, s), NEW p \in 0..(d.order - 1)
  PROVE  /\ CosetIndex(d, p, s) \in 0..(NumCosets(d, s) - 1)
         /\ IntraCosetIndex(d, p, s) \in 0..(s - 1)
         /\ p = PositionByCosetIndices(d, CosetIndex(d, p, s), IntraCosetIndex(d, p, s), s)
<1> DEFINE M == NumCosets(d, s)
           q == p \div M
           r == p % M
<1>1. M \in Nat \ {0} /\ d.order = s * M /\ s \in Nat \ {0}
  BY LocalizedDomain DEF CutInto
<1> HIDE DEF M
<1>2. p \in Nat /\ p < s * M
  BY <1>1
<1>3. q \in Nat /\ r \in 0..(M - 1) /\ p = (M * q) + r
  BY <1>1, <1>2, DivisionType
<1> HIDE DEF q, r
<1>4. q < s
  <2>1. SUFFICES ASSUME q >= s PROVE FALSE
    BY <1>1, <1>3
  <2> DEFINE a == q - s
  <2>2. a \in Nat /\ q = s + a
    BY <1>1, <1>3, <2>1
  <2> HIDE DEF a
  <2>3. a * M \in Nat /\ M * q = (s * M) + (a * M) /\ s * M \in Nat
    BY <1>1, <2>2
  <2> QED BY <1>2, <1>3, <2>3
<1>5. p = r + (q * M)
  <2>1. M * q = q * M /\ q * M \in Nat
    BY <1>1, <1>3
  <2> QED BY <2>1, <1>3
<1>6. CosetIndex(d, p, s) = r /\ IntraCosetIndex(d, p, s) = q
  BY DEF CosetIndex, IntraCosetIndex, M, q, r
<1>7. PositionByCosetIndices(d, r, q, s) = r + (q * M)
  BY DEF PositionByCosetIndices, M
<1>8. q \in 0..(s - 1)
  BY <1>1, <1>3, <1>4
<1> QED BY <1>3, <1>5, <1>6, <1>7, <1>8 DEF M

\* The elements of a coset: the first one times the powers of the root of the size.
LEMMA ElementOfCoset ==
  ASSUME NEW d, NEW s, CutInto(d, s), NEW j \in 0..(NumCosets(d, s) - 1), NEW k \in 0..(s - 1)
  PROVE  /\ j \in 0..(d.order - 1)
         /\ ElementByIndex(d, PositionByCosetIndices(d, j, k, s))
              = Res(P, ElementByIndex(d, j) ** Pow(RootOfUnity(s))[k])
<1> DEFINE M == NumCosets(d, s)
           w == RootOfUnity(d.order)
           g == RootOfUnity(s)
           h == d.shift
           p == PositionByCosetIndices(d, j, k, s)
           n == M * k
<1>1. M \in Nat \ {0} /\ d.order = s * M /\ s \in Nat \ {0} /\ M <= d.order /\ d.order \in Nat
      /\ Divisor(s) /\ Divisor(d.order) /\ d.order % s = 0 /\ Domain(d) /\ M = d.order \div s
  BY LocalizedDomain DEF CutInto, NumCosets, Divisor
<1>2. p \in 0..(d.order - 1) /\ p = j + (k * M)
  BY CosetPosition
<1> HIDE DEF p
<1>3. j \in 0..(d.order - 1) /\ j \in Nat /\ k \in Nat
  BY <1>1
<1>4. ElementByIndex(d, j) = Res(P, h ** Pow(w)[j]) /\ ElementByIndex(d, j) \in Nat
  BY <1>1, <1>3, ElementValue
<1>5. ElementByIndex(d, p) = Res(P, h ** Pow(w)[p])
  BY <1>1, <1>2, ElementValue
<1>6. Res(P, g) = Res(P, Pow(w)[M])
  BY <1>1, RootOfPart
<1>7. w \in Nat /\ g \in Nat /\ h \in Nat /\ P \in Nat /\ P > 0
  BY <1>1, RootValue, FieldType, FieldPrime DEF Domain
<1> HIDE DEF w, g, h, M
<1>8. p = j + n /\ n \in Nat
  BY <1>1, <1>2, <1>3
<1>9. n = M * k
  OBVIOUS
<1> HIDE DEF n
<1>10. Pow(Pow(w)[M])[k] = Pow(w)[n]
  <2>1. M \in Nat /\ k \in Nat /\ w \in Nat
    BY <1>1, <1>3, <1>7
  <2>2. Pow(Pow(w)[M])[k] = Pow(w)[M * k]
    BY <2>1, PowPow
  <2> QED BY <2>2, <1>9
<1>11. Pow(w)[M] \in Nat /\ Pow(w)[j] \in Nat /\ Pow(w)[n] \in Nat /\ Pow(g)[k] \in Nat
  BY <1>1, <1>3, <1>7, <1>8, PowType
<1>12. Res(P, Pow(g)[k]) = Res(P, Pow(w)[n])
  <2>1. Res(P, Pow(g)[k]) = Res(P, Pow(Pow(w)[M])[k])
    BY <1>3, <1>6, <1>7, <1>11, ResPow
  <2> QED BY <2>1, <1>10
<1>13. Pow(w)[p] = Pow(w)[j] ** Pow(w)[n]
  BY <1>3, <1>7, <1>8, PowPlus
<1>14. h ** Pow(w)[p] = (h ** Pow(w)[j]) ** Pow(w)[n]
  BY <1>7, <1>11, <1>13, ThreeNumbers
<1>15. h ** Pow(w)[j] \in Nat
  BY <1>7, <1>11, NatProduct
<1>16. Res(P, ElementByIndex(d, j)) = Res(P, h ** Pow(w)[j])
  BY <1>4, <1>7, <1>15, ResRes
<1>17. Res(P, ElementByIndex(d, j) ** Pow(g)[k]) = Res(P, (h ** Pow(w)[j]) ** Pow(w)[n])
  BY <1>4, <1>7, <1>11, <1>12, <1>15, <1>16, ResTimesBoth
<1> QED BY <1>3, <1>5, <1>14, <1>17 DEF p, g

\* The localizer polynomial takes an element to the one with the index of its coset.
LEMMA ElementLocalized ==
  ASSUME NEW d, NEW s, CutInto(d, s), NEW p \in 0..(d.order - 1)
  PROVE  ElementByIndex(Localized(d, s), CosetIndex(d, p, s))
           = Res(P, Pow(ElementByIndex(d, p))[s])
<1> DEFINE M == NumCosets(d, s)
           w == RootOfUnity(d.order)
           v == RootOfUnity(M)
           h == d.shift
           H == Pow(h)[s]
           e == Localized(d, s)
           r == CosetIndex(d, p, s)
<1>1. M \in Nat \ {0} /\ d.order = s * M /\ s \in Nat \ {0} /\ s \in Nat /\ M <= d.order
      /\ Divisor(d.order) /\ d.order % s = 0 /\ Domain(d)
      /\ M = d.order \div s /\ Domain(e) /\ e.order = M /\ e.shift = Res(P, H)
  BY LocalizedDomain DEF CutInto, NumCosets
<1>2. Divisor(M) /\ d.order \in Nat
  BY <1>1 DEF Domain, Divisor
<1>3. r \in 0..(M - 1) /\ r = p % M /\ p \in Nat
  BY <1>1, <1>2, PositionInCoset DEF CosetIndex
<1> HIDE DEF r
<1>4. ElementByIndex(d, p) = Res(P, h ** Pow(w)[p]) /\ ElementByIndex(d, p) \in Nat
  BY <1>1, ElementValue
<1>5. ElementByIndex(e, r) = Res(P, e.shift ** Pow(v)[r])
  BY <1>1, <1>3, ElementValue
<1> HIDE DEF e, M
<1>6. d.order % M = 0 /\ d.order \div M = s
  <2>1. d.order = (s ** M) ++ 0 /\ 0 \in 0..(M - 1)
    BY <1>1 DEF **, ++
  <2> QED BY <1>1, <2>1, QuotientUnique
<1>7. Res(P, v) = Res(P, Pow(w)[s])
  BY <1>1, <1>6, RootOfPart
<1>8. w \in Nat /\ v \in Nat /\ h \in Nat /\ P \in Nat /\ P > 0 /\ IsPrime(P) /\ HasOrder(P, v, M)
  BY <1>1, <1>2, RootValue, FieldType, FieldPrime DEF Domain
<1> HIDE DEF w, v, h
<1>9. H \in Nat /\ Pow(w)[p] \in Nat /\ Pow(v)[r] \in Nat /\ Pow(v)[p] \in Nat /\ Pow(w)[s] \in Nat
      /\ r \in Nat
  BY <1>1, <1>3, <1>8, PowType
<1>10. Res(P, Pow(v)[r]) = Res(P, Pow(v)[p])
  <2>1. r % M = p % M
    <3>1. r \in Nat /\ r < M
      BY <1>3, <1>1
    <3> QED BY <3>1, <1>3, <1>1, ModSmall
  <2> QED BY <1>3, <1>8, <1>9, <2>1, PowersRepeat
<1>11. Res(P, Pow(v)[p]) = Res(P, Pow(Pow(w)[p])[s])
  <2>1. Res(P, Pow(v)[p]) = Res(P, Pow(Pow(w)[s])[p])
    BY <1>3, <1>7, <1>8, <1>9, ResPow
  <2> DEFINE a == s * p
             b == p * s
  <2>2. a = b
    BY <1>1, <1>3
  <2>3. a = s * p /\ b = p * s
    OBVIOUS
  <2> HIDE DEF a, b
  <2>4. Pow(Pow(w)[s])[p] = Pow(w)[a]
    <3>1. Pow(Pow(w)[s])[p] = Pow(w)[s * p]
      BY <1>1, <1>3, <1>8, PowPow
    <3> QED BY <3>1, <2>3
  <2>5. Pow(Pow(w)[p])[s] = Pow(w)[b]
    <3>1. Pow(Pow(w)[p])[s] = Pow(w)[p * s]
      BY <1>1, <1>3, <1>8, PowPow
    <3> QED BY <3>1, <2>3
  <2> QED BY <2>1, <2>2, <2>4, <2>5
<1>12. Pow(Pow(w)[p])[s] \in Nat /\ h ** Pow(w)[p] \in Nat
  BY <1>1, <1>8, <1>9, PowType, NatProduct
<1>13. Res(P, e.shift) = Res(P, H) /\ e.shift \in Nat
  BY <1>1, <1>8, <1>9, ResRes, ResType
<1>14. Res(P, e.shift ** Pow(v)[r]) = Res(P, H ** Pow(Pow(w)[p])[s])
  <2>1. Res(P, Pow(v)[r]) = Res(P, Pow(Pow(w)[p])[s])
    BY <1>10, <1>11
  <2> QED BY <2>1, <1>8, <1>9, <1>12, <1>13, ResTimesBoth
<1>15. Pow(h ** Pow(w)[p])[s] = H ** Pow(Pow(w)[p])[s]
  BY <1>1, <1>8, <1>9, PowTimes, SMTT(25)
<1>16. Res(P, Pow(ElementByIndex(d, p))[s]) = Res(P, Pow(h ** Pow(w)[p])[s])
  <2>1. Res(P, ElementByIndex(d, p)) = Res(P, h ** Pow(w)[p])
    BY <1>4, <1>8, <1>12, ResRes
  <2> QED BY <2>1, <1>1, <1>4, <1>8, <1>12, ResPow
<1> QED BY <1>5, <1>14, <1>15, <1>16 DEF e, r

-----------------------------------------------------------------------------
(***************************************************************************)
(* Polynomials over the field.                                             *)
(***************************************************************************)
\* A polynomial of at most L coefficients.
Polynomial(c, L) == c \in Seq(Field) /\ Len(c) <= L

\* Its coefficients are numbers of the field.
LEMMA PolynomialType ==
  ASSUME NEW c \in Seq(Field)
  PROVE  /\ Len(c) \in Nat /\ DOMAIN c = 1..Len(c) /\ Coefficients(c, Len(c))
         /\ \A n \in 1..Len(c) : c[n] \in Field /\ c[n] \in Nat
<1>1. Len(c) \in Nat /\ DOMAIN c = 1..Len(c) /\ \A n \in DOMAIN c : c[n] \in Field
  BY SequenceType
<1>2. \A n \in 1..Len(c) : c[n] \in Field /\ c[n] \in Nat
  BY <1>1, FieldType
<1> QED BY <1>1, <1>2 DEF Coefficients

\* Evaluation gives the value of a polynomial.
LEMMA EvaluationValue ==
  ASSUME NEW c, Polynomial(c, P), NEW x \in Field
  PROVE  /\ Evaluation(c, x) = Res(P, PolyValue(c, Len(c), x))
         /\ PolyValue(c, Len(c), x) \in Nat
         /\ Evaluation(c, x) \in Field
<1> DEFINE L == Len(c)
           S == 1..L
           f == [n \in S |-> c[n] * Power[x][n - 1]]
           t == PolyTerms(c, L, x)
<1>1. c \in Seq(Field) /\ L \in Nat /\ DOMAIN c = 1..L /\ Coefficients(c, L) /\ L <= P
      /\ \A n \in S : c[n] \in Nat
  BY PolynomialType DEF Polynomial
<1>2. P \in Nat /\ P > 0 /\ x \in Nat
  BY FieldPrime, FieldType
<1>3. Evaluation(c, x) = Total(f)
  BY <1>1 DEF Evaluation
<1>4. DOMAIN f = S
  OBVIOUS
<1>5. IsFiniteSet(S)
  BY <1>1, FS_Interval
<1>6. ASSUME NEW n \in S
      PROVE  f[n] \in Nat /\ t[n] \in Nat /\ Res(P, f[n]) = Res(P, t[n])
  <2>1. n \in 1..L /\ n - 1 \in Nat /\ n - 1 \in 0..P
    BY <1>1, <1>2
  <2>2. f[n] = c[n] ** Power[x][n - 1]
    BY DEF **
  <2>3. t[n] = c[n] ** Pow(x)[n - 1] /\ t[n] \in Nat
    BY <1>1, <1>2, <2>1, PolyTermsType
  <2> HIDE DEF f, t
  <2>4. Power[x][n - 1] = Res(P, Pow(x)[n - 1]) /\ Power[x][n - 1] \in Nat /\ Pow(x)[n - 1] \in Nat
    BY <1>2, <2>1, PowerValue, PowType
  <2>5. Res(P, Power[x][n - 1]) = Res(P, Pow(x)[n - 1])
    BY <1>2, <2>4, ResRes
  <2>6. c[n] \in Nat
    BY <1>1
  <2>7. Res(P, c[n] ** Power[x][n - 1]) = Res(P, c[n] ** Pow(x)[n - 1])
    BY <1>2, <2>4, <2>5, <2>6, ResTimesBoth
  <2>8. f[n] \in Nat
    BY <2>2, <2>4, <2>6, NatProduct
  <2> QED BY <2>2, <2>3, <2>7, <2>8
<1>7. PolyValue(c, L, x) \in Nat
  BY <1>1, <1>2, PolyTermsType
<1>8. PolyValue(c, L, x) = Sum(t, S)
  BY DEF PolyValue
<1> HIDE DEF f, t, L
<1>9. Total(f) = Res(P, Sum(f, S))
  BY <1>4, TotalValue
<1> HIDE DEF S
<1>10. Res(P, Sum(f, S)) = Res(P, Sum(t, S))
  BY <1>2, <1>5, <1>6, SumResidue
<1>11. Res(P, PolyValue(c, L, x)) \in Field
  BY <1>7, FieldRes
<1> QED BY <1>3, <1>7, <1>8, <1>9, <1>10, <1>11 DEF L

\* The folded coefficients are those of a polynomial of the size of the image.
LEMMA FoldedType ==
  ASSUME NEW c, Polynomial(c, P), NEW s, Divisor(s), NEW x \in Field, NEW L, L = Len(c)
  PROVE  /\ FoldedCoefficients(c, s, x) \in Seq(Field)
         /\ Len(FoldedCoefficients(c, s, x)) = Groups(L, s)
         /\ FoldedFrom(P, FoldedCoefficients(c, s, x), Groups(L, s), c, L, s, x)
<1> DEFINE B == Groups(L, s)
           b == FoldedCoefficients(c, s, x)
           F(n) == [k \in {k \in 0..(s - 1) : (n - 1) * s + k < L} |->
                      c[(n - 1) * s + k + 1] * Power[x][k]]
<1>1. c \in Seq(Field) /\ L \in Nat /\ Coefficients(c, L) /\ DOMAIN c = 1..L
      /\ \A n \in 1..L : c[n] \in Nat
  BY PolynomialType DEF Polynomial
<1>2. s \in Nat \ {0} /\ s < P /\ P \in Nat /\ P > 0 /\ x \in Nat
  BY DivisorQuotient, FieldPrime, FieldType
<1>3. B \in Nat /\ B = (L + s - 1) \div s
  <2> DEFINE a == L + s - 1
  <2>1. a \in Nat
    BY <1>1, <1>2
  <2> HIDE DEF a
  <2>2. a \div s \in Nat
    BY <1>2, <2>1, DivisionType
  <2> QED BY <2>2 DEF a, Groups
<1>4. b = [n \in 1..B |-> Total(F(n))]
  BY DEF FoldedCoefficients, Groups
<1> HIDE DEF B, b
<1>5. ASSUME NEW m \in 1..B
      PROVE  /\ b[m] \in Field /\ b[m] \in Nat
             /\ Res(P, b[m]) = Res(P, Sum(GroupTerms(c, L, s, m, x), Group(L, s, m)))
  <2> DEFINE G == Group(L, s, m)
             t == GroupTerms(c, L, s, m, x)
             f == F(m)
  <2>1. b[m] = Total(f)
    BY <1>4
  <2>2. G = {k \in 0..(s - 1) : (m - 1) * s + k < L}
    BY DEF Group
  <2>3. DOMAIN f = G
    BY <2>2
  <2>4. IsFiniteSet(G)
    <3>1. 0 \in Int /\ s - 1 \in Int
      BY <1>2
    <3>2. IsFiniteSet(0..(s - 1))
      BY <3>1, FS_Interval
    <3>3. G \subseteq 0..(s - 1)
      BY <2>2
    <3> QED BY <3>2, <3>3, FS_Subset
  <2>5. m \in Nat /\ m - 1 \in Nat
    BY <1>3
  <2>6. ASSUME NEW k \in G
        PROVE  f[k] \in Nat /\ t[k] \in Nat /\ Res(P, f[k]) = Res(P, t[k])
    <3> DEFINE i == ((m - 1) * s) + k + 1
    <3>1. k \in 0..(s - 1) /\ ((m - 1) * s) + k < L
      BY <2>2
    <3>2. k \in 0..P /\ k \in Nat /\ i \in 1..L
      <4>1. k \in Nat /\ k <= P
        BY <1>2, <3>1
      <4>2. (m - 1) * s \in Nat
        BY <1>2, <2>5
      <4> QED BY <1>1, <3>1, <4>1, <4>2, <1>2
    <3>3. f[k] = c[i] ** Power[x][k]
      BY <2>2, <3>1 DEF **
    <3>4. t[k] = c[i] ** Pow(x)[k]
      BY DEF GroupTerms
    <3> HIDE DEF f, t, i
    <3>5. c[i] \in Nat
      BY <1>1, <3>2
    <3>6. Power[x][k] = Res(P, Pow(x)[k]) /\ Power[x][k] \in Nat /\ Pow(x)[k] \in Nat
      BY <1>2, <3>2, PowerValue, PowType
    <3>7. Res(P, Power[x][k]) = Res(P, Pow(x)[k])
      BY <1>2, <3>6, ResRes
    <3>8. Res(P, c[i] ** Power[x][k]) = Res(P, c[i] ** Pow(x)[k])
      BY <1>2, <3>5, <3>6, <3>7, ResTimesBoth, SMTT(25)
    <3>9. f[k] \in Nat /\ t[k] \in Nat
      BY <3>3, <3>4, <3>5, <3>6, NatProduct
    <3> QED BY <3>3, <3>4, <3>8, <3>9
  <2> HIDE DEF f, t, G
  <2>7. Total(f) = Res(P, Sum(f, G))
    BY <2>3, TotalValue
  <2>8. Res(P, Sum(f, G)) = Res(P, Sum(t, G))
    BY <1>2, <2>4, <2>6, SumResidue
  <2>9. Sum(f, G) \in Nat
    BY <2>4, <2>6, SumType
  <2>10. Res(P, Sum(f, G)) \in Field /\ Res(P, Res(P, Sum(f, G))) = Res(P, Sum(f, G))
    BY <2>9, FieldRes
  <2>11. b[m] \in Nat
    BY <2>1, <2>7, <2>10, FieldType
  <2> QED BY <2>1, <2>7, <2>8, <2>10, <2>11 DEF G, t
<1>6. b \in [1..B -> Field]
  BY <1>4, <1>5
<1>7. b \in Seq(Field) /\ Len(b) = B
  BY <1>3, <1>6, FunctionIsSeq
<1>8. FoldedFrom(P, b, B, c, L, s, x)
  BY <1>5 DEF FoldedFrom
<1> QED BY <1>7, <1>8 DEF B, b

\* Folding does not make a polynomial longer, and divides the bound on its length.
LEMMA FoldedLength ==
  ASSUME NEW c, Polynomial(c, P), NEW s, Divisor(s), NEW x \in Field
  PROVE  /\ Polynomial(FoldedCoefficients(c, s, x), P)
         /\ \A M \in Nat : Len(c) <= s * M => Len(FoldedCoefficients(c, s, x)) <= M
<1> DEFINE L == Len(c)
           a == L + s - 1
           b == FoldedCoefficients(c, s, x)
           q == a \div s
           r == a % s
<1>1. L \in Nat /\ s \in Nat \ {0} /\ s \in Nat /\ P \in Nat /\ L <= P
  BY PolynomialType, DivisorQuotient, FieldPrime DEF Polynomial
<1>2. b \in Seq(Field) /\ Len(b) = q
  BY FoldedType DEF Groups
<1>3. a \in Nat /\ a = L + s - 1
  BY <1>1
<1> HIDE DEF a, b, L
<1>4. q \in Nat /\ r \in 0..(s - 1) /\ r \in Nat /\ a = (s * q) + r
  BY <1>1, <1>3, DivisionType
<1> HIDE DEF q, r
<1>5. ASSUME NEW M \in Nat, L <= s * M PROVE q <= M
  <2>1. SUFFICES ASSUME q > M PROVE FALSE
    BY <1>4, <1>5
  <2> DEFINE e == q - (M + 1)
  <2>2. e \in Nat /\ q = (M + 1) + e
    BY <1>4, <1>5, <2>1
  <2> HIDE DEF e
  <2>3. s * q = (s * M) + s + (s * e) /\ s * e \in Nat /\ s * M \in Nat
    BY <1>1, <1>5, <2>2
  <2> QED BY <1>1, <1>3, <1>4, <1>5, <2>3
<1>6. q <= P
  <2>1. L <= s * P
    <3>1. P <= s * P
      BY <1>1
    <3>2. s * P \in Nat
      BY <1>1
    <3> QED BY <1>1, <3>1, <3>2
  <2> QED BY <1>1, <1>5, <2>1
<1> QED BY <1>2, <1>5, <1>6 DEF Polynomial, b, L

\* The value of the folded polynomial.
LEMMA FoldedEvaluation ==
  ASSUME NEW c, Polynomial(c, P), NEW s, Divisor(s), NEW x \in Field, NEW y \in Field,
         NEW L, L = Len(c)
  PROVE  /\ Evaluation(FoldedCoefficients(c, s, x), y) = Res(P, FoldValue(c, L, s, x, y))
         /\ FoldValue(c, L, s, x, y) \in Nat
<1> DEFINE b == FoldedCoefficients(c, s, x)
           B == Groups(L, s)
<1>1. L \in Nat /\ s \in Nat \ {0} /\ s \in Nat /\ P \in Nat /\ P > 0 /\ Coefficients(c, L)
      /\ x \in Nat /\ y \in Nat
  BY PolynomialType, DivisorQuotient, FieldPrime, FieldType DEF Polynomial
<1>2. Len(b) = B /\ FoldedFrom(P, b, B, c, L, s, x)
  BY FoldedType
<1>3. Polynomial(b, P)
  BY FoldedLength
<1> HIDE DEF b
<1>4. Evaluation(b, y) = Res(P, PolyValue(b, Len(b), y))
  BY <1>3, EvaluationValue
<1>5. B = Groups(L, s)
  OBVIOUS
<1> HIDE DEF B
<1>6. FoldedFrom(P, b, B, c, L, s, x) /\ L \in Nat /\ s \in Nat \ {0} /\ P \in Nat /\ P > 0
      /\ Coefficients(c, L) /\ x \in Nat /\ y \in Nat
  BY <1>1, <1>2
<1>7. Res(P, PolyValue(b, B, y)) = Res(P, FoldValue(c, L, s, x, y))
  BY <1>5, <1>6, FoldGroups
<1>8. FoldValue(c, L, s, x, y) \in Nat
  BY <1>1, FoldTermsType
<1> QED BY <1>2, <1>4, <1>7, <1>8 DEF b

-----------------------------------------------------------------------------
(***************************************************************************)
(* Folding the values on a coset.                                          *)
(***************************************************************************)
\* v lists the values of the polynomial c on the coset of size s that starts at h.
OnCoset(c, s, h, v) ==
  \A k \in 0..(s - 1) : v[k] = Evaluation(c, Res(P, h ** Pow(RootOfUnity(s))[k]))

\* What the coset folds to at x: the folded polynomial at the image of the coset.
FoldAt(c, s, h, x) == Evaluation(FoldedCoefficients(c, s, x), Power[h][s])

\* An element of a coset.
LEMMA CosetElement ==
  ASSUME NEW s, Divisor(s), NEW h \in Field, NEW k \in 0..(s - 1)
  PROVE  /\ h ** Pow(RootOfUnity(s))[k] \in Nat
         /\ Res(P, h ** Pow(RootOfUnity(s))[k]) \in Field
         /\ Res(P, h ** Pow(RootOfUnity(s))[k]) = (h * Power[RootOfUnity(s)][k]) % P
         /\ Pow(RootOfUnity(s))[k] \in Nat
         /\ k \in 0..P
<1> DEFINE g == RootOfUnity(s)
<1>1. s \in Nat \ {0} /\ s < P /\ P \in Nat /\ P > 0 /\ h \in Nat /\ k \in Nat
  BY DivisorQuotient, FieldPrime, FieldType
<1>2. k \in 0..P
  BY <1>1
<1>3. g \in Field /\ g \in Nat
  BY RootValue
<1> HIDE DEF g
<1>4. Pow(g)[k] \in Nat /\ Power[g][k] = Res(P, Pow(g)[k]) /\ Power[g][k] \in Nat
  BY <1>1, <1>2, <1>3, PowType, PowerValue
<1>5. h ** Pow(g)[k] \in Nat
  BY <1>1, <1>4, NatProduct
<1>6. Res(P, Power[g][k]) = Res(P, Pow(g)[k])
  BY <1>1, <1>4, ResRes
<1>7. Res(P, h ** Power[g][k]) = Res(P, h ** Pow(g)[k])
  BY <1>1, <1>4, <1>6, ResTimesBoth
<1>8. Res(P, h ** Power[g][k]) = (h * Power[g][k]) % P
  BY DEF Res, **
<1> QED BY <1>2, <1>4, <1>5, <1>7, <1>8, FieldRes DEF g

\* Values on a coset as the lemmas on folding have them.
LEMMA OnCosetValues ==
  ASSUME NEW c, Polynomial(c, P), NEW s, Divisor(s), NEW h \in Field, NEW v, OnCoset(c, s, h, v),
         NEW L, L = Len(c)
  PROVE  CosetValues(P, RootOfUnity(s), s, h, c, L, v) /\ \A k \in 0..(s - 1) : v[k] \in Field
<1>1. P \in Nat /\ P > 0 /\ L \in Nat /\ Coefficients(c, L) /\ h \in Nat
  BY FieldPrime, PolynomialType, FieldType DEF Polynomial
<1>2. ASSUME NEW k \in 0..(s - 1)
      PROVE  /\ v[k] \in Nat /\ v[k] \in Field
             /\ Res(P, v[k]) = Res(P, PolyValue(c, L, h ** Pow(RootOfUnity(s))[k]))
  <2> DEFINE y == h ** Pow(RootOfUnity(s))[k]
             z == Res(P, y)
  <2>1. y \in Nat /\ z \in Field
    BY CosetElement
  <2>2. v[k] = Evaluation(c, z)
    BY DEF OnCoset
  <2>3. z = Res(P, y)
    OBVIOUS
  <2> HIDE DEF y, z
  <2>4. Evaluation(c, z) = Res(P, PolyValue(c, L, z)) /\ Evaluation(c, z) \in Field
    BY <2>1, EvaluationValue
  <2>5. Res(P, z) = Res(P, y) /\ z \in Nat
    BY <2>1, <2>3, <1>1, ResRes, FieldType
  <2>6. Res(P, PolyValue(c, L, z)) = Res(P, PolyValue(c, L, y))
    BY <1>1, <2>1, <2>5, PolyResidue
  <2>7. v[k] \in Field /\ v[k] \in Nat /\ Res(P, v[k]) = v[k]
    BY <2>2, <2>4, FieldType
  <2> QED BY <2>2, <2>4, <2>6, <2>7 DEF y
<1> QED BY <1>2 DEF CosetValues

\* The image of a coset, and the value that it folds to.
LEMMA FoldAtValue ==
  ASSUME NEW c, Polynomial(c, P), NEW s, Divisor(s), NEW h \in Field, NEW x \in Field,
         NEW L, L = Len(c)
  PROVE  /\ FoldAt(c, s, h, x) = Res(P, FoldValue(c, L, s, x, Pow(h)[s]))
         /\ FoldAt(c, s, h, x) \in Field
         /\ Pow(h)[s] \in Nat /\ Power[h][s] = Res(P, Pow(h)[s]) /\ Power[h][s] \in Field
<1> DEFINE H == Power[h][s]
           b == FoldedCoefficients(c, s, x)
<1>1. s \in Nat \ {0} /\ s \in Nat /\ s \in 0..P /\ h \in Nat /\ x \in Nat /\ P \in Nat /\ P > 0
      /\ L \in Nat /\ Coefficients(c, L)
  BY DivisorQuotient, FieldType, FieldPrime, PolynomialType DEF Polynomial
<1>2. H = Res(P, Pow(h)[s]) /\ H \in Field /\ H \in Nat /\ Pow(h)[s] \in Nat
  BY <1>1, PowerValue, PowType
<1>3. Evaluation(b, H) = Res(P, FoldValue(c, L, s, x, H))
  BY <1>2, FoldedEvaluation
<1>4. Polynomial(b, P)
  BY FoldedLength
<1> HIDE DEF H, b
<1>5. Evaluation(b, H) \in Field
  BY <1>2, <1>4, EvaluationValue
<1>6. Res(P, H) = Res(P, Pow(h)[s])
  BY <1>1, <1>2, ResRes
<1> DEFINE B == Groups(L, s)
<1>7. FoldedFrom(P, b, B, c, L, s, x)
  BY FoldedType DEF b
<1>8. Coefficients(b, B)
  BY <1>7 DEF FoldedFrom, Coefficients
<1>9. B \in Nat
  BY <1>4, FoldedType, PolynomialType DEF b
<1>10. B = Groups(L, s)
  OBVIOUS
<1> HIDE DEF B
<1>11. Res(P, PolyValue(b, B, H)) = Res(P, FoldValue(c, L, s, x, H))
  BY <1>1, <1>2, <1>7, <1>10, FoldGroups
<1>12. Res(P, PolyValue(b, B, Pow(h)[s])) = Res(P, FoldValue(c, L, s, x, Pow(h)[s]))
  BY <1>1, <1>2, <1>7, <1>10, FoldGroups
<1>13. Res(P, PolyValue(b, B, H)) = Res(P, PolyValue(b, B, Pow(h)[s]))
  BY <1>1, <1>2, <1>6, <1>8, <1>9, PolyResidue
<1>14. FoldAt(c, s, h, x) = Evaluation(b, H)
  BY DEF FoldAt, b, H
<1> QED BY <1>2, <1>3, <1>5, <1>11, <1>12, <1>13, <1>14 DEF H

\* At an element of the coset, folding reads the value there.
LEMMA FoldInside ==
  ASSUME NEW c, Polynomial(c, P), NEW s, Divisor(s), NEW h \in Field, NEW x \in Field,
         NEW v, OnCoset(c, s, h, v), NEW k \in 0..(s - 1),
         x = Res(P, h ** Pow(RootOfUnity(s))[k])
  PROVE  v[k] = FoldAt(c, s, h, x) /\ Power[x][s] = Power[h][s]
<1> DEFINE L == Len(c)
           g == RootOfUnity(s)
           H == Pow(h)[s]
           y == h ** Pow(g)[k]
<1>1. s \in Nat \ {0} /\ s \in Nat /\ s \in 0..P /\ h \in Nat /\ x \in Nat /\ P \in Nat /\ P > 0
      /\ L \in Nat /\ Coefficients(c, L) /\ k \in Nat /\ IsPrime(P)
  BY DivisorQuotient, FieldType, FieldPrime, PolynomialType DEF Polynomial
<1>2. g \in Nat /\ HasOrder(P, g, s)
  BY RootValue
<1>3. y \in Nat /\ x = Res(P, y) /\ Pow(g)[k] \in Nat
  BY CosetElement
<1>4. v[k] = Evaluation(c, x)
  BY DEF OnCoset
<1>5. H \in Nat /\ Power[h][s] = Res(P, H) /\ Power[x][s] = Res(P, Pow(x)[s])
  BY <1>1, PowType, PowerValue
<1>6. y = h ** Pow(g)[k] /\ H = Pow(h)[s]
  OBVIOUS
<1> HIDE DEF y, g, H
<1>7. Pow(y)[s] = H ** Pow(Pow(g)[k])[s]
  BY <1>1, <1>3, <1>6, PowTimes
<1>8. Res(P, Pow(Pow(g)[k])[s]) = 1 /\ Pow(Pow(g)[k])[s] \in Nat
  <2> DEFINE m == k * s
             n == s * k
  <2>1. m = n /\ m \in Nat
    BY <1>1
  <2>2. Pow(Pow(g)[k])[s] = Pow(g)[m]
    BY <1>1, <1>2, PowPow
  <2>3. m % s = 0
    <3>1. m = (k ** s) ++ 0 /\ 0 \in 0..(s - 1)
      BY <1>1 DEF **, ++
    <3> HIDE DEF m
    <3> QED BY <1>1, <3>1, QuotientUnique
  <2> HIDE DEF m, n
  <2>4. Res(P, Pow(g)[m]) = 1 /\ Pow(g)[m] \in Nat
    BY <1>2, <2>1, <2>3, PowType DEF HasOrder
  <2> QED BY <2>2, <2>4
<1>9. Res(P, Pow(y)[s]) = Res(P, H)
  <2>1. Res(P, 1) = 1
    BY FieldPrime, ResSmall
  <2>2. Res(P, H ** Pow(Pow(g)[k])[s]) = Res(P, H ** 1)
    <3> DEFINE z == Pow(Pow(g)[k])[s]
    <3>1. z \in Nat /\ Res(P, z) = Res(P, 1)
      BY <1>8, <2>1
    <3> HIDE DEF z
    <3>2. Res(P, H ** z) = Res(P, H ** 1)
      BY <1>1, <1>5, <3>1, ResTimesBoth
    <3> QED BY <3>2 DEF z
  <2>3. H ** 1 = H
    BY <1>5, SumAndProduct
  <2> QED BY <1>7, <2>2, <2>3
<1>10. Res(P, Pow(x)[s]) = Res(P, H)
  <2>1. Res(P, x) = Res(P, y)
    BY <1>1, <1>3, ResRes
  <2>2. Res(P, Pow(x)[s]) = Res(P, Pow(y)[s])
    BY <1>1, <1>3, <2>1, ResPow
  <2> QED BY <1>9, <2>2
<1>11. Evaluation(c, x) = Res(P, PolyValue(c, L, x))
  BY EvaluationValue
<1>12. FoldAt(c, s, h, x) = Res(P, FoldValue(c, L, s, x, H))
  BY FoldAtValue DEF H
<1> HIDE DEF L
<1>13. Res(P, PolyValue(c, L, x)) = Res(P, FoldValue(c, L, s, x, H))
  BY <1>1, <1>5, <1>10, PolyFolds
<1> QED BY <1>4, <1>5, <1>10, <1>11, <1>12, <1>13

\* Outside of the coset, the sum over the coset gives the same.
LEMMA FoldOutside ==
  ASSUME NEW c, Polynomial(c, P), NEW s, Divisor(s), NEW h \in Field, h # 0, NEW x \in Field,
         NEW v, OnCoset(c, s, h, v),
         NEW u, CosetInverses(P, RootOfUnity(s), s, h, x, u),
         NEW r, r = s - 1,
         NEW e \in Nat, Res(P, (e ** (s ** Pow(h)[r])) ++ Pow(h)[s]) = Res(P, Pow(x)[s]),
         NEW t, CosetParts(P, RootOfUnity(s), s, u, e, v, t)
  PROVE  Res(P, Sum(t, 0..(s - 1))) = FoldAt(c, s, h, x)
<1> DEFINE L == Len(c)
           w == RootOfUnity(s)
<1>1. s \in Nat \ {0} /\ s \in Nat /\ s < P /\ h \in Nat /\ x \in Nat /\ P \in Nat /\ P > 0
      /\ L \in Nat /\ Coefficients(c, L) /\ IsPrime(P)
  BY DivisorQuotient, FieldType, FieldPrime, PolynomialType DEF Polynomial
<1>2. w \in Nat /\ HasOrder(P, w, s)
  BY RootValue
<1>3. Res(P, h) # 0
  BY FieldType
<1>4. Res(P, s) # 0
  BY <1>1, ResSmall
<1>5. CosetValues(P, w, s, h, c, L, v)
  BY OnCosetValues
<1>6. FoldAt(c, s, h, x) = Res(P, FoldValue(c, L, s, x, Pow(h)[s]))
  BY FoldAtValue
<1>7. CosetInverses(P, w, s, h, x, u) /\ CosetParts(P, w, s, u, e, v, t)
  OBVIOUS
<1> HIDE DEF L, w
<1>8. Res(P, e ** Moment(w, s, u, 1)) = 1
  BY <1>1, <1>2, <1>3, <1>4, <1>7, MomentInverse
<1>9. Res(P, Sum(t, 0..(s - 1))) = Res(P, FoldValue(c, L, s, x, Pow(h)[s]))
  BY <1>1, <1>2, <1>5, <1>7, <1>8, CosetFold
<1> QED BY <1>6, <1>9

\* x is in the coset of size s that starts at h.
InCoset(x, h, s) == \E k \in 0..(s - 1) : x = Res(P, h ** Pow(RootOfUnity(s))[k])

\* x is in the coset if and only if its image is that of the coset.
LEMMA CosetMembers ==
  ASSUME NEW s, Divisor(s), NEW h \in Field, h # 0, NEW x \in Field
  PROVE  InCoset(x, h, s) <=> Power[x][s] = Power[h][s]
<1> DEFINE g == RootOfUnity(s)
           z == Inverted[h]
           y == x ** z
<1>1. s \in Nat \ {0} /\ s \in Nat /\ s \in 0..P /\ h \in Nat /\ x \in Nat /\ P \in Nat /\ P > 0 /\ P > 1
      /\ IsPrime(P) /\ Res(P, h) # 0 /\ Res(P, x) = x
  BY DivisorQuotient, FieldType, FieldPrime
<1>2. ASSUME InCoset(x, h, s) PROVE Power[x][s] = Power[h][s]
  <2>1. PICK k \in 0..(s - 1) : x = Res(P, h ** Pow(g)[k])
    BY <1>2 DEF InCoset
  <2> DEFINE c == << >>
             v == [n \in 0..(s - 1) |-> Evaluation(c, Res(P, h ** Pow(g)[n]))]
  <2>2. c \in Seq(Field) /\ Len(c) = 0
    OBVIOUS
  <2>3. Polynomial(c, P)
    BY <1>1, <2>2 DEF Polynomial
  <2>4. OnCoset(c, s, h, v)
    BY DEF OnCoset
  <2> HIDE DEF c, v
  <2> QED BY <2>1, <2>3, <2>4, FoldInside
<1>3. ASSUME Power[x][s] = Power[h][s] PROVE InCoset(x, h, s)
  <2>1. Res(P, Pow(x)[s]) = Res(P, Pow(h)[s]) /\ Pow(x)[s] \in Nat /\ Pow(h)[s] \in Nat
    BY <1>1, <1>3, PowerValue, PowType
  <2>2. z \in Nat /\ Res(P, h ** z) = 1 /\ Pow(z)[s] \in Nat
    BY <1>1, InvertedValue, PowType
  <2> HIDE DEF z
  <2>3. y \in Nat /\ y = x ** z /\ h ** z \in Nat
    BY <1>1, <2>2, NatProduct
  <2> HIDE DEF y
  <2>4. Pow(y)[s] = Pow(x)[s] ** Pow(z)[s] /\ Pow(h ** z)[s] = Pow(h)[s] ** Pow(z)[s]
    BY <1>1, <2>2, <2>3, PowTimes
  <2>5. Res(P, Pow(x)[s] ** Pow(z)[s]) = Res(P, Pow(h)[s] ** Pow(z)[s])
    BY <1>1, <2>1, <2>2, ResTimes
  <2>6. Res(P, 1) = 1
    BY <1>1, ResSmall
  <2>7. Res(P, Pow(h ** z)[s]) = Res(P, Pow(1)[s])
    <3>1. Res(P, h ** z) = Res(P, 1)
      BY <2>2, <2>6
    <3> QED BY <1>1, <2>3, <3>1, ResPow
  <2>8. Pow(1)[s] = 1
    BY <1>1, PowOne
  <2>9. Res(P, Pow(y)[s]) = 1
    BY <2>4, <2>5, <2>6, <2>7, <2>8
  <2>10. PICK k \in 0..(s - 1) : Res(P, y) = Res(P, Pow(g)[k])
    BY <2>3, <2>9, RootPowers
  <2>11. Pow(g)[k] \in Nat /\ h ** Pow(g)[k] \in Nat /\ h ** y \in Nat
    BY <1>1, <2>3, CosetElement, NatProduct
  <2> HIDE DEF g
  <2>12. Res(P, h ** y) = Res(P, h ** Pow(g)[k])
    BY <1>1, <2>3, <2>10, <2>11, ResTimesBoth
  <2>13. h ** y = (h ** z) ** x
    <3>1. h ** (x ** z) = h ** (z ** x)
      BY <1>1, <2>2, SumAndProduct
    <3>2. (h ** z) ** x = h ** (z ** x)
      BY <1>1, <2>2, ThreeNumbers
    <3> QED BY <2>3, <3>1, <3>2
  <2>14. Res(P, (h ** z) ** x) = Res(P, 1 ** x)
    <3>1. Res(P, h ** z) = Res(P, 1)
      BY <2>2, <2>6
    <3> QED BY <1>1, <2>3, <3>1, ResTimes
  <2>15. 1 ** x = x
    BY <1>1, SumAndProduct
  <2>16. x = Res(P, h ** Pow(g)[k])
    BY <1>1, <2>12, <2>13, <2>14, <2>15
  <2> QED BY <2>16 DEF InCoset, g
<1> QED BY <1>2, <1>3

\* The factor that the verifier takes the sum times: s h^(s - 1) of it are x^s - h^s.
LEMMA FactorValue ==
  ASSUME NEW s, Divisor(s), NEW h \in Field, h # 0, NEW x \in Field, NEW r, r = s - 1,
         NEW e, e = (Minus(Power[x][s], Power[h][s]) * Inverted[(s * Power[h][s - 1]) % P]) % P
  PROVE  /\ e \in Field /\ e \in Nat
         /\ Res(P, (e ** (s ** Pow(h)[r])) ++ Pow(h)[s]) = Res(P, Pow(x)[s])
<1> DEFINE a == Power[x][s]
           b == Power[h][s]
           m == Minus(a, b)
           q == Power[h][r]
           n == Res(P, s ** q)
           i == Inverted[n]
           z == s ** Pow(h)[r]
<1>1. s \in Nat \ {0} /\ s \in Nat /\ s \in 0..P /\ s < P /\ h \in Nat /\ x \in Nat /\ P \in Nat /\ P > 0
      /\ IsPrime(P) /\ Res(P, h) # 0 /\ r \in Nat /\ r \in 0..P
  BY DivisorQuotient, FieldType, FieldPrime
<1>2. a \in Field /\ b \in Field /\ a = Res(P, Pow(x)[s]) /\ b = Res(P, Pow(h)[s])
      /\ q = Res(P, Pow(h)[r]) /\ q \in Field /\ q \in Nat /\ b \in Nat
  BY <1>1, PowerValue
<1>3. Pow(x)[s] \in Nat /\ Pow(h)[s] \in Nat /\ Pow(h)[r] \in Nat
  BY <1>1, PowType
<1>4. m \in Field /\ m \in Nat /\ Res(P, m ++ b) = a
  BY <1>2, MinusValue
<1>5. e = Res(P, m ** i)
  <2>1. n = (s * Power[h][s - 1]) % P
    BY DEF Res, **
  <2> QED BY <2>1 DEF Res, **
<1> HIDE DEF a, b, m, q
<1>6. Res(P, q) = Res(P, Pow(h)[r])
  BY <1>1, <1>2, <1>3, ResRes
<1>7. Res(P, s ** q) = Res(P, z) /\ z \in Nat /\ s ** q \in Nat
  <2>1. z \in Nat /\ s ** q \in Nat
    BY <1>1, <1>2, <1>3, NatProduct
  <2>2. Res(P, s ** q) = Res(P, s ** Pow(h)[r])
    BY <1>1, <1>2, <1>3, <1>6, ResTimesBoth
  <2> QED BY <2>1, <2>2
<1>8. n \in Field /\ n # 0
  <2>1. Res(P, Pow(h)[r]) # 0
    BY <1>1, PowNotZero
  <2>2. Res(P, s) # 0
    BY <1>1, ResSmall
  <2>3. Res(P, z) # 0
    BY <1>1, <1>3, <2>1, <2>2, PrimeProduct
  <2> QED BY <1>7, <2>3, FieldRes
<1>9. n = Res(P, s ** q)
  OBVIOUS
<1>10. i \in Field /\ i \in Nat /\ Res(P, i ** n) = 1 /\ n \in Nat
  BY <1>8, InvertedValue, FieldType
<1> HIDE DEF n, i, z
<1>11. m ** i \in Nat
  BY <1>4, <1>10, NatProduct
<1>12. e \in Field /\ e \in Nat /\ Res(P, e) = Res(P, m ** i)
  BY <1>5, <1>11, FieldRes, FieldType
<1>13. Res(P, n) = Res(P, z)
  <2>1. Res(P, Res(P, s ** q)) = Res(P, s ** q)
    BY <1>1, <1>7, ResRes
  <2> QED BY <2>1, <1>7, <1>9
<1>14. Res(P, e ** z) = m
  <2>1. Res(P, e ** z) = Res(P, (m ** i) ** n)
    BY <1>1, <1>7, <1>10, <1>11, <1>12, <1>13, ResTimesBoth
  <2>2. (m ** i) ** n = (i ** n) ** m
    <3>1. (m ** i) ** n = m ** (i ** n)
      BY <1>4, <1>10, ThreeNumbers
    <3>2. i ** n \in Nat
      BY <1>10, NatProduct
    <3> QED BY <3>1, <3>2, <1>4, SumAndProduct
  <2>3. Res(P, 1) = 1 /\ i ** n \in Nat
    BY FieldPrime, ResSmall, <1>10, NatProduct
  <2>4. Res(P, (i ** n) ** m) = Res(P, 1 ** m)
    <3>1. Res(P, i ** n) = Res(P, 1)
      BY <1>10, <2>3
    <3> QED BY <1>1, <1>4, <2>3, <3>1, ResTimes
  <2>5. 1 ** m = m /\ Res(P, m) = m
    BY <1>4, SumAndProduct, FieldType
  <2> QED BY <2>1, <2>2, <2>4, <2>5
<1>15. e ** z \in Nat
  BY <1>7, <1>12, NatProduct
<1>16. Res(P, (e ** z) ++ Pow(h)[s]) = Res(P, m ++ b)
  <2>1. Res(P, e ** z) = Res(P, m) /\ Res(P, Pow(h)[s]) = Res(P, b)
    BY <1>1, <1>2, <1>3, <1>4, <1>14, FieldType, ResRes
  <2> DEFINE X == e ** z
             Y == Pow(h)[s]
  <2>2. X \in Nat /\ Y \in Nat /\ Res(P, X) = Res(P, m) /\ Res(P, Y) = Res(P, b)
    BY <1>3, <1>15, <2>1
  <2> HIDE DEF X, Y
  <2>3. Res(P, X ++ Y) = Res(P, m ++ b)
    BY <1>1, <1>2, <1>4, <2>2, ResPlusBoth
  <2> QED BY <2>3 DEF X, Y
<1> QED BY <1>2, <1>4, <1>12, <1>16 DEF z

\* The inverses of the distances to the elements of a coset.
LEMMA DistanceInverses ==
  ASSUME NEW s, Divisor(s), NEW h \in Field, NEW x \in Field, ~InCoset(x, h, s),
         NEW k \in 0..(s - 1), NEW y, y = Res(P, h ** Pow(RootOfUnity(s))[k]),
         NEW i, i = Inverted[Minus(x, y)]
  PROVE  /\ i \in Nat
         /\ Res(P, i ** x) = Res(P, (i ** (h ** Pow(RootOfUnity(s))[k])) ++ 1)
<1> DEFINE m == Minus(x, y)
           z == h ** Pow(RootOfUnity(s))[k]
<1>1. P \in Nat /\ P > 0 /\ P > 1 /\ x \in Nat /\ Res(P, x) = x /\ Res(P, 1) = 1
  BY FieldPrime, FieldType, ResSmall
<1>2. z \in Nat /\ y \in Field /\ y \in Nat /\ y = Res(P, z)
  BY CosetElement, FieldType
<1>3. x # y
  BY DEF InCoset
<1>4. m \in Field /\ m \in Nat /\ Res(P, m ++ y) = x /\ m # 0
  BY <1>2, <1>3, MinusValue
<1>5. i = Inverted[m]
  OBVIOUS
<1> HIDE DEF m, z
<1>6. i \in Nat /\ Res(P, i ** m) = 1
  BY <1>4, <1>5, InvertedValue
<1>7. Res(P, y) = Res(P, z)
  BY <1>1, <1>2, ResRes
<1>8. m ++ y \in Nat /\ i ** m \in Nat /\ i ** y \in Nat /\ i ** z \in Nat
  BY <1>2, <1>4, <1>6, NatSum, NatProduct
<1>9. Res(P, i ** x) = Res(P, i ** (m ++ y))
  <2>1. Res(P, x) = Res(P, m ++ y)
    BY <1>1, <1>4
  <2> QED BY <1>1, <1>6, <1>8, <2>1, ResTimesBoth
<1>10. i ** (m ++ y) = (i ** m) ++ (i ** y)
  BY <1>2, <1>4, <1>6, ThreeNumbers
<1>11. Res(P, i ** y) = Res(P, i ** z)
  BY <1>1, <1>2, <1>6, <1>7, ResTimesBoth
<1>12. Res(P, (i ** m) ++ (i ** y)) = Res(P, 1 ++ (i ** z))
  <2>1. Res(P, i ** m) = Res(P, 1)
    BY <1>1, <1>6
  <2> QED BY <1>1, <1>8, <1>11, <2>1, ResPlusBoth
<1>13. 1 ++ (i ** z) = (i ** z) ++ 1
  BY <1>8, SumAndProduct
<1> QED BY <1>6, <1>9, <1>10, <1>12, <1>13 DEF z

\* What the verifier folds.
LEMMA FoldedCosetValue ==
  ASSUME NEW c, Polynomial(c, P), NEW s, Divisor(s), NEW h \in Field, h # 0, NEW x \in Field,
         NEW v, OnCoset(c, s, h, v)
  PROVE  FoldedCoset(v, s, h, x) = FoldAt(c, s, h, x)
<1> DEFINE S == 0..(s - 1)
           g == RootOfUnity(s)
           el(k) == (h * Power[g][k]) % P
           e == (Minus(Power[x][s], Power[h][s]) * Inverted[(s * Power[h][s - 1]) % P]) % P
           at == {k \in S : el(k) = x}
           u == [k \in S |-> Inverted[Minus(x, el(k))]]
           f == [k \in S |-> Inverted[Minus(x, el(k))] * ((e * Power[g][k]) % P) * v[k]]
           r == s - 1
<1>1. FoldedCoset(v, s, h, x) = IF at # {} THEN v[CHOOSE k \in at : TRUE] ELSE Total(f)
  BY DEF FoldedCoset
<1>2. ASSUME NEW k \in S PROVE el(k) = Res(P, h ** Pow(g)[k]) /\ Pow(g)[k] \in Nat /\ k \in 0..P
  BY CosetElement
<1>3. g \in Field /\ g \in Nat /\ P \in Nat /\ P > 0
  BY RootValue, FieldPrime
<1>4. CASE at # {}
  <2> DEFINE k == CHOOSE k \in at : TRUE
  <2>1. k \in at
    BY <1>4
  <2> HIDE DEF k
  <2>2. k \in S /\ el(k) = x
    BY <2>1
  <2>3. x = Res(P, h ** Pow(g)[k])
    BY <1>2, <2>2
  <2> HIDE DEF g, el, at, f
  <2>4. v[k] = FoldAt(c, s, h, x)
    BY <2>2, <2>3, FoldInside DEF g
  <2> QED BY <1>1, <1>4, <2>4 DEF k
<1>5. CASE at = {}
  <2>1. ~InCoset(x, h, s)
    <3>1. SUFFICES ASSUME NEW k \in S, x = Res(P, h ** Pow(g)[k]) PROVE FALSE
      BY DEF InCoset
    <3> QED BY <1>2, <1>5, <3>1
  <2>2. ASSUME NEW k \in S
        PROVE  /\ u[k] \in Nat
               /\ Res(P, u[k] ** x) = Res(P, (u[k] ** (h ** Pow(g)[k])) ++ 1)
    <3> DEFINE y == el(k)
               i == Inverted[Minus(x, y)]
    <3>1. y = Res(P, h ** Pow(g)[k]) /\ i = Inverted[Minus(x, y)] /\ u[k] = i
      BY <1>2
    <3> HIDE DEF y, i, el, u
    <3>2. /\ i \in Nat
          /\ Res(P, i ** x) = Res(P, (i ** (h ** Pow(g)[k])) ++ 1)
      BY <2>1, <3>1, DistanceInverses
    <3> QED BY <3>1, <3>2
  <2>3. CosetInverses(P, g, s, h, x, u)
    BY <2>2 DEF CosetInverses
  <2>4. \A k \in S : v[k] \in Field
    <3>1. \E L : L = Len(c)
      OBVIOUS
    <3> QED BY <3>1, OnCosetValues
  <2>5. e \in Field /\ e \in Nat /\ r = s - 1
        /\ Res(P, (e ** (s ** Pow(h)[r])) ++ Pow(h)[s]) = Res(P, Pow(x)[s])
    <3> DEFINE ee == e
    <3>1. ee = (Minus(Power[x][s], Power[h][s]) * Inverted[(s * Power[h][s - 1]) % P]) % P
      OBVIOUS
    <3>2. r = s - 1
      OBVIOUS
    <3> HIDE DEF ee, r
    <3>3. /\ ee \in Field /\ ee \in Nat
          /\ Res(P, (ee ** (s ** Pow(h)[r])) ++ Pow(h)[s]) = Res(P, Pow(x)[s])
      BY <3>1, <3>2, FactorValue
    <3> QED BY <3>2, <3>3 DEF ee
  <2> HIDE DEF e, r
  <2>6. ASSUME NEW k \in S
        PROVE  f[k] \in Nat /\ Res(P, f[k]) = Res(P, (u[k] ** (e ** Pow(g)[k])) ** v[k])
    <3> DEFINE G == Pow(g)[k]
               q == Power[g][k]
               a == Res(P, e ** q)
    <3>1. f[k] = (u[k] ** a) ** v[k]
      BY DEF Res, **
    <3>2. q = Res(P, G) /\ q \in Nat /\ G \in Nat
      BY <1>2, <1>3, PowerValue
    <3>3. u[k] \in Nat /\ v[k] \in Nat
      BY <2>2, <2>4, FieldType
    <3> HIDE DEF f, u, q, G
    <3>4. Res(P, q) = Res(P, G) /\ e ** q \in Nat /\ e ** G \in Nat
      BY <1>3, <2>5, <3>2, ResRes, NatProduct
    <3>5. Res(P, e ** q) = Res(P, e ** G)
      BY <1>3, <2>5, <3>2, <3>4, ResTimesBoth
    <3>6. a \in Nat /\ Res(P, a) = Res(P, e ** G)
      BY <1>3, <3>4, <3>5, ResRes, ResType
    <3> HIDE DEF a
    <3>7. Res(P, u[k] ** a) = Res(P, u[k] ** (e ** G))
      BY <1>3, <3>3, <3>4, <3>6, ResTimesBoth
    <3>8. u[k] ** a \in Nat /\ u[k] ** (e ** G) \in Nat
      BY <3>3, <3>4, <3>6, NatProduct
    <3>9. Res(P, (u[k] ** a) ** v[k]) = Res(P, (u[k] ** (e ** G)) ** v[k])
      BY <1>3, <3>3, <3>7, <3>8, ResTimes
    <3>10. (u[k] ** a) ** v[k] \in Nat
      BY <3>3, <3>8, NatProduct
    <3> QED BY <3>1, <3>9, <3>10 DEF G
  <2>7. CosetParts(P, g, s, u, e, v, f)
    BY <2>6 DEF CosetParts
  <2>8. DOMAIN f = S
    OBVIOUS
  <2> HIDE DEF f, u
  <2>9. Total(f) = Res(P, Sum(f, S))
    BY <2>8, TotalValue
  <2>10. Res(P, Sum(f, S)) = FoldAt(c, s, h, x)
    BY <2>3, <2>5, <2>7, FoldOutside
  <2> QED BY <1>1, <1>5, <2>9, <2>10
<1> QED BY <1>4, <1>5

\* What the prover adds up, and what it takes the sum times.
InterpolationTerms(v, s, h, x, f) ==
  f = [k \in 0..(s - 1) |->
         v[k] * Inverted[Minus((x * Inverted[Power[RootOfUnity(s)][k]]) % P, h)]]

InterpolationConstant(s, h, x, b) ==
  b = Minus((Power[x][s] * Inverted[Power[h][s - 1]]) % P, h)

\* What the prover takes the sum times.
LEMMA ConstantValue ==
  ASSUME NEW s, Divisor(s), NEW h \in Field, h # 0, NEW x \in Field, NEW r, r = s - 1,
         NEW b, InterpolationConstant(s, h, x, b), NEW e, e = Res(P, b ** Inverted[s])
  PROVE  /\ b \in Field /\ e \in Field /\ e \in Nat
         /\ Res(P, (e ** (s ** Pow(h)[r])) ++ Pow(h)[s]) = Res(P, Pow(x)[s])
<1> DEFINE X == Power[x][s]
           q == Power[h][r]
           i == Inverted[q]
           a == Res(P, X ** i)
           z == Inverted[s]
           H == Pow(h)[r]
<1>1. s \in Nat \ {0} /\ s \in Nat /\ s \in 0..P /\ s < P /\ h \in Nat /\ x \in Nat /\ P \in Nat /\ P > 0
      /\ IsPrime(P) /\ Res(P, h) # 0 /\ r \in Nat /\ r \in 0..P /\ s \in Field /\ s # 0
  BY DivisorQuotient, FieldType, FieldPrime DEF Field
<1>2. X = Res(P, Pow(x)[s]) /\ X \in Nat /\ q = Res(P, H) /\ q \in Field /\ q \in Nat
  BY <1>1, PowerValue
<1>3. Pow(x)[s] \in Nat /\ Pow(h)[s] \in Nat /\ H \in Nat
  BY <1>1, PowType
<1>4. q # 0
  BY <1>1, <1>2, PowNotZero
<1>5. i \in Nat /\ Res(P, i ** q) = 1
  BY <1>2, <1>4, InvertedValue
<1>6. z \in Nat /\ Res(P, z ** s) = 1
  BY <1>1, InvertedValue
<1>7. b = Minus(a, h)
  <2>1. q = Power[h][s - 1]
    OBVIOUS
  <2> QED BY <2>1 DEF InterpolationConstant, Res, **
<1>8. e = Res(P, b ** z)
  OBVIOUS
<1>9. Pow(h)[s] = h ** H
  <2>1. r + 1 = s
    BY <1>1
  <2>2. Pow(h)[r + 1] = H ** h
    BY <1>1, PowEquation
  <2> HIDE DEF H
  <2>3. H ** h = h ** H
    BY <1>1, <1>3, SumAndProduct
  <2> QED BY <2>1, <2>2, <2>3
<1> HIDE DEF X, q, i, z, H
<1>10. X ** i \in Nat
  BY <1>2, <1>5, NatProduct
<1>11. a \in Field /\ a \in Nat /\ Res(P, a) = Res(P, X ** i)
  BY <1>10, FieldRes, FieldType
<1> HIDE DEF a
<1>12. b \in Field /\ b \in Nat /\ Res(P, b ++ h) = a
  BY <1>7, <1>11, MinusValue
<1>13. b ** z \in Nat
  BY <1>6, <1>12, NatProduct
<1>14. e \in Field /\ e \in Nat /\ Res(P, e) = Res(P, b ** z)
  BY <1>8, <1>13, FieldRes, FieldType
<1>15. Res(P, 1) = 1
  BY FieldPrime, ResSmall
<1>16. Res(P, e ** (s ** H)) = Res(P, b ** H)
  <2>1. s ** H \in Nat /\ z ** s \in Nat /\ b ** H \in Nat
    BY <1>1, <1>3, <1>6, <1>12, NatProduct
  <2>2. Res(P, e ** (s ** H)) = Res(P, (b ** z) ** (s ** H))
    BY <1>1, <1>13, <1>14, <2>1, ResTimes
  <2>3. (b ** z) ** (s ** H) = (z ** s) ** (b ** H)
    <3>1. (b ** z) ** (s ** H) = b ** (z ** (s ** H))
      BY <1>6, <1>12, <2>1, ThreeNumbers
    <3>2. z ** (s ** H) = (z ** s) ** H
      BY <1>1, <1>3, <1>6, ThreeNumbers
    <3>3. b ** ((z ** s) ** H) = (b ** (z ** s)) ** H
      BY <1>3, <1>12, <2>1, ThreeNumbers
    <3>4. b ** (z ** s) = (z ** s) ** b
      BY <1>12, <2>1, SumAndProduct
    <3>5. ((z ** s) ** b) ** H = (z ** s) ** (b ** H)
      BY <1>3, <1>12, <2>1, ThreeNumbers
    <3> QED BY <3>1, <3>2, <3>3, <3>4, <3>5
  <2>4. Res(P, (z ** s) ** (b ** H)) = Res(P, 1 ** (b ** H))
    <3>1. Res(P, z ** s) = Res(P, 1)
      BY <1>6, <1>15
    <3> QED BY <1>1, <2>1, <3>1, ResTimes
  <2>5. 1 ** (b ** H) = b ** H
    BY <2>1, SumAndProduct
  <2> QED BY <2>2, <2>3, <2>4, <2>5
<1>17. Res(P, (b ++ h) ** H) = Res(P, Pow(x)[s])
  <2>1. b ++ h \in Nat /\ i ** q \in Nat /\ i ** H \in Nat
    BY <1>1, <1>2, <1>3, <1>5, <1>12, NatSum, NatProduct
  <2>2. Res(P, b ++ h) = Res(P, X ** i)
    BY <1>11, <1>12, FieldType
  <2>3. Res(P, (b ++ h) ** H) = Res(P, (X ** i) ** H)
    BY <1>1, <1>3, <1>10, <2>1, <2>2, ResTimes
  <2>4. (X ** i) ** H = (i ** H) ** X
    <3>1. (X ** i) ** H = X ** (i ** H)
      BY <1>2, <1>3, <1>5, ThreeNumbers
    <3> QED BY <1>2, <2>1, <3>1, SumAndProduct
  <2>5. Res(P, i ** H) = 1
    <3>1. Res(P, q) = Res(P, H)
      BY <1>1, <1>2, <1>3, ResRes
    <3>2. Res(P, i ** q) = Res(P, i ** H)
      BY <1>1, <1>2, <1>3, <1>5, <3>1, ResTimesBoth
    <3> QED BY <1>5, <3>2
  <2>6. Res(P, (i ** H) ** X) = Res(P, 1 ** X)
    <3>1. Res(P, i ** H) = Res(P, 1)
      BY <1>15, <2>5
    <3> QED BY <1>1, <1>2, <2>1, <3>1, ResTimes
  <2>7. 1 ** X = X /\ Res(P, X) = Res(P, Pow(x)[s])
    BY <1>1, <1>2, <1>3, SumAndProduct, ResRes
  <2> QED BY <2>3, <2>4, <2>6, <2>7
<1>18. (b ++ h) ** H = (b ** H) ++ (h ** H)
  BY <1>1, <1>3, <1>12, ThreeNumbers
<1>19. Res(P, (e ** (s ** H)) ++ (h ** H)) = Res(P, (b ** H) ++ (h ** H))
  <2>1. e ** (s ** H) \in Nat /\ b ** H \in Nat /\ h ** H \in Nat
    BY <1>1, <1>3, <1>12, <1>14, NatProduct
  <2> QED BY <1>1, <1>16, <2>1, ResPlus
<1> QED BY <1>9, <1>12, <1>14, <1>17, <1>18, <1>19 DEF H

\* What the prover folds, when the challenge is outside of the coset.
LEMMA InterpolationValue ==
  ASSUME NEW c, Polynomial(c, P), NEW s, Divisor(s), NEW h \in Field, h # 0, NEW x \in Field,
         ~InCoset(x, h, s), NEW v, OnCoset(c, s, h, v),
         NEW b, InterpolationConstant(s, h, x, b), NEW f, InterpolationTerms(v, s, h, x, f)
  PROVE  (b * Inverted[s] * Total(f)) % P = FoldAt(c, s, h, x)
<1> DEFINE S == 0..(s - 1)
           g == RootOfUnity(s)
           e == (b * Inverted[s]) % P
           inv(k) == Inverted[Power[g][k]]
           dis(k) == Inverted[Minus((x * inv(k)) % P, h)]
           u == [k \in S |-> dis(k) ** inv(k)]
           t == [k \in S |-> f[k] ** e]
           r == s - 1
<1>1. g \in Field /\ g \in Nat /\ P \in Nat /\ P > 0 /\ P > 1 /\ s \in Nat \ {0} /\ s \in Nat
      /\ h \in Nat /\ x \in Nat /\ IsPrime(P) /\ HasOrder(P, g, s) /\ s \in Field
  BY RootValue, FieldPrime, DivisorQuotient, FieldType DEF Field
<1>2. \A k \in S : v[k] \in Field
  <2>1. \E L : L = Len(c)
    OBVIOUS
  <2> QED BY <2>1, OnCosetValues
<1>3. Res(P, 1) = 1
  BY <1>1, ResSmall
<1>4. ASSUME NEW k \in S
      PROVE  /\ u[k] \in Nat /\ dis(k) \in Nat
             /\ Res(P, u[k] ** x) = Res(P, (u[k] ** (h ** Pow(g)[k])) ++ 1)
             /\ Res(P, u[k] ** Pow(g)[k]) = Res(P, dis(k))
             /\ Pow(g)[k] \in Nat
  <2> DEFINE G == Pow(g)[k]
             q == Power[g][k]
             i == inv(k)
             a == Res(P, x ** i)
             m == Minus(a, h)
             z == dis(k)
  <2>1. k \in 0..P /\ k \in Nat /\ G \in Nat
    BY CosetElement
  <2>2. q = Res(P, G) /\ q \in Field /\ q \in Nat
    BY <1>1, <2>1, PowerValue
  <2>3. q # 0
    <3>1. Res(P, g) # 0
      BY <1>1, OrderPower
    <3> QED BY <1>1, <2>1, <2>2, <3>1, PowNotZero
  <2>4. i \in Nat /\ Res(P, i ** q) = 1
    BY <2>2, <2>3, InvertedValue
  <2>5. z = Inverted[m] /\ u[k] = z ** i
    <3>1. a = (x * i) % P
      BY DEF Res, **
    <3> QED BY <3>1
  <2>6. x ** i \in Nat
    <3> HIDE DEF i
    <3> QED BY <1>1, <2>4, NatProduct
  <2>7. a \in Field /\ a \in Nat /\ Res(P, a) = Res(P, x ** i)
    <3> HIDE DEF i
    <3> QED BY <2>6, FieldRes, FieldType
  <2>8. Res(P, i ** G) = Res(P, 1)
    <3> HIDE DEF i, q, G
    <3>1. Res(P, q) = Res(P, G)
      BY <1>1, <2>1, <2>2, ResRes
    <3>2. Res(P, i ** q) = Res(P, i ** G)
      BY <1>1, <2>1, <2>2, <2>4, <3>1, ResTimesBoth
    <3> QED BY <1>3, <2>4, <3>2
  <2>9. a # h
    <3>1. SUFFICES ASSUME a = h PROVE FALSE
      OBVIOUS
    <3> HIDE DEF i, q, G, a
    <3>2. i ** G \in Nat
      BY <2>1, <2>4, NatProduct
    <3>3. Res(P, h ** G) = Res(P, (x ** i) ** G)
      <4>1. Res(P, h) = Res(P, x ** i)
        BY <2>7, <3>1
      <4> QED BY <1>1, <2>1, <2>6, <4>1, ResTimes
    <3>4. (x ** i) ** G = (i ** G) ** x
      <4>1. (x ** i) ** G = x ** (i ** G)
        BY <1>1, <2>1, <2>4, ThreeNumbers
      <4> QED BY <1>1, <3>2, <4>1, SumAndProduct
    <3>5. Res(P, (i ** G) ** x) = Res(P, 1 ** x)
      BY <1>1, <2>8, <3>2, ResTimes
    <3>6. 1 ** x = x /\ Res(P, x) = x
      BY <1>1, SumAndProduct, FieldType
    <3>7. x = Res(P, h ** G)
      BY <3>3, <3>4, <3>5, <3>6
    <3> QED BY <3>7 DEF InCoset, G
  <2>10. m \in Field /\ m \in Nat /\ m # 0 /\ Res(P, m ++ h) = a
    <3> HIDE DEF a
    <3> QED BY <2>7, <2>9, MinusValue
  <2>11. z \in Nat /\ Res(P, z ** m) = 1
    <3> HIDE DEF m, z
    <3> QED BY <2>5, <2>10, InvertedValue
  <2>12. u[k] \in Nat
    <3> HIDE DEF z, i, u
    <3> QED BY <2>4, <2>5, <2>11, NatProduct
  <2> HIDE DEF dis, inv, u, G, q, i, a, m, z
  <2>13. Res(P, u[k] ** G) = Res(P, z)
    <3>1. (z ** i) ** G = (i ** G) ** z /\ i ** G \in Nat
      <4>1. (z ** i) ** G = z ** (i ** G)
        BY <2>1, <2>4, <2>11, ThreeNumbers
      <4>2. i ** G \in Nat
        BY <2>1, <2>4, NatProduct
      <4> QED BY <2>11, <4>1, <4>2, SumAndProduct
    <3>2. Res(P, (i ** G) ** z) = Res(P, 1 ** z)
      BY <1>1, <2>8, <2>11, <3>1, ResTimes
    <3>3. 1 ** z = z
      BY <2>11, SumAndProduct
    <3> QED BY <2>5, <3>1, <3>2, <3>3
  <2>14. u[k] ** G \in Nat /\ h ** G \in Nat /\ z ** m \in Nat /\ z ** h \in Nat /\ m ++ h \in Nat
         /\ u[k] ** (h ** G) \in Nat
    BY <1>1, <2>1, <2>10, <2>11, <2>12, NatProduct, NatSum
  <2>15. Res(P, u[k] ** (h ** G)) = Res(P, z ** h)
    <3>1. u[k] ** (h ** G) = (u[k] ** G) ** h
      <4>1. h ** G = G ** h
        BY <1>1, <2>1, SumAndProduct
      <4> QED BY <1>1, <2>1, <2>12, <4>1, ThreeNumbers
    <3> QED BY <1>1, <2>11, <2>13, <2>14, <3>1, ResTimes
  <2>16. Res(P, u[k] ** x) = Res(P, z ** (m ++ h))
    <3>1. (z ** i) ** x = z ** (x ** i)
      <4>1. i ** x = x ** i
        BY <1>1, <2>4, SumAndProduct
      <4> QED BY <1>1, <2>4, <2>11, <4>1, ThreeNumbers
    <3>2. Res(P, x ** i) = Res(P, m ++ h)
      BY <2>7, <2>10, FieldType
    <3>3. Res(P, z ** (x ** i)) = Res(P, z ** (m ++ h))
      BY <1>1, <2>6, <2>11, <2>14, <3>2, ResTimesBoth, SMTT(25)
    <3> QED BY <2>5, <3>1, <3>3
  <2>17. z ** (m ++ h) = (z ** m) ++ (z ** h)
    BY <1>1, <2>10, <2>11, ThreeNumbers
  <2>18. Res(P, (z ** m) ++ (z ** h)) = Res(P, 1 ++ (u[k] ** (h ** G)))
    <3>1. Res(P, z ** m) = Res(P, 1)
      BY <1>3, <2>11
    <3>2. Res(P, z ** h) = Res(P, u[k] ** (h ** G))
      BY <2>15
    <3> QED BY <1>1, <2>14, <3>1, <3>2, ResPlusBoth, SMTT(25)
  <2>19. 1 ++ (u[k] ** (h ** G)) = (u[k] ** (h ** G)) ++ 1
    BY <2>14, SumAndProduct
  <2>20. Res(P, u[k] ** x) = Res(P, (u[k] ** (h ** G)) ++ 1)
    BY <2>16, <2>17, <2>18, <2>19
  <2> QED BY <2>1, <2>11, <2>12, <2>13, <2>20 DEF G, z
<1>5. CosetInverses(P, g, s, h, x, u)
  BY <1>4 DEF CosetInverses
<1>6. e = Res(P, b ** Inverted[s]) /\ r = s - 1
  BY DEF Res, **
<1>7. f = [k \in S |-> v[k] * dis(k)]
  BY DEF InterpolationTerms
<1>8. /\ b \in Field /\ e \in Field /\ e \in Nat
      /\ Res(P, (e ** (s ** Pow(h)[r])) ++ Pow(h)[s]) = Res(P, Pow(x)[s])
  <2> HIDE DEF e, r
  <2>1. /\ b \in Field /\ e \in Field /\ e \in Nat
        /\ Res(P, (e ** (s ** Pow(h)[r])) ++ Pow(h)[s]) = Res(P, Pow(x)[s])
    BY <1>6, ConstantValue
  <2> QED BY <2>1 DEF e, r
<1>9. ASSUME NEW k \in S
      PROVE  /\ f[k] \in Nat /\ t[k] = f[k] ** e /\ t[k] \in Nat
             /\ Res(P, t[k]) = Res(P, (u[k] ** (e ** Pow(g)[k])) ** v[k])
  <2> DEFINE G == Pow(g)[k]
             z == dis(k)
             w == v[k]
             y == u[k]
  <2>1. f[k] = w ** z /\ t[k] = f[k] ** e
    BY <1>7 DEF **
  <2>2. y \in Nat /\ z \in Nat /\ G \in Nat /\ Res(P, y ** G) = Res(P, z)
    BY <1>4
  <2>3. w \in Nat
    BY <1>2, FieldType
  <2> HIDE DEF e, t, dis, inv, u, G, z, w, y
  <2>4. f[k] \in Nat /\ t[k] \in Nat
    <3>1. w ** z \in Nat
      BY <2>2, <2>3, NatProduct
    <3>2. f[k] \in Nat
      BY <2>1, <3>1
    <3>3. f[k] ** e \in Nat
      BY <1>8, <3>2, NatProduct
    <3> QED BY <2>1, <3>2, <3>3
  <2>5. y ** G \in Nat /\ w ** e \in Nat /\ e ** G \in Nat
    BY <1>8, <2>2, <2>3, NatProduct
  <2>6. (w ** z) ** e = z ** (w ** e)
    <3>1. w ** z = z ** w
      BY <2>2, <2>3, SumAndProduct
    <3>2. (z ** w) ** e = z ** (w ** e)
      BY <1>8, <2>2, <2>3, ThreeNumbers
    <3> QED BY <3>1, <3>2
  <2>7. (y ** (e ** G)) ** w = (y ** G) ** (w ** e)
    <3>1. e ** G = G ** e
      BY <1>8, <2>2, SumAndProduct
    <3>2. y ** (G ** e) = (y ** G) ** e
      BY <1>8, <2>2, ThreeNumbers
    <3>3. ((y ** G) ** e) ** w = (y ** G) ** (e ** w)
      BY <1>8, <2>3, <2>5, ThreeNumbers
    <3>4. e ** w = w ** e
      BY <1>8, <2>3, SumAndProduct
    <3> QED BY <3>1, <3>2, <3>3, <3>4
  <2>8. Res(P, z ** (w ** e)) = Res(P, (y ** G) ** (w ** e))
    BY <1>1, <2>2, <2>5, ResTimes
  <2>9. Res(P, t[k]) = Res(P, (y ** (e ** G)) ** w)
    BY <2>1, <2>6, <2>7, <2>8
  <2> QED BY <2>1, <2>4, <2>9 DEF G, w, y
<1>10. CosetParts(P, g, s, u, e, v, t)
  BY <1>9 DEF CosetParts
<1>11. DOMAIN f = S /\ IsFiniteSet(S)
  <2>1. 0 \in Int /\ s - 1 \in Int
    BY <1>1
  <2>2. IsFiniteSet(S)
    BY <2>1, FS_Interval
  <2> QED BY <1>7, <2>2
<1>12. Inverted[s] \in Nat /\ b \in Nat
  <2>1. s # 0
    BY <1>1
  <2> QED BY <1>1, <1>8, <2>1, InvertedValue, FieldType
<1> DEFINE n == Sum(f, S)
<1>13. n \in Nat /\ Total(f) = Res(P, n)
  BY <1>9, <1>11, SumType, TotalValue
<1>14. Sum(t, S) = n ** e
  <2>1. \A k \in S : f[k] \in Nat /\ t[k] = f[k] ** e
    BY <1>9
  <2> HIDE DEF t, e, S
  <2>2. Sum(t, S) = Sum(f, S) ** e
    BY <1>8, <1>11, <2>1, SumScaled
  <2> QED BY <2>2 DEF n
<1>15. Res(P, Sum(t, S)) = FoldAt(c, s, h, x)
  <2> HIDE DEF t, e, u, r
  <2> QED BY <1>5, <1>6, <1>8, <1>10, FoldOutside
<1> DEFINE z == Inverted[s]
           A == b ** z
           T == Total(f)
<1>16. (b * Inverted[s] * Total(f)) % P = Res(P, A ** T) /\ e = Res(P, A)
  BY DEF Res, **
<1>17. z \in Nat /\ T = Res(P, n)
  BY <1>12, <1>13
<1>18. A = b ** z
  OBVIOUS
<1> HIDE DEF e, n, t, u, z, A, T
<1>19. A \in Nat
  BY <1>12, <1>17, <1>18, NatProduct
<1>20. Res(P, e) = Res(P, A) /\ Res(P, T) = Res(P, n) /\ T \in Nat
  BY <1>1, <1>13, <1>16, <1>17, <1>19, ResRes, ResType
<1>21. Res(P, A ** T) = Res(P, e ** T) /\ Res(P, e ** T) = Res(P, e ** n)
  BY <1>1, <1>8, <1>13, <1>19, <1>20, ResTimes, ResTimesBoth
<1>22. e ** n = n ** e
  BY <1>8, <1>13, SumAndProduct
<1> QED BY <1>14, <1>15, <1>16, <1>21, <1>22

-----------------------------------------------------------------------------
(***************************************************************************)
(* The next codeword of the prover.                                        *)
(***************************************************************************)
\* x is not in a coset of the domain that is followed by another.
WellRead(d, s, x) ==
  \A p \in 0..(d.order - 1) :
    ElementByIndex(d, p) = x => CosetIndex(d, p, s) = NumCosets(d, s) - 1

\* What defines the running first element.
Runs(d, s, x, h) ==
  h = [j \in 0..(NumCosets(d, s) - 1) |->
         IF j = 0 THEN d.shift
         ELSE IF Power[x][s] = Power[h[j - 1]][s] THEN h[j - 1]
         ELSE (h[j - 1] * RootOfUnity(d.order)) % P]

\* The first element of a domain is its shift.
LEMMA FirstElement ==
  ASSUME NEW d, Domain(d)
  PROVE  0 \in 0..(d.order - 1) /\ ElementByIndex(d, 0) = d.shift
<1> DEFINE w == RootOfUnity(d.order)
           h == d.shift
<1>1. Divisor(d.order) /\ h \in Field
  BY DEF Domain
<1>2. 0 \in 0..(d.order - 1) /\ w \in Nat /\ h \in Nat /\ Res(P, h) = h
  BY <1>1, DivisorQuotient, RootValue, FieldType
<1>3. ElementByIndex(d, 0) = Res(P, h ** Pow(w)[0])
  BY <1>2, ElementValue
<1> HIDE DEF w, h
<1>4. Pow(w)[0] = 1
  BY <1>2, PowEquation
<1>5. h ** 1 = h
  BY <1>2, SumAndProduct
<1> QED BY <1>2, <1>3, <1>4, <1>5 DEF h

\* And the others follow, each the one before times the root.
LEMMA NextElement ==
  ASSUME NEW d, Domain(d), NEW j \in Nat, NEW i \in 0..(d.order - 1), i = j + 1
  PROVE  ElementByIndex(d, i) = (ElementByIndex(d, j) * RootOfUnity(d.order)) % P
<1> DEFINE w == RootOfUnity(d.order)
           h == d.shift
           a == ElementByIndex(d, j)
<1>1. Divisor(d.order) /\ h \in Field /\ P \in Nat /\ P > 0
  BY FieldPrime DEF Domain
<1>2. j \in 0..(d.order - 1) /\ i \in Nat /\ w \in Nat /\ h \in Nat
  BY <1>1, DivisorQuotient, RootValue, FieldType
<1>3. ElementByIndex(d, i) = Res(P, h ** Pow(w)[i])
  BY ElementValue
<1>4. a = Res(P, h ** Pow(w)[j]) /\ a \in Nat
  BY <1>2, ElementValue
<1>5. (a * w) % P = Res(P, a ** w)
  BY DEF Res, **
<1> HIDE DEF w, h, a
<1>6. Pow(w)[i] = Pow(w)[j] ** w
  BY <1>2, PowEquation
<1>7. Pow(w)[j] \in Nat
  BY <1>2, PowType
<1>8. h ** Pow(w)[j] \in Nat
  BY <1>2, <1>7, NatProduct
<1>9. h ** (Pow(w)[j] ** w) = (h ** Pow(w)[j]) ** w
  BY <1>2, <1>7, ThreeNumbers
<1>10. Res(P, a) = Res(P, h ** Pow(w)[j])
  BY <1>1, <1>4, <1>8, ResRes
<1>11. Res(P, a ** w) = Res(P, (h ** Pow(w)[j]) ** w)
  BY <1>1, <1>2, <1>4, <1>8, <1>10, ResTimes
<1> QED BY <1>3, <1>5, <1>6, <1>9, <1>11 DEF w, a

\* An element of a coset has a position in the domain.
LEMMA CosetHolds ==
  ASSUME NEW d, NEW s, CutInto(d, s), NEW j \in 0..(NumCosets(d, s) - 1), NEW x \in Field,
         InCoset(x, ElementByIndex(d, j), s)
  PROVE  \E p \in 0..(d.order - 1) : ElementByIndex(d, p) = x /\ CosetIndex(d, p, s) = j
<1>1. PICK k \in 0..(s - 1) : x = Res(P, ElementByIndex(d, j) ** Pow(RootOfUnity(s))[k])
  BY DEF InCoset
<1> DEFINE p == PositionByCosetIndices(d, j, k, s)
<1>2. ElementByIndex(d, p) = x
  BY <1>1, ElementOfCoset
<1>3. p \in 0..(d.order - 1) /\ CosetIndex(d, p, s) = j
  BY CosetPosition
<1> QED BY <1>2, <1>3

\* A challenge is in no coset but the last.
LEMMA OnlyLastCoset ==
  ASSUME NEW d, NEW s, CutInto(d, s), NEW j \in 0..(NumCosets(d, s) - 1), NEW x \in Field,
         WellRead(d, s, x), Power[x][s] = Power[ElementByIndex(d, j)][s]
  PROVE  j = NumCosets(d, s) - 1 /\ InCoset(x, ElementByIndex(d, j), s)
<1>1. Domain(d) /\ Divisor(s) /\ j \in 0..(d.order - 1)
  <2>1. NumCosets(d, s) <= d.order /\ Divisor(d.order) /\ NumCosets(d, s) \in Nat
    BY LocalizedDomain
  <2>2. d.order \in Nat
    BY <2>1 DEF Divisor
  <2> QED BY <2>1, <2>2, LocalizedDomain DEF CutInto
<1>2. ElementByIndex(d, j) \in Field \ {0}
  BY <1>1, ElementValue
<1>3. InCoset(x, ElementByIndex(d, j), s)
  BY <1>1, <1>2, CosetMembers
<1>4. PICK p \in 0..(d.order - 1) : ElementByIndex(d, p) = x /\ CosetIndex(d, p, s) = j
  BY <1>3, CosetHolds
<1> QED BY <1>3, <1>4 DEF WellRead

\* Then the running element is the first element of each coset.
LEMMA RunningElement ==
  ASSUME NEW d, NEW s, CutInto(d, s), NEW x \in Field, WellRead(d, s, x)
  PROVE  \A j \in 0..(NumCosets(d, s) - 1) : RunningH(d, s, x)[j] = ElementByIndex(d, j)
<1> DEFINE M == NumCosets(d, s)
           E == [j \in 0..(M - 1) |-> ElementByIndex(d, j)]
           h == RunningH(d, s, x)
<1>1. Domain(d) /\ M \in Nat \ {0} /\ M \in Nat /\ d.order \in Nat /\ M <= d.order
  BY LocalizedDomain DEF CutInto, Divisor
<1>2. ASSUME NEW j \in 0..(M - 1), j # 0
      PROVE  /\ j - 1 \in 0..(M - 1)
             /\ Power[x][s] # Power[E[j - 1]][s]
             /\ E[j] = (E[j - 1] * RootOfUnity(d.order)) % P
  <2> DEFINE i == j - 1
  <2>1. i \in Nat /\ i \in 0..(M - 1) /\ j \in 0..(d.order - 1) /\ j = i + 1 /\ i # M - 1
    BY <1>1, <1>2
  <2>2. i = j - 1
    OBVIOUS
  <2>3. E[i] = ElementByIndex(d, i) /\ E[j] = ElementByIndex(d, j)
    BY <2>1
  <2> HIDE DEF i, E
  <2>4. Power[x][s] # Power[E[i]][s]
    <3>1. SUFFICES ASSUME Power[x][s] = Power[ElementByIndex(d, i)][s] PROVE FALSE
      BY <2>3
    <3>2. i = NumCosets(d, s) - 1
      BY <2>1, <3>1, OnlyLastCoset
    <3> QED BY <2>1, <3>2
  <2>5. E[j] = (E[i] * RootOfUnity(d.order)) % P
    <3>1. ElementByIndex(d, j) = (ElementByIndex(d, i) * RootOfUnity(d.order)) % P
      BY <1>1, <2>1, NextElement
    <3> QED BY <2>3, <3>1
  <2> QED BY <2>1, <2>2, <2>4, <2>5
<1>3. E[0] = d.shift /\ 0 \in 0..(M - 1)
  BY <1>1, FirstElement
<1>4. Runs(d, s, x, E)
  <2>1. ASSUME NEW j \in 0..(M - 1)
        PROVE  E[j] = IF j = 0 THEN d.shift
                      ELSE IF Power[x][s] = Power[E[j - 1]][s] THEN E[j - 1]
                      ELSE (E[j - 1] * RootOfUnity(d.order)) % P
    <3>1. CASE j = 0
      <4> HIDE DEF E
      <4> QED BY <3>1, <1>3
    <3>2. CASE j # 0
      <4>1. Power[x][s] # Power[E[j - 1]][s] /\ E[j] = (E[j - 1] * RootOfUnity(d.order)) % P
        BY <1>2, <3>2
      <4> HIDE DEF E
      <4> QED BY <3>2, <4>1
    <3> QED BY <3>1, <3>2
  <2>2. E = [j \in 0..(M - 1) |-> E[j]]
    OBVIOUS
  <2> HIDE DEF E
  <2>3. E = [j \in 0..(M - 1) |->
               IF j = 0 THEN d.shift
               ELSE IF Power[x][s] = Power[E[j - 1]][s] THEN E[j - 1]
               ELSE (E[j - 1] * RootOfUnity(d.order)) % P]
    BY <2>1, <2>2, Zenon
  <2> QED BY <2>3 DEF Runs
<1>5. h = CHOOSE f : Runs(d, s, x, f)
  BY Zenon DEF RunningH, Runs
<1> HIDE DEF h
<1>6. Runs(d, s, x, h)
  BY <1>4, <1>5
<1> DEFINE Q == {n \in Nat : n \in 0..(M - 1) => h[n] = E[n]}
<1>7. ASSUME NEW j \in 0..(M - 1)
      PROVE  h[j] = IF j = 0 THEN d.shift
                    ELSE IF Power[x][s] = Power[h[j - 1]][s] THEN h[j - 1]
                    ELSE (h[j - 1] * RootOfUnity(d.order)) % P
  BY <1>6, Zenon DEF Runs
<1>8. 0 \in Q
  <2>1. h[0] = d.shift
    BY <1>3, <1>7
  <2> QED BY <1>3, <2>1
<1>9. ASSUME NEW n \in Nat, n \in Q PROVE n + 1 \in Q
  <2>1. SUFFICES ASSUME n + 1 \in 0..(M - 1) PROVE h[n + 1] = E[n + 1]
    OBVIOUS
  <2> DEFINE m == n + 1
  <2>2. m \in 0..(M - 1) /\ m # 0 /\ m - 1 = n /\ n \in 0..(M - 1)
    BY <1>1, <2>1
  <2> HIDE DEF E, m
  <2>3. h[n] = E[n]
    BY <1>9, <2>2
  <2>4. Power[x][s] # Power[E[n]][s] /\ E[m] = (E[n] * RootOfUnity(d.order)) % P
    BY <1>2, <2>2
  <2>5. h[m] = IF Power[x][s] = Power[h[n]][s] THEN h[n] ELSE (h[n] * RootOfUnity(d.order)) % P
    BY <1>7, <2>2
  <2>6. h[m] = E[m]
    BY <2>3, <2>4, <2>5
  <2> QED BY <2>6 DEF m
<1> HIDE DEF Q
<1>10. \A n \in Nat : n \in Q
  BY <1>8, <1>9, NatSetInduction
<1>11. ASSUME NEW j \in 0..(M - 1) PROVE h[j] = ElementByIndex(d, j)
  <2>1. j \in Nat
    BY <1>1
  <2>2. h[j] = E[j]
    BY <1>10, <2>1 DEF Q
  <2> QED BY <2>2
<1> QED BY <1>11 DEF h

\* The values on a domain.
LEMMA EvaluatedType ==
  ASSUME NEW c, NEW d, NEW i \in 0..(d.order - 1)
  PROVE  EvaluatedOver(c, d)[i] = Evaluation(c, ElementByIndex(d, i))
BY DEF EvaluatedOver

\* The values on a coset of the domain.
LEMMA CosetOfCodeword ==
  ASSUME NEW c, NEW d, NEW s, CutInto(d, s), NEW j \in 0..(NumCosets(d, s) - 1),
         NEW v, v = [k \in 0..(s - 1) |->
                       EvaluatedOver(c, d)[PositionByCosetIndices(d, j, k, s)]]
  PROVE  OnCoset(c, s, ElementByIndex(d, j), v)
<1>1. ASSUME NEW k \in 0..(s - 1)
      PROVE  v[k] = Evaluation(c, Res(P, ElementByIndex(d, j) ** Pow(RootOfUnity(s))[k]))
  <2> DEFINE p == PositionByCosetIndices(d, j, k, s)
  <2>1. v[k] = EvaluatedOver(c, d)[p]
    OBVIOUS
  <2>2. p \in 0..(d.order - 1)
    BY CosetPosition
  <2>3. ElementByIndex(d, p) = Res(P, ElementByIndex(d, j) ** Pow(RootOfUnity(s))[k])
    BY ElementOfCoset
  <2> HIDE DEF p
  <2>4. v[k] = Evaluation(c, ElementByIndex(d, p))
    BY <2>1, <2>2, EvaluatedType
  <2> QED BY <2>3, <2>4
<1> QED BY <1>1 DEF OnCoset

\* The first element of a coset goes to the element with the index of the coset.
LEMMA CosetImage ==
  ASSUME NEW d, NEW s, CutInto(d, s), NEW j \in 0..(NumCosets(d, s) - 1)
  PROVE  /\ ElementByIndex(Localized(d, s), j) = Power[ElementByIndex(d, j)][s]
         /\ ElementByIndex(d, j) \in Field /\ ElementByIndex(d, j) # 0
<1> DEFINE M == NumCosets(d, s)
           a == ElementByIndex(d, j)
<1>1. Domain(d) /\ Divisor(s) /\ M \in Nat \ {0} /\ M \in Nat /\ M <= d.order /\ d.order \in Nat
  BY LocalizedDomain DEF CutInto, Divisor
<1>2. j \in 0..(d.order - 1) /\ j \in Nat /\ j < M
  BY <1>1
<1>3. CosetIndex(d, j, s) = j
  <2>1. j % M = j
    <3> HIDE DEF M
    <3> QED BY <1>1, <1>2, ModSmall
  <2> QED BY <2>1 DEF CosetIndex
<1>4. a \in Field /\ a # 0 /\ a \in Nat
  BY <1>1, <1>2, ElementValue
<1>5. s \in Nat /\ s \in 0..P
  BY <1>1, DivisorQuotient
<1>6. ElementByIndex(Localized(d, s), CosetIndex(d, j, s)) = Res(P, Pow(a)[s])
  BY <1>2, ElementLocalized
<1> HIDE DEF a
<1>7. Power[a][s] = Res(P, Pow(a)[s])
  BY <1>4, <1>5, PowerValue
<1> QED BY <1>3, <1>4, <1>6, <1>7 DEF a

\* What the prover computes for a coset: by the sum, and by reading.
NextSum(c, d, s, x, j, h, y) ==
  y = (Minus((Power[x][s] * Inverted[Power[h][s - 1]]) % P, h) * Inverted[s]
         * Total([k \in 0..(s - 1) |->
             EvaluatedOver(c, d)[PositionByCosetIndices(d, j, k, s)]
               * Inverted[Minus((x * Inverted[Power[RootOfUnity(s)][k]]) % P, h)]])) % P

NextPlace(s, x, h, n) == n = CHOOSE k \in 0..(s - 1) : (h * Power[RootOfUnity(s)][k]) % P = x

\* A coset that does not hold x: what the prover's sum gives.
LEMMA NextOutside ==
  ASSUME NEW c, Polynomial(c, P), NEW d, NEW s, CutInto(d, s), NEW x \in Field,
         NEW j \in 0..(NumCosets(d, s) - 1),
         NEW h, h = ElementByIndex(d, j), Power[x][s] # Power[h][s],
         NEW y, NextSum(c, d, s, x, j, h, y)
  PROVE  y = FoldAt(c, s, h, x)
<1> DEFINE v == [k \in 0..(s - 1) |-> EvaluatedOver(c, d)[PositionByCosetIndices(d, j, k, s)]]
           b == Minus((Power[x][s] * Inverted[Power[h][s - 1]]) % P, h)
           f == [k \in 0..(s - 1) |->
                   EvaluatedOver(c, d)[PositionByCosetIndices(d, j, k, s)]
                     * Inverted[Minus((x * Inverted[Power[RootOfUnity(s)][k]]) % P, h)]]
<1>1. y = (b * Inverted[s] * Total(f)) % P
  BY DEF NextSum
<1>2. InterpolationConstant(s, h, x, b)
  BY DEF InterpolationConstant
<1>3. InterpolationTerms(v, s, h, x, f)
  BY DEF InterpolationTerms
<1>4. v = [k \in 0..(s - 1) |-> EvaluatedOver(c, d)[PositionByCosetIndices(d, j, k, s)]]
  OBVIOUS
<1> HIDE DEF v, b, f
<1>5. OnCoset(c, s, h, v)
  BY <1>4, CosetOfCodeword
<1>6. h \in Field /\ h # 0 /\ Divisor(s)
  BY CosetImage, LocalizedDomain
<1>7. ~InCoset(x, h, s)
  BY <1>6, CosetMembers
<1>8. (b * Inverted[s] * Total(f)) % P = FoldAt(c, s, h, x)
  BY <1>2, <1>3, <1>5, <1>6, <1>7, InterpolationValue
<1> QED BY <1>1, <1>8

\* A coset that holds x: what the prover reads.
LEMMA NextInside ==
  ASSUME NEW c, Polynomial(c, P), NEW d, NEW s, CutInto(d, s), NEW x \in Field,
         NEW j \in 0..(NumCosets(d, s) - 1),
         NEW h, h = ElementByIndex(d, j), InCoset(x, h, s),
         NEW n, NextPlace(s, x, h, n)
  PROVE  EvaluatedOver(c, d)[PositionByCosetIndices(d, j, n, s)] = FoldAt(c, s, h, x)
<1> DEFINE v == [k \in 0..(s - 1) |-> EvaluatedOver(c, d)[PositionByCosetIndices(d, j, k, s)]]
<1>1. h \in Field /\ h # 0 /\ Divisor(s)
  BY CosetImage, LocalizedDomain
<1>2. PICK i \in 0..(s - 1) : x = Res(P, h ** Pow(RootOfUnity(s))[i])
  BY DEF InCoset
<1>3. (h * Power[RootOfUnity(s)][i]) % P = x
  BY <1>1, <1>2, CosetElement
<1>4. n \in 0..(s - 1) /\ (h * Power[RootOfUnity(s)][n]) % P = x
  BY <1>3 DEF NextPlace
<1>5. x = Res(P, h ** Pow(RootOfUnity(s))[n])
  <2>1. Res(P, h ** Pow(RootOfUnity(s))[n]) = (h * Power[RootOfUnity(s)][n]) % P
    BY <1>1, <1>4, CosetElement
  <2> QED BY <1>4, <2>1
<1>6. v[n] = EvaluatedOver(c, d)[PositionByCosetIndices(d, j, n, s)]
  BY <1>4
<1>7. v = [k \in 0..(s - 1) |-> EvaluatedOver(c, d)[PositionByCosetIndices(d, j, k, s)]]
  OBVIOUS
<1> HIDE DEF v
<1>8. OnCoset(c, s, h, v)
  BY <1>7, CosetOfCodeword
<1>9. v[n] = FoldAt(c, s, h, x)
  BY <1>1, <1>4, <1>5, <1>8, FoldInside
<1> QED BY <1>6, <1>9

\* The next codeword has the values of the folded polynomial on the image of the domain, unless x
\* is in a coset before the last.
LEMMA NextCodewordValue ==
  ASSUME NEW c, Polynomial(c, P), NEW d, NEW s, CutInto(d, s), NEW x \in Field, WellRead(d, s, x)
  PROVE  NextCodeword(EvaluatedOver(c, d), d, s, x)
           = EvaluatedOver(FoldedCoefficients(c, s, x), Localized(d, s))
<1> DEFINE M == NumCosets(d, s)
           cosets == 0..(M - 1)
           h == RunningH(d, s, x)
           f == EvaluatedOver(c, d)
           In(j) == Power[x][s] = Power[h[j]][s]
           marked == {j \in cosets : In(j)}
           interpolation(j) ==
             (Minus((Power[x][s] * Inverted[Power[h[j]][s - 1]]) % P, h[j]) * Inverted[s]
                * Total([k \in 0..(s - 1) |->
                    f[PositionByCosetIndices(d, j, k, s)]
                      * Inverted[Minus((x * Inverted[Power[RootOfUnity(s)][k]]) % P, h[j])]])) % P
           found(j) == CHOOSE k \in 0..(s - 1) : (h[j] * Power[RootOfUnity(s)][k]) % P = x
           next(j) == IF ~In(j) THEN interpolation(j)
                      ELSE IF \E l \in marked : l > j THEN 0
                      ELSE f[PositionByCosetIndices(d, j, found(j), s)]
           b == FoldedCoefficients(c, s, x)
           e == Localized(d, s)
<1>1. NextCodeword(f, d, s, x) = [j \in cosets |-> next(j)]
  BY DEF NextCodeword
<1>2. M \in Nat \ {0} /\ e.order = M
  BY LocalizedDomain
<1>3. ASSUME NEW j \in cosets PROVE next(j) = Evaluation(b, ElementByIndex(e, j))
  <2> DEFINE hj == ElementByIndex(d, j)
  <2>1. h[j] = hj
    BY RunningElement
  <2>2. Evaluation(b, ElementByIndex(e, j)) = FoldAt(c, s, hj, x)
    <3>1. ElementByIndex(e, j) = Power[hj][s]
      BY CosetImage
    <3> HIDE DEF e, hj
    <3> QED BY <3>1 DEF FoldAt
  <2>3. hj = ElementByIndex(d, j)
    OBVIOUS
  <2>4. CASE ~In(j)
    <3>1. NextSum(c, d, s, x, j, hj, next(j))
      <4>1. next(j) = interpolation(j)
        BY <2>4
      <4> HIDE DEF h, hj
      <4> QED BY <4>1, <2>1 DEF NextSum
    <3>2. Power[x][s] # Power[hj][s]
      <4> HIDE DEF h, hj
      <4> QED BY <2>1, <2>4
    <3> DEFINE y == next(j)
    <3> HIDE DEF y, hj
    <3>3. y = FoldAt(c, s, hj, x)
      BY <2>3, <3>1, <3>2, NextOutside DEF y
    <3> QED BY <2>2, <3>3 DEF y
  <2>5. CASE In(j)
    <3>1. Power[x][s] = Power[hj][s]
      <4> HIDE DEF h, hj
      <4> QED BY <2>1, <2>5
    <3>2. j = M - 1 /\ InCoset(x, hj, s)
      BY <3>1, OnlyLastCoset
    <3>3. ~ \E l \in marked : l > j
      <4> HIDE DEF h
      <4> QED BY <1>2, <3>2
    <3> DEFINE n == found(j)
    <3>4. NextPlace(s, x, hj, n)
      <4> HIDE DEF h, hj
      <4> QED BY <2>1 DEF NextPlace
    <3>5. next(j) = f[PositionByCosetIndices(d, j, n, s)]
      <4> HIDE DEF marked, In, f, found
      <4> QED BY <2>5, <3>3
    <3> HIDE DEF n, hj
    <3>6. EvaluatedOver(c, d)[PositionByCosetIndices(d, j, n, s)] = FoldAt(c, s, hj, x)
      BY <2>3, <3>2, <3>4, NextInside
    <3> QED BY <2>2, <3>5, <3>6
  <2> QED BY <2>4, <2>5
<1>4. EvaluatedOver(b, e) = [j \in cosets |-> Evaluation(b, ElementByIndex(e, j))]
  BY <1>2 DEF EvaluatedOver
<1> HIDE DEF next, b, e, cosets
<1>5. [j \in cosets |-> next(j)] = [j \in cosets |-> Evaluation(b, ElementByIndex(e, j))]
  BY <1>3
<1> QED BY <1>1, <1>4, <1>5 DEF b, e, cosets

-----------------------------------------------------------------------------
(***************************************************************************)
(* The domains of the reductions, and the polynomial that is folded.       *)
(***************************************************************************)
\* What defines the domains up to the n-th.
Localizes(n, f) ==
  f = [i \in 0..n |-> IF i = 0 THEN CodewordDomain ELSE Localized(f[i - 1], LocalizerDegree(i - 1))]

\* A step of a function on 0..n that is defined by what comes before.
LEMMA LocalizesStep ==
  ASSUME NEW n \in Nat, NEW f, Localizes(n, f)
  PROVE  /\ f[0] = CodewordDomain
         /\ \A i \in Nat : i < n => f[i + 1] = Localized(f[i], LocalizerDegree(i))
<1>1. \A i \in 0..n : f[i] = IF i = 0 THEN CodewordDomain
                             ELSE Localized(f[i - 1], LocalizerDegree(i - 1))
  BY Zenon DEF Localizes
<1>2. f[0] = CodewordDomain
  BY <1>1
<1>3. ASSUME NEW i \in Nat, i < n PROVE f[i + 1] = Localized(f[i], LocalizerDegree(i))
  <2> DEFINE m == i + 1
  <2>1. m \in 0..n /\ m # 0 /\ m - 1 = i
    BY <1>3
  <2> HIDE DEF m
  <2>2. f[m] = Localized(f[i], LocalizerDegree(i))
    BY <1>1, <2>1
  <2> QED BY <2>2 DEF m
<1> QED BY <1>2, <1>3

\* There are such domains.
LEMMA LocalizesExists == \A n \in Nat : \E f : Localizes(n, f)
<1> DEFINE Q == {n \in Nat : \E f : Localizes(n, f)}
<1>1. 0 \in Q
  <2> DEFINE f == [i \in 0..0 |-> CodewordDomain]
  <2>1. ASSUME NEW i \in 0..0
        PROVE  f[i] = IF i = 0 THEN CodewordDomain
                      ELSE Localized(f[i - 1], LocalizerDegree(i - 1))
    <3>1. i = 0
      OBVIOUS
    <3> QED BY <3>1
  <2>2. f = [i \in 0..0 |-> f[i]]
    OBVIOUS
  <2> HIDE DEF f
  <2>3. Localizes(0, f)
    BY <2>1, <2>2, Zenon DEF Localizes
  <2> QED BY <2>3
<1>2. ASSUME NEW n \in Nat, n \in Q PROVE n + 1 \in Q
  <2>1. PICK f : Localizes(n, f)
    BY <1>2
  <2> DEFINE m == n + 1
             g == [i \in 0..m |-> IF i = m THEN Localized(f[n], LocalizerDegree(n)) ELSE f[i]]
  <2>2. \A i \in 0..n : f[i] = IF i = 0 THEN CodewordDomain
                               ELSE Localized(f[i - 1], LocalizerDegree(i - 1))
    BY <2>1, Zenon DEF Localizes
  <2>3. ASSUME NEW i \in 0..m
        PROVE  g[i] = IF i = 0 THEN CodewordDomain
                      ELSE Localized(g[i - 1], LocalizerDegree(i - 1))
    <3>1. CASE i = m
      <4>1. i # 0 /\ i - 1 = n /\ n \in 0..m /\ n # m
        BY <3>1
      <4>2. g[n] = f[n] /\ g[i] = Localized(f[n], LocalizerDegree(n))
        BY <3>1, <4>1
      <4> HIDE DEF g
      <4> QED BY <4>1, <4>2
    <3>2. CASE i # m /\ i # 0
      <4>1. i \in 0..n /\ i - 1 \in 0..m /\ i - 1 # m
        BY <3>2
      <4>2. g[i] = f[i] /\ g[i - 1] = f[i - 1]
        BY <3>2, <4>1
      <4>3. f[i] = Localized(f[i - 1], LocalizerDegree(i - 1))
        BY <2>2, <3>2, <4>1
      <4> HIDE DEF g
      <4> QED BY <3>2, <4>2, <4>3
    <3>3. CASE i # m /\ i = 0
      <4>1. 0 \in 0..n
        OBVIOUS
      <4>2. g[i] = f[0]
        BY <3>3
      <4> HIDE DEF g
      <4> QED BY <2>2, <3>3, <4>1, <4>2
    <3> QED BY <3>1, <3>2, <3>3
  <2>4. g = [i \in 0..m |-> g[i]]
    OBVIOUS
  <2> HIDE DEF g
  <2>5. Localizes(m, g)
    BY <2>3, <2>4, Zenon DEF Localizes
  <2>6. m \in Nat
    OBVIOUS
  <2> QED BY <2>5, <2>6
<1> HIDE DEF Q
<1>3. Nat \subseteq Q
  BY <1>1, <1>2, NatSetInduction
<1> QED BY <1>3 DEF Q

\* The domains of the reductions are domains that are cut into cosets.
LEMMA DomainsEquation ==
  /\ domains[0] = CodewordDomain
  /\ \A i \in Reductions : domains[i + 1] = Localized(domains[i], LocalizerDegree(i))
  /\ num_reductions \in Nat \ {0} /\ num_reductions \in Nat
<1> DEFINE n == num_reductions
<1>1. n \in Nat \ {0} /\ n \in Nat
  <2>1. Len(LocalizationParameters) \in Nat
    BY FriAssumption
  <2> QED BY <2>1, FriAssumption DEF num_reductions
<1>2. domains = CHOOSE f : Localizes(n, f)
  BY Zenon DEF domains, Localizes
<1>3. Localizes(n, domains)
  BY <1>1, <1>2, LocalizesExists
<1>4. domains[0] = CodewordDomain
  BY <1>1, <1>3, LocalizesStep
<1>5. ASSUME NEW i \in Reductions
      PROVE  domains[i + 1] = Localized(domains[i], LocalizerDegree(i))
  <2>1. i \in Nat /\ i < n
    BY <1>1 DEF Reductions
  <2> HIDE DEF n
  <2> QED BY <1>1, <1>3, <2>1, LocalizesStep
<1> QED BY <1>1, <1>4, <1>5

\* A localizer degree, and the cosets that it makes.
LEMMA ReductionDomain ==
  ASSUME NEW i \in Reductions, Domain(domains[i])
  PROVE  /\ CutInto(domains[i], LocalizerDegree(i))
         /\ Divisor(LocalizerDegree(i))
         /\ domains[i + 1] = Localized(domains[i], LocalizerDegree(i))
<1> DEFINE s == LocalizerDegree(i)
<1>1. s \in Nat \ {0} /\ domains[i].order % s = 0
  BY FriAssumption
<1>2. CutInto(domains[i], s)
  BY <1>1 DEF CutInto
<1> HIDE DEF s
<1>3. Divisor(s)
  BY <1>2, LocalizedDomain
<1> QED BY <1>2, <1>3, DomainsEquation DEF s

\* Every domain of the reductions.
LEMMA DomainsType == \A i \in 0..num_reductions : Domain(domains[i])
<1> DEFINE Q == {n \in Nat : n <= num_reductions => Domain(domains[n])}
<1>1. 0 \in Q
  <2>1. CodewordDomain.order \in Nat \ {0} /\ CodewordDomain.shift \in Field \ {0}
        /\ (P - 1) % CodewordDomain.order = 0
    BY FriAssumption
  <2>2. Domain(CodewordDomain)
    BY <2>1 DEF Domain, Divisor
  <2> QED BY <2>2, DomainsEquation
<1>2. ASSUME NEW n \in Nat, n \in Q PROVE n + 1 \in Q
  <2>1. SUFFICES ASSUME n + 1 <= num_reductions PROVE Domain(domains[n + 1])
    OBVIOUS
  <2>2. n \in Reductions /\ n <= num_reductions
    BY <2>1, DomainsEquation DEF Reductions
  <2>3. Domain(domains[n])
    BY <1>2, <2>2
  <2> QED BY <2>2, <2>3, ReductionDomain, LocalizedDomain
<1> HIDE DEF Q
<1>3. Nat \subseteq Q
  BY <1>1, <1>2, NatSetInduction
<1>4. ASSUME NEW i \in 0..num_reductions PROVE Domain(domains[i])
  <2>1. i \in Nat /\ i <= num_reductions
    BY DomainsEquation
  <2> QED BY <1>3, <2>1 DEF Q
<1> QED BY <1>4

-----------------------------------------------------------------------------
\* What defines the folded polynomials of interaction j up to the n-th.
Folds(c0, ch, j, n, f) ==
  f = [i \in 0..n |-> IF i = 0 THEN c0
                      ELSE FoldedCoefficients(f[i - 1], LocalizerDegree(i - 1), ch[i][j])]

FoldsTo(c0, ch, j, n) == (CHOOSE f : Folds(c0, ch, j, n, f))[n]

\* The first of the folded polynomials.
LEMMA FoldsFirst ==
  ASSUME NEW c0, NEW ch, NEW j, NEW n \in Nat, NEW f, Folds(c0, ch, j, n, f)
  PROVE  f[0] = c0
<1>1. \A i \in 0..n : f[i] = IF i = 0 THEN c0
                             ELSE FoldedCoefficients(f[i - 1], LocalizerDegree(i - 1), ch[i][j])
  BY Zenon DEF Folds
<1> QED BY <1>1

\* Steps of the foldings.
LEMMA FoldsStep ==
  ASSUME NEW c0, NEW ch, NEW j, NEW n \in Nat, NEW f, Folds(c0, ch, j, n, f)
  PROVE  /\ f[0] = c0
         /\ \A i \in Nat : i < n =>
              f[i + 1] = FoldedCoefficients(f[i], LocalizerDegree(i), ch[i + 1][j])
<1>1. \A i \in 0..n : f[i] = IF i = 0 THEN c0
                             ELSE FoldedCoefficients(f[i - 1], LocalizerDegree(i - 1), ch[i][j])
  BY Zenon DEF Folds
<1>2. f[0] = c0
  BY FoldsFirst
<1>3. ASSUME NEW i \in Nat, i < n
      PROVE  f[i + 1] = FoldedCoefficients(f[i], LocalizerDegree(i), ch[i + 1][j])
  <2> DEFINE m == i + 1
  <2>1. m \in 0..n /\ m # 0 /\ m - 1 = i
    BY <1>3
  <2> HIDE DEF m
  <2>2. f[m] = FoldedCoefficients(f[i], LocalizerDegree(i), ch[m][j])
    BY <1>1, <2>1
  <2> QED BY <2>2 DEF m
<1> QED BY <1>2, <1>3

\* There are such polynomials.
LEMMA FoldsExists ==
  ASSUME NEW c0, NEW ch, NEW j
  PROVE  \A n \in Nat : \E f : Folds(c0, ch, j, n, f)
<1> DEFINE Q == {n \in Nat : \E f : Folds(c0, ch, j, n, f)}
<1>1. 0 \in Q
  <2> DEFINE f == [i \in 0..0 |-> c0]
  <2>1. ASSUME NEW i \in 0..0
        PROVE  f[i] = IF i = 0 THEN c0
                      ELSE FoldedCoefficients(f[i - 1], LocalizerDegree(i - 1), ch[i][j])
    <3>1. i = 0
      OBVIOUS
    <3> QED BY <3>1
  <2>2. f = [i \in 0..0 |-> f[i]]
    OBVIOUS
  <2> HIDE DEF f
  <2>3. Folds(c0, ch, j, 0, f)
    BY <2>1, <2>2, Zenon DEF Folds
  <2> QED BY <2>3
<1>2. ASSUME NEW n \in Nat, n \in Q PROVE n + 1 \in Q
  <2>1. PICK f : Folds(c0, ch, j, n, f)
    BY <1>2
  <2> DEFINE m == n + 1
             g == [i \in 0..m |->
                     IF i = m THEN FoldedCoefficients(f[n], LocalizerDegree(n), ch[m][j]) ELSE f[i]]
  <2>2. \A i \in 0..n : f[i] = IF i = 0 THEN c0
                               ELSE FoldedCoefficients(f[i - 1], LocalizerDegree(i - 1), ch[i][j])
    BY <2>1, Zenon DEF Folds
  <2>3. ASSUME NEW i \in 0..m
        PROVE  g[i] = IF i = 0 THEN c0
                      ELSE FoldedCoefficients(g[i - 1], LocalizerDegree(i - 1), ch[i][j])
    <3>1. CASE i = m
      <4>1. i # 0 /\ i - 1 = n /\ n \in 0..m /\ n # m
        BY <3>1
      <4>2. g[n] = f[n] /\ g[i] = FoldedCoefficients(f[n], LocalizerDegree(n), ch[m][j])
        BY <3>1, <4>1
      <4> HIDE DEF g
      <4> QED BY <3>1, <4>1, <4>2
    <3>2. CASE i # m /\ i # 0
      <4>1. i \in 0..n /\ i - 1 \in 0..m /\ i - 1 # m
        BY <3>2
      <4>2. g[i] = f[i] /\ g[i - 1] = f[i - 1]
        BY <3>2, <4>1
      <4>3. f[i] = FoldedCoefficients(f[i - 1], LocalizerDegree(i - 1), ch[i][j])
        BY <2>2, <3>2, <4>1
      <4> HIDE DEF g
      <4> QED BY <3>2, <4>2, <4>3
    <3>3. CASE i # m /\ i = 0
      <4>1. 0 \in 0..n
        OBVIOUS
      <4>2. g[i] = f[0]
        BY <3>3
      <4> HIDE DEF g
      <4> QED BY <2>2, <3>3, <4>1, <4>2
    <3> QED BY <3>1, <3>2, <3>3
  <2>4. g = [i \in 0..m |-> g[i]]
    OBVIOUS
  <2> HIDE DEF g
  <2>5. Folds(c0, ch, j, m, g)
    BY <2>3, <2>4, Zenon DEF Folds
  <2>6. m \in Nat
    OBVIOUS
  <2> QED BY <2>5, <2>6
<1> HIDE DEF Q
<1>3. Nat \subseteq Q
  BY <1>1, <1>2, NatSetInduction
<1> QED BY <1>3 DEF Q

\* Challenges that agree give the same polynomials.
LEMMA FoldsAgree ==
  ASSUME NEW c0, NEW ch, NEW c1, NEW j, NEW n \in Nat, NEW m \in Nat, n <= m,
         NEW f, Folds(c0, ch, j, n, f), NEW g, Folds(c0, c1, j, m, g),
         \A i \in 1..n : c1[i] = ch[i]
  PROVE  f[n] = g[n]
<1> DEFINE Q == {k \in Nat : k <= n => f[k] = g[k]}
<1>1. /\ f[0] = c0
      /\ \A i \in Nat : i < n =>
           f[i + 1] = FoldedCoefficients(f[i], LocalizerDegree(i), ch[i + 1][j])
  <2>1. f[0] = c0
    BY FoldsFirst
  <2>2. \A i \in Nat : i < n =>
           f[i + 1] = FoldedCoefficients(f[i], LocalizerDegree(i), ch[i + 1][j])
    BY FoldsStep
  <2> QED BY <2>1, <2>2
<1>2. /\ g[0] = c0
      /\ \A i \in Nat : i < m =>
           g[i + 1] = FoldedCoefficients(g[i], LocalizerDegree(i), c1[i + 1][j])
  <2>1. g[0] = c0
    BY FoldsStep
  <2>2. \A i \in Nat : i < m =>
           g[i + 1] = FoldedCoefficients(g[i], LocalizerDegree(i), c1[i + 1][j])
    BY FoldsStep
  <2> QED BY <2>1, <2>2
<1>3. 0 \in Q
  BY <1>1, <1>2
<1>4. ASSUME NEW k \in Nat, k \in Q PROVE k + 1 \in Q
  <2>1. SUFFICES ASSUME k + 1 <= n PROVE f[k + 1] = g[k + 1]
    OBVIOUS
  <2>2. k < n /\ k < m /\ f[k] = g[k] /\ c1[k + 1] = ch[k + 1]
    BY <1>4, <2>1
  <2>3. f[k + 1] = FoldedCoefficients(f[k], LocalizerDegree(k), ch[k + 1][j])
    BY <2>2, <1>1
  <2>4. g[k + 1] = FoldedCoefficients(g[k], LocalizerDegree(k), c1[k + 1][j])
    BY <2>2, <1>2
  <2> QED BY <2>2, <2>3, <2>4
<1> HIDE DEF Q
<1>5. Nat \subseteq Q
  BY <1>3, <1>4, NatSetInduction
<1> QED BY <1>5 DEF Q

\* What a polynomial is, as a function that folds.
LEMMA FoldsToFolds ==
  ASSUME NEW c0, NEW ch, NEW j, NEW n \in Nat
  PROVE  \E f : Folds(c0, ch, j, n, f) /\ FoldsTo(c0, ch, j, n) = f[n]
<1> DEFINE f == CHOOSE f : Folds(c0, ch, j, n, f)
<1>1. Folds(c0, ch, j, n, f)
  BY FoldsExists
<1>2. FoldsTo(c0, ch, j, n) = f[n]
  BY DEF FoldsTo
<1> QED BY <1>1, <1>2

\* Nothing is folded at first.
LEMMA FoldsToFirst ==
  ASSUME NEW c0, NEW ch, NEW j
  PROVE  FoldsTo(c0, ch, j, 0) = c0
<1>1. PICK f : Folds(c0, ch, j, 0, f) /\ FoldsTo(c0, ch, j, 0) = f[0]
  BY FoldsToFolds
<1> QED BY <1>1, FoldsFirst

\* Each polynomial is the one before, folded.
LEMMA FoldsToNext ==
  ASSUME NEW c0, NEW ch, NEW j, NEW n \in Nat, NEW m, m = n + 1
  PROVE  FoldsTo(c0, ch, j, m)
           = FoldedCoefficients(FoldsTo(c0, ch, j, n), LocalizerDegree(n), ch[m][j])
<1>1. m \in Nat /\ n < m /\ n <= m
  OBVIOUS
<1>2. PICK f : Folds(c0, ch, j, n, f) /\ FoldsTo(c0, ch, j, n) = f[n]
  BY FoldsToFolds
<1>3. PICK g : Folds(c0, ch, j, m, g) /\ FoldsTo(c0, ch, j, m) = g[m]
  BY <1>1, FoldsToFolds
<1>4. f[n] = g[n]
  <2>1. \A i \in 1..n : ch[i] = ch[i]
    OBVIOUS
  <2> QED BY <1>1, <1>2, <1>3, <2>1, FoldsAgree
<1>5. g[n + 1] = FoldedCoefficients(g[n], LocalizerDegree(n), ch[n + 1][j])
  <2>1. \A i \in Nat : i < m =>
          g[i + 1] = FoldedCoefficients(g[i], LocalizerDegree(i), ch[i + 1][j])
    BY <1>1, <1>3, FoldsStep
  <2> QED BY <1>1, <2>1
<1> QED BY <1>2, <1>3, <1>4, <1>5

\* They do not depend on later challenges.
LEMMA FoldsToAgree ==
  ASSUME NEW c0, NEW ch, NEW c1, NEW j, NEW n \in Nat, \A i \in 1..n : c1[i] = ch[i]
  PROVE  FoldsTo(c0, c1, j, n) = FoldsTo(c0, ch, j, n)
<1>1. Folds(c0, ch, j, n, CHOOSE f : Folds(c0, ch, j, n, f))
  BY FoldsExists
<1>2. Folds(c0, c1, j, n, CHOOSE f : Folds(c0, c1, j, n, f))
  BY FoldsExists
<1> QED BY <1>1, <1>2, FoldsAgree DEF FoldsTo

-----------------------------------------------------------------------------
(***************************************************************************)
(* The inductive invariant.                                                *)
(***************************************************************************)
\* A sequence of n entries.
IsSequence(f, n) == f = [i \in 1..n |-> f[i]]

\* The challenges ch of the first n reductions of interaction j are not misread.
AllReadWell(ch, j, n) ==
  \A i \in 0..(n - 1) : WellRead(domains[i], LocalizerDegree(i), ch[i + 1][j])

\* The codewords cw are those of the polynomial c0 folded at the challenges ch.
Follows(c0, cw, ch) ==
  \A n \in 0..Len(ch), j \in Interactions :
    AllReadWell(ch, j, n) => cw[n + 1][j] = EvaluatedOver(FoldsTo(c0, ch, j, n), domains[n])

\* What the reductions keep: one codeword more than there are challenges, and all of them follow
\* the polynomial.
ReductionsInv(c0, cw, ch) ==
  /\ c0 \in Polynomials
  /\ ch \in Seq([Interactions -> Challenges])
  /\ Len(ch) <= num_reductions
  /\ IsSequence(cw, Len(ch) + 1)
  /\ \A n \in 1..(Len(ch) + 1) : IsSequence(cw[n], InteractiveRepetitions)
  /\ Follows(c0, cw, ch)

\* A sequence with an entry more.
LEMMA SequenceAppended ==
  ASSUME NEW n \in Nat, NEW f, IsSequence(f, n), NEW e
  PROVE  /\ Len(f) = n /\ Len(Append(f, e)) = n + 1
         /\ IsSequence(Append(f, e), n + 1)
         /\ Append(f, e)[n + 1] = e
         /\ \A i \in 1..n : Append(f, e)[i] = f[i]
<1> DEFINE T == {f[i] : i \in 1..n} \union {e}
           g == Append(f, e)
<1>1. f \in [1..n -> T]
  BY DEF IsSequence
<1> HIDE DEF T
<1>2. f \in Seq(T) /\ Len(f) = n /\ e \in T
  <2>1. e \in T
    BY DEF T
  <2> QED BY <1>1, <2>1, FunctionIsSeq
<1>3. /\ g \in Seq(T) /\ Len(g) = n + 1 /\ g[n + 1] = e
      /\ \A i \in 1..n : g[i] = f[i]
  BY <1>2
<1> HIDE DEF g
<1>4. g = [i \in 1..(n + 1) |-> g[i]]
  BY <1>3
<1> QED BY <1>2, <1>3, <1>4 DEF IsSequence, g

\* The entries of the challenges.
LEMMA ChallengeType ==
  ASSUME NEW ch \in Seq([Interactions -> Challenges]), NEW i \in 1..Len(ch), NEW j \in Interactions
  PROVE  ch[i][j] \in Field
<1>1. ch[i] \in [Interactions -> Challenges]
  BY SequenceType
<1>2. ch[i][j] \in Challenges
  BY <1>1
<1> QED BY <1>2, FriAssumption

\* The folded polynomials have at most as many coefficients as the domain has elements.
LEMMA FoldsToType ==
  ASSUME NEW c0 \in Polynomials, NEW ch \in Seq([Interactions -> Challenges]),
         Len(ch) <= num_reductions, NEW j \in Interactions
  PROVE  \A n \in 0..Len(ch) : /\ Polynomial(FoldsTo(c0, ch, j, n), domains[n].order)
                               /\ Polynomial(FoldsTo(c0, ch, j, n), P)
<1> DEFINE F(n) == FoldsTo(c0, ch, j, n)
           Good(n) == Polynomial(F(n), domains[n].order) /\ Polynomial(F(n), P)
           Q == {n \in Nat : n <= Len(ch) => Good(n)}
<1>1. Len(ch) \in Nat /\ num_reductions \in Nat /\ P \in Nat
  BY SequenceType, DomainsEquation, FieldPrime
<1>2. ASSUME NEW n \in 0..num_reductions, NEW c, Polynomial(c, domains[n].order)
      PROVE  Polynomial(c, P)
  <2>1. Divisor(domains[n].order)
    BY DomainsType DEF Domain
  <2>2. domains[n].order < P /\ domains[n].order \in Nat
    BY <2>1, DivisorQuotient
  <2>3. Len(c) \in Nat
    BY SequenceType DEF Polynomial
  <2> QED BY <1>1, <1>2, <2>2, <2>3 DEF Polynomial
<1>3. 0 \in Q
  <2>1. F(0) = c0
    BY FoldsToFirst
  <2>2. Polynomial(c0, CodewordDomain.order)
    BY FriAssumption DEF Polynomial
  <2>3. Polynomial(F(0), domains[0].order)
    BY <2>1, <2>2, DomainsEquation
  <2>4. 0 \in 0..num_reductions
    BY <1>1
  <2> HIDE DEF F
  <2> QED BY <1>2, <2>3, <2>4
<1>4. ASSUME NEW n \in Nat, n \in Q PROVE n + 1 \in Q
  <2>1. SUFFICES ASSUME n + 1 <= Len(ch) PROVE Good(n + 1)
    OBVIOUS
  <2> DEFINE d == domains[n]
             s == LocalizerDegree(n)
             x == ch[n + 1][j]
             c == F(n)
             m == n + 1
  <2>2. n \in Reductions /\ n \in 0..num_reductions /\ m \in 0..num_reductions /\ n <= Len(ch)
        /\ m \in 1..Len(ch)
    BY <1>1, <2>1 DEF Reductions
  <2>3. Polynomial(c, d.order) /\ Polynomial(c, P)
    BY <1>4, <2>2
  <2>4. CutInto(d, s) /\ Divisor(s) /\ domains[m] = Localized(d, s)
    BY <2>2, DomainsType, ReductionDomain
  <2>5. x \in Field
    <3>1. ch[m][j] \in Field
      BY <2>2, ChallengeType
    <3> QED BY <3>1
  <2>6. F(m) = FoldedCoefficients(c, s, x)
    <3>1. m = n + 1 /\ x = ch[m][j] /\ c = F(n)
      OBVIOUS
    <3> HIDE DEF m, x
    <3> QED BY <3>1, FoldsToNext
  <2> HIDE DEF c, x, d, s, F
  <2>7. /\ d.order = s * NumCosets(d, s) /\ NumCosets(d, s) \in Nat
        /\ Localized(d, s).order = NumCosets(d, s)
    BY <2>4, LocalizedDomain
  <2>8. Len(c) <= s * NumCosets(d, s)
    BY <2>3, <2>7 DEF Polynomial
  <2>9. Polynomial(F(m), P)
    BY <2>3, <2>4, <2>5, <2>6, FoldedLength
  <2>10. Len(F(m)) <= NumCosets(d, s)
    BY <2>3, <2>4, <2>5, <2>6, <2>7, <2>8, FoldedLength
  <2>11. Polynomial(F(m), domains[m].order)
    BY <2>4, <2>7, <2>9, <2>10 DEF Polynomial
  <2> QED BY <2>9, <2>11 DEF F
<1> HIDE DEF Q
<1>5. Nat \subseteq Q
  BY <1>3, <1>4, NatSetInduction
<1>6. ASSUME NEW n \in 0..Len(ch) PROVE Good(n)
  <2>1. n \in Nat /\ n <= Len(ch)
    BY <1>1
  <2> QED BY <1>5, <2>1 DEF Q
<1> QED BY <1>6

\* The first codewords.
LEMMA ReductionsStart ==
  ASSUME NEW c0 \in Polynomials,
         NEW cw, cw = <<[j \in Interactions |-> EvaluatedOver(c0, CodewordDomain)]>>
  PROVE  ReductionsInv(c0, cw, << >>)
<1> DEFINE ch == << >>
<1>1. ch \in Seq([Interactions -> Challenges]) /\ Len(ch) = 0
  OBVIOUS
<1>2. Len(ch) <= num_reductions
  BY <1>1, DomainsEquation
<1>3. cw = [i \in 1..1 |-> cw[i]] /\ cw[1] = [j \in Interactions |-> EvaluatedOver(c0, CodewordDomain)]
  OBVIOUS
<1> HIDE DEF ch
<1>4. IsSequence(cw, Len(ch) + 1)
  <2>1. Len(ch) + 1 = 1
    BY <1>1
  <2> QED BY <1>3, <2>1 DEF IsSequence
<1>5. ASSUME NEW n \in 1..(Len(ch) + 1) PROVE IsSequence(cw[n], InteractiveRepetitions)
  <2>1. n = 1
    BY <1>1
  <2>2. cw[1] = [j \in Interactions |-> cw[1][j]]
    BY <1>3
  <2> QED BY <2>1, <2>2 DEF IsSequence, Interactions
<1>6. ASSUME NEW n \in 0..Len(ch), NEW j \in Interactions
      PROVE  cw[n + 1][j] = EvaluatedOver(FoldsTo(c0, ch, j, n), domains[n])
  <2>1. n = 0 /\ n + 1 = 1
    BY <1>1
  <2>2. cw[1][j] = EvaluatedOver(c0, CodewordDomain)
    BY <1>3
  <2>3. FoldsTo(c0, ch, j, 0) = c0
    BY FoldsToFirst
  <2> QED BY <2>1, <2>2, <2>3, DomainsEquation
<1>7. Follows(c0, cw, ch)
  BY <1>6 DEF Follows
<1> QED BY <1>1, <1>2, <1>4, <1>5, <1>7 DEF ReductionsInv, ch

\* A reduction keeps the invariant.
LEMMA ReductionsKeep ==
  ASSUME NEW c0, NEW cw, NEW ch, ReductionsInv(c0, cw, ch), NEW i, i = Len(ch), i < num_reductions,
         NEW xs \in [Interactions -> Challenges],
         NEW next, next = [j \in Interactions |->
                             NextCodeword(cw[i + 1][j], domains[i], LocalizerDegree(i), xs[j])]
  PROVE  ReductionsInv(c0, Append(cw, next), Append(ch, xs))
<1> DEFINE w == Append(cw, next)
           h == Append(ch, xs)
           s == LocalizerDegree(i)
           d == domains[i]
<1>1. c0 \in Polynomials /\ ch \in Seq([Interactions -> Challenges]) /\ i \in Nat
      /\ i <= num_reductions /\ num_reductions \in Nat
  BY SequenceType, DomainsEquation DEF ReductionsInv
<1>2. h \in Seq([Interactions -> Challenges]) /\ Len(h) = i + 1 /\ h[i + 1] = xs
      /\ \A n \in 1..i : h[n] = ch[n]
  BY <1>1, AppendType
<1>3. /\ IsSequence(w, i + 2)
      /\ w[i + 2] = next
      /\ \A n \in 1..(i + 1) : w[n] = cw[n]
  <2> DEFINE m == i + 1
  <2>1. m \in Nat /\ m + 1 = i + 2
    BY <1>1
  <2>2. IsSequence(cw, m)
    BY DEF ReductionsInv
  <2> HIDE DEF m
  <2>3. /\ IsSequence(w, m + 1) /\ w[m + 1] = next
        /\ \A n \in 1..m : w[n] = cw[n]
    BY <2>1, <2>2, SequenceAppended
  <2> QED BY <2>1, <2>3 DEF m
<1>4. next = [j \in Interactions |-> next[j]]
  OBVIOUS
<1> HIDE DEF w, h
<1>5. ASSUME NEW n \in 1..(i + 2) PROVE IsSequence(w[n], InteractiveRepetitions)
  <2>1. CASE n \in 1..(i + 1)
    <3>1. w[n] = cw[n] /\ IsSequence(cw[n], InteractiveRepetitions)
      BY <1>3, <2>1 DEF ReductionsInv
    <3> QED BY <3>1
  <2>2. CASE n = i + 2
    BY <1>3, <1>4, <2>2 DEF IsSequence, Interactions
  <2> QED BY <1>1, <2>1, <2>2
<1>6. ASSUME NEW n \in 0..(i + 1), NEW j \in Interactions, AllReadWell(h, j, n)
      PROVE  w[n + 1][j] = EvaluatedOver(FoldsTo(c0, h, j, n), domains[n])
  <2>1. CASE n \in 0..i
    <3>1. \A k \in 1..n : h[k] = ch[k]
      BY <1>1, <1>2, <2>1
    <3>2. n \in Nat /\ n + 1 \in 1..(i + 1)
      BY <1>1, <2>1
    <3>3. FoldsTo(c0, h, j, n) = FoldsTo(c0, ch, j, n)
      BY <3>1, <3>2, FoldsToAgree
    <3>4. AllReadWell(ch, j, n)
      <4>1. ASSUME NEW k \in 0..(n - 1) PROVE h[k + 1] = ch[k + 1]
        BY <3>1, <3>2
      <4> QED BY <1>6, <4>1 DEF AllReadWell
    <3>5. cw[n + 1][j] = EvaluatedOver(FoldsTo(c0, ch, j, n), domains[n])
      BY <2>1, <3>4 DEF ReductionsInv, Follows
    <3> QED BY <1>3, <3>2, <3>3, <3>5
  <2>2. CASE n = i + 1
    <3> DEFINE c == FoldsTo(c0, ch, j, i)
               x == xs[j]
    <3>1. x \in Field
      <4>1. xs[j] \in Challenges
        OBVIOUS
      <4> QED BY <4>1, FriAssumption
    <3>2. AllReadWell(ch, j, i) /\ WellRead(d, s, x)
      <4>1. ASSUME NEW k \in 0..(i - 1) PROVE WellRead(domains[k], LocalizerDegree(k), ch[k + 1][j])
        <5>1. k \in 0..(n - 1) /\ k + 1 \in 1..i
          BY <1>1, <2>2
        <5>2. h[k + 1] = ch[k + 1]
          BY <1>2, <5>1
        <5> QED BY <1>6, <5>1, <5>2 DEF AllReadWell
      <4>2. i \in 0..(n - 1)
        BY <1>1, <2>2
      <4>3. WellRead(d, s, h[i + 1][j])
        BY <1>6, <4>2 DEF AllReadWell
      <4> QED BY <1>2, <4>1, <4>3 DEF AllReadWell
    <3>3. cw[i + 1][j] = EvaluatedOver(c, d)
      <4>1. i \in 0..Len(ch)
        BY <1>1
      <4> QED BY <3>2, <4>1 DEF ReductionsInv, Follows
    <3>4. i \in Reductions /\ i \in 0..num_reductions /\ i \in 0..Len(ch)
      BY <1>1 DEF Reductions
    <3>5. CutInto(d, s) /\ domains[i + 1] = Localized(d, s)
      BY <3>4, DomainsType, ReductionDomain
    <3>6. Polynomial(c, P)
      BY <1>1, <3>4, FoldsToType
    <3>7. FoldsTo(c0, h, j, i + 1) = FoldedCoefficients(c, s, x)
      <4>1. FoldsTo(c0, h, j, i + 1) = FoldedCoefficients(FoldsTo(c0, h, j, i), s, h[i + 1][j])
        <5> DEFINE m == i + 1
        <5>1. m = i + 1 /\ i \in Nat
          BY <1>1
        <5> HIDE DEF m, c, x, h
        <5>2. FoldsTo(c0, h, j, m)
                = FoldedCoefficients(FoldsTo(c0, h, j, i), LocalizerDegree(i), h[m][j])
          BY <5>1, FoldsToNext, SMTT(25)
        <5> QED BY <5>2 DEF m
      <4>2. FoldsTo(c0, h, j, i) = c
        BY <1>1, <1>2, FoldsToAgree
      <4> QED BY <1>2, <4>1, <4>2
    <3> HIDE DEF c, x, d, s
    <3>8. NextCodeword(EvaluatedOver(c, d), d, s, x)
            = EvaluatedOver(FoldedCoefficients(c, s, x), Localized(d, s))
      BY <3>1, <3>2, <3>5, <3>6, NextCodewordValue
    <3>9. next[j] = NextCodeword(cw[i + 1][j], d, s, x)
      BY DEF d, s, x
    <3>10. w[n + 1] = next
      <4>1. n + 1 = i + 2
        BY <1>1, <2>2
      <4> QED BY <4>1, <1>3
    <3> QED BY <2>2, <3>3, <3>5, <3>7, <3>8, <3>9, <3>10
  <2> QED BY <1>1, <2>1, <2>2
<1>7. Len(h) + 1 = i + 2 /\ Len(h) <= num_reductions
  BY <1>1, <1>2
<1>8. Follows(c0, w, h)
  BY <1>2, <1>6 DEF Follows
<1>9. ReductionsInv(c0, w, h)
  BY <1>1, <1>2, <1>3, <1>5, <1>7, <1>8 DEF ReductionsInv
<1> QED BY <1>9 DEF w, h

\* The invariant of the prover's loop.
FriInv == ReductionsInv(coefficients, codewords, challenges)

\* The two ways to say that a challenge is read well.
LEMMA ReadWellMeans ==
  ASSUME NEW j, NEW n
  PROVE  ReadWell(j, n) <=> AllReadWell(challenges, j, n)
BY DEF ReadWell, AllReadWell, Misread, WellRead

\* The two ways to say what is folded.
LEMMA PolynomialMeans ==
  ASSUME NEW j, NEW n
  PROVE  PolynomialOf(j, n) = FoldsTo(coefficients, challenges, j, n)
BY Zenon DEF PolynomialOf, FoldsTo, Folds

\* The invariant of the prover's loop, from the start.
LEMMA InitFollows == Init => FriInv
<1> SUFFICES ASSUME Init PROVE FriInv
  OBVIOUS
<1> DEFINE cw == codewords
           ch == challenges
           c0 == coefficients
<1>1. c0 \in Polynomials /\ ch = << >>
      /\ cw = <<[j \in Interactions |-> EvaluatedOver(c0, CodewordDomain)]>>
  BY DEF Init
<1> HIDE DEF cw, ch, c0
<1>2. ReductionsInv(c0, cw, << >>)
  BY <1>1, ReductionsStart
<1> QED BY <1>1, <1>2 DEF FriInv, cw, ch, c0

\* And through every step.
LEMMA NextFollows == FriInv /\ [Next]_vars => FriInv'
<1> SUFFICES ASSUME FriInv, [Next]_vars PROVE FriInv'
  OBVIOUS
<1>1. CASE Reduce
  <2> DEFINE cw == codewords
             ch == challenges
             c0 == coefficients
             i == Len(ch)
  <2>1. PICK xs \in [Interactions -> Challenges] :
          /\ challenges' = Append(ch, xs)
          /\ codewords' = Append(cw,
               [j \in Interactions |->
                  NextCodeword(cw[i + 1][j], domains[i], LocalizerDegree(i), xs[j])])
    BY <1>1 DEF Reduce
  <2>2. i < num_reductions /\ coefficients' = c0 /\ ReductionsInv(c0, cw, ch)
    BY <1>1 DEF Reduce, FriInv
  <2> DEFINE next == [j \in Interactions |->
                        NextCodeword(cw[i + 1][j], domains[i], LocalizerDegree(i), xs[j])]
  <2>3. next = [j \in Interactions |->
                  NextCodeword(cw[i + 1][j], domains[i], LocalizerDegree(i), xs[j])]
        /\ i = Len(ch) /\ codewords' = Append(cw, next)
    BY <2>1
  <2> HIDE DEF next, cw, ch, c0, i
  <2>4. ReductionsInv(c0, Append(cw, next), Append(ch, xs))
    BY <2>2, <2>3, ReductionsKeep
  <2> QED BY <2>1, <2>2, <2>3, <2>4 DEF FriInv
<1>2. CASE SendFinalPolynomials \/ SealVerifier \/ VerifierPredicate \/ UNCHANGED vars
  <2>1. coefficients' = coefficients /\ codewords' = codewords /\ challenges' = challenges
    BY <1>2 DEF SendFinalPolynomials, SealVerifier, VerifierPredicate, vars
  <2> QED BY <2>1 DEF FriInv
<1> QED BY <1>1, <1>2 DEF Next

\* What the invariant says in the words of the property.
LEMMA InvariantFollows == FriInv => CodewordsFollowThePolynomial
<1> SUFFICES ASSUME FriInv, NEW n \in 0..(Len(codewords) - 1), NEW j \in Interactions,
                    ReadWell(j, n)
             PROVE  codewords[n + 1][j] = EvaluatedOver(PolynomialOf(j, n), domains[n])
  BY DEF CodewordsFollowThePolynomial
<1> DEFINE k == Len(challenges)
<1>1. k \in Nat /\ IsSequence(codewords, k + 1) /\ Follows(coefficients, codewords, challenges)
  BY SequenceType DEF FriInv, ReductionsInv
<1>2. Len(codewords) = k + 1
  <2> DEFINE m == k + 1
  <2>1. m \in Nat /\ IsSequence(codewords, m)
    BY <1>1
  <2> HIDE DEF m
  <2>2. Len(codewords) = m
    BY <2>1, SequenceAppended
  <2> QED BY <2>2 DEF m
<1>3. n \in 0..Len(challenges)
  <2> HIDE DEF k
  <2>1. n \in 0..k
    BY <1>1, <1>2
  <2> QED BY <2>1 DEF k
<1>4. AllReadWell(challenges, j, n)
  BY ReadWellMeans
<1>5. codewords[n + 1][j] = EvaluatedOver(FoldsTo(coefficients, challenges, j, n), domains[n])
  BY <1>1, <1>3, <1>4 DEF Follows
<1> QED BY <1>5, PolynomialMeans

\* The invariant holds in every run.
THEOREM FriInvariant == Spec => []FriInv
<1> QED BY InitFollows, NextFollows, PTL DEF Spec

\* Every codeword that evaluate_next_f_i_over_entire_domain makes, out of values only and one coset
\* at a time, has the values of the polynomial that the tested oracle holds, folded at the
\* challenges (fri_iop.tcc), in every reduction and interaction, for every prime field, domain,
\* localization and choice of the challenges in no coset but the last.
THEOREM CodewordsFollow == Spec => []CodewordsFollowThePolynomial
<1> QED BY FriInvariant, InvariantFollows, PTL

-----------------------------------------------------------------------------
(***************************************************************************)
(* The path of a query.                                                    *)
(***************************************************************************)
\* A remainder by a product, and then by a factor.
LEMMA ModOfMod ==
  ASSUME NEW a \in Nat, NEW s \in Nat \ {0}, NEW M \in Nat \ {0}, NEW n, n = s ** M
  PROVE  (a % n) % M = a % M
<1> DEFINE q == a \div n
           r == a % n
           u == r \div M
           t == r % M
<1>1. n = s * M
  BY DEF **
<1>2. n \in Nat \ {0} /\ s \in Nat /\ M \in Nat
  BY <1>1
<1>3. q \in Nat /\ r \in Nat /\ a = (n * q) + r
  BY <1>2, DivisionType
<1> HIDE DEF q, r
<1>4. u \in Nat /\ t \in 0..(M - 1) /\ r = (M * u) + t
  BY <1>3, DivisionType
<1> HIDE DEF u, t
<1> DEFINE b == (s * q) + u
<1>5. b \in Nat /\ s * q \in Nat
  BY <1>2, <1>3, <1>4
<1>6. n * q = M * (s * q)
  BY <1>1, <1>2, <1>3
<1>7. M * b = (M * (s * q)) + (M * u)
  BY <1>2, <1>3, <1>4, <1>5
<1>8. M * b \in Nat /\ M * u \in Nat /\ M * (s * q) \in Nat
  BY <1>2, <1>4, <1>5
<1>9. a = (M * b) + t
  BY <1>3, <1>4, <1>6, <1>7, <1>8
<1> HIDE DEF b
<1>10. ((M * b) + t) % M = t
  BY <1>2, <1>4, <1>5, ModUnique
<1> QED BY <1>9, <1>10 DEF t, r

\* The orders of two domains that follow each other.
LEMMA ReductionOrders ==
  ASSUME NEW i \in Reductions
  PROVE  /\ i \in 0..num_reductions /\ i + 1 \in 0..num_reductions /\ i \in Nat
         /\ CutInto(domains[i], LocalizerDegree(i)) /\ Divisor(LocalizerDegree(i))
         /\ domains[i + 1] = Localized(domains[i], LocalizerDegree(i))
         /\ domains[i].order = LocalizerDegree(i) * domains[i + 1].order
         /\ domains[i + 1].order = NumCosets(domains[i], LocalizerDegree(i))
         /\ domains[i + 1].order \in Nat \ {0} /\ LocalizerDegree(i) \in Nat \ {0}
<1>1. i \in 0..num_reductions /\ i + 1 \in 0..num_reductions /\ i \in Nat
  BY DomainsEquation DEF Reductions
<1>2. Domain(domains[i])
  BY <1>1, DomainsType
<1> DEFINE d == domains[i]
           e == domains[i + 1]
           s == LocalizerDegree(i)
<1>3. CutInto(d, s) /\ Divisor(s) /\ e = Localized(d, s)
  BY <1>2, ReductionDomain
<1> HIDE DEF d, e, s
<1>4. /\ Localized(d, s).order = NumCosets(d, s) /\ NumCosets(d, s) \in Nat \ {0}
      /\ d.order = s * NumCosets(d, s)
  BY <1>3, LocalizedDomain
<1>5. s \in Nat \ {0}
  BY <1>3 DEF CutInto
<1> QED BY <1>1, <1>3, <1>4, <1>5 DEF d, e, s

\* What defines the positions that a query goes through.
SiPath(s0, f) ==
  f = [i \in 0..num_reductions |->
         IF i = 0 THEN s0 ELSE CosetIndex(domains[i - 1], f[i - 1], LocalizerDegree(i - 1))]

\* They are the remainders of the first by the orders of the domains.
LEMMA SiValue ==
  ASSUME NEW s0 \in 0..(CodewordDomain.order - 1)
  PROVE  /\ SiPath(s0, SiIndex(s0))
         /\ \A i \in 0..num_reductions :
              /\ SiIndex(s0)[i] = s0 % domains[i].order
              /\ SiIndex(s0)[i] \in 0..(domains[i].order - 1)
<1> DEFINE n == num_reductions
           E == [i \in 0..n |-> s0 % domains[i].order]
           si == SiIndex(s0)
<1>1. n \in Nat /\ 0 \in 0..n /\ s0 \in Nat
  BY DomainsEquation, FriAssumption
<1>2. E[0] = s0
  <2>1. domains[0].order \in Nat /\ s0 < domains[0].order
    BY DomainsEquation, FriAssumption
  <2>2. s0 % domains[0].order = s0
    BY <1>1, <2>1, ModSmall
  <2> QED BY <1>1, <2>2
<1>3. ASSUME NEW k \in Nat, NEW m \in 0..n, m = k + 1
      PROVE  k \in 0..n /\ k = m - 1 /\ E[m] = CosetIndex(domains[k], E[k], LocalizerDegree(k))
  <2>1. k \in Reductions /\ k \in 0..n /\ k = m - 1
    BY <1>1, <1>3 DEF Reductions
  <2> DEFINE d == domains[k]
             e == domains[m]
             s == LocalizerDegree(k)
  <2>2. /\ d.order = s * e.order /\ e.order = NumCosets(d, s)
        /\ e.order \in Nat \ {0} /\ s \in Nat \ {0}
    BY <1>3, <2>1, ReductionOrders
  <2>3. E[k] = s0 % d.order /\ E[m] = s0 % e.order
    BY <2>1
  <2> HIDE DEF d, e, s, E
  <2>4. (s0 % d.order) % e.order = s0 % e.order
    <3> DEFINE M == e.order
               N == d.order
    <3>1. M \in Nat \ {0} /\ N = s ** M
      BY <2>2 DEF **
    <3> HIDE DEF M, N
    <3>2. (s0 % N) % M = s0 % M
      BY <1>1, <2>2, <3>1, ModOfMod
    <3> QED BY <3>2 DEF M, N
  <2>5. CosetIndex(d, E[k], s) = E[k] % e.order
    BY <2>2 DEF CosetIndex
  <2> QED BY <2>1, <2>3, <2>4, <2>5 DEF d, s
<1> HIDE DEF E
<1>4. SiPath(s0, E)
  <2>1. ASSUME NEW i \in 0..n
        PROVE  E[i] = IF i = 0 THEN s0
                      ELSE CosetIndex(domains[i - 1], E[i - 1], LocalizerDegree(i - 1))
    <3>1. CASE i = 0
      BY <1>2, <3>1
    <3>2. CASE i # 0
      <4> DEFINE k == i - 1
      <4>1. k \in Nat /\ i = k + 1
        BY <1>1, <3>2
      <4> HIDE DEF k
      <4>2. k = i - 1 /\ E[i] = CosetIndex(domains[k], E[k], LocalizerDegree(k))
        BY <1>3, <4>1
      <4> QED BY <3>2, <4>2
    <3> QED BY <3>1, <3>2
  <2>2. E = [i \in 0..n |-> E[i]]
    BY DEF E
  <2> QED BY <2>1, <2>2, Zenon DEF SiPath
<1>5. si = CHOOSE f : SiPath(s0, f)
  BY Zenon DEF SiIndex, SiPath
<1> HIDE DEF si
<1>6. SiPath(s0, si)
  BY <1>4, <1>5
<1>7. \A i \in 0..n : si[i] = IF i = 0 THEN s0
                              ELSE CosetIndex(domains[i - 1], si[i - 1], LocalizerDegree(i - 1))
  BY <1>6, Zenon DEF SiPath
<1> DEFINE Q == {k \in Nat : k \in 0..n => si[k] = E[k]}
<1>8. 0 \in Q
  BY <1>1, <1>2, <1>7
<1>9. ASSUME NEW k \in Nat, k \in Q PROVE k + 1 \in Q
  <2> DEFINE m == k + 1
  <2>1. m \in Nat /\ m = k + 1 /\ m # 0
    OBVIOUS
  <2> HIDE DEF m
  <2>2. SUFFICES ASSUME m \in 0..n PROVE si[m] = E[m]
    BY <2>1
  <2>3. k \in 0..n /\ k = m - 1 /\ E[m] = CosetIndex(domains[k], E[k], LocalizerDegree(k))
    BY <1>3, <2>1, <2>2
  <2>4. si[m] = CosetIndex(domains[k], si[k], LocalizerDegree(k))
    BY <1>7, <2>1, <2>2, <2>3
  <2>5. si[k] = E[k]
    BY <1>9, <2>3
  <2> QED BY <2>3, <2>4, <2>5
<1> HIDE DEF Q
<1>10. Nat \subseteq Q
  BY <1>8, <1>9, NatSetInduction
<1>11. ASSUME NEW i \in 0..n
       PROVE  si[i] = s0 % domains[i].order /\ si[i] \in 0..(domains[i].order - 1)
  <2> DEFINE N == domains[i].order
  <2>1. i \in Nat
    BY <1>1
  <2>2. si[i] = s0 % N
    BY <1>10, <2>1 DEF Q, E
  <2>3. N \in Nat \ {0}
    BY DomainsType DEF Domain, Divisor
  <2> HIDE DEF N
  <2>4. s0 % N \in 0..(N - 1)
    BY <1>1, <2>3, DivisionType
  <2> QED BY <2>2, <2>4 DEF N
<1> QED BY <1>6, <1>11 DEF si

\* Each is the index of the coset of the one before.
LEMMA SiNext ==
  ASSUME NEW s0 \in 0..(CodewordDomain.order - 1)
  PROVE  /\ SiIndex(s0)[0] = s0
         /\ \A i \in Reductions :
              SiIndex(s0)[i + 1] = CosetIndex(domains[i], SiIndex(s0)[i], LocalizerDegree(i))
<1> DEFINE n == num_reductions
           si == SiIndex(s0)
<1>1. SiPath(s0, si)
  BY SiValue
<1>2. n \in Nat
  BY DomainsEquation
<1> HIDE DEF si
<1>3. \A i \in 0..n : si[i] = IF i = 0 THEN s0
                              ELSE CosetIndex(domains[i - 1], si[i - 1], LocalizerDegree(i - 1))
  BY <1>1, Zenon DEF SiPath
<1>4. si[0] = s0
  BY <1>2, <1>3
<1>5. ASSUME NEW i \in Reductions
      PROVE  si[i + 1] = CosetIndex(domains[i], si[i], LocalizerDegree(i))
  <2> DEFINE m == i + 1
  <2>1. m \in 0..n /\ m # 0 /\ m - 1 = i
    BY <1>2 DEF Reductions
  <2> HIDE DEF m
  <2>2. si[m] = CosetIndex(domains[i], si[i], LocalizerDegree(i))
    BY <1>3, <2>1
  <2> QED BY <2>2 DEF m
<1> QED BY <1>4, <1>5 DEF si

\* What defines the elements that a query goes through.
ElementPath(s0, f) ==
  f = [i \in 0..num_reductions |->
         IF i = 0 THEN ElementByIndex(CodewordDomain, s0) ELSE Power[f[i - 1]][LocalizerDegree(i - 1)]]

\* The last of them is the element of the last domain at the last position.
LEMMA LastElementValue ==
  ASSUME NEW s0 \in 0..(CodewordDomain.order - 1)
  PROVE  LastElement(s0) = ElementByIndex(domains[num_reductions], SiIndex(s0)[num_reductions])
<1> DEFINE n == num_reductions
           si == SiIndex(s0)
           E == [i \in 0..n |-> ElementByIndex(domains[i], si[i])]
           h == CHOOSE f : ElementPath(s0, f)
<1>1. n \in Nat /\ 0 \in 0..n /\ n \in 0..n
  BY DomainsEquation
<1>2. E[0] = ElementByIndex(CodewordDomain, s0)
  BY <1>1, SiNext, DomainsEquation
<1>3. ASSUME NEW k \in Nat, NEW m \in 0..n, m = k + 1
      PROVE  k \in 0..n /\ k = m - 1 /\ E[m] = Power[E[k]][LocalizerDegree(k)]
  <2>1. k \in Reductions /\ k \in 0..n /\ k = m - 1
    BY <1>1, <1>3 DEF Reductions
  <2> DEFINE d == domains[k]
             s == LocalizerDegree(k)
             a == ElementByIndex(d, si[k])
  <2>2. CutInto(d, s) /\ Divisor(s) /\ domains[m] = Localized(d, s)
    BY <1>3, <2>1, ReductionOrders
  <2>3. si[m] = CosetIndex(d, si[k], s)
    BY <1>3, <2>1, SiNext
  <2>4. si[k] \in 0..(d.order - 1)
    BY <2>1, SiValue
  <2>5. E[k] = a /\ E[m] = ElementByIndex(domains[m], si[m])
    BY <2>1
  <2> HIDE DEF d, s, E, si
  <2>6. ElementByIndex(Localized(d, s), CosetIndex(d, si[k], s)) = Res(P, Pow(a)[s])
    BY <2>2, <2>4, ElementLocalized
  <2>7. a \in Field
    <3>1. Domain(d)
      BY <2>2 DEF CutInto
    <3> QED BY <2>4, <3>1, ElementValue
  <2>8. s \in 0..P
    BY <2>2, DivisorQuotient
  <2> HIDE DEF a
  <2>9. Power[a][s] = Res(P, Pow(a)[s])
    BY <2>7, <2>8, PowerValue
  <2> QED BY <2>1, <2>2, <2>3, <2>5, <2>6, <2>9 DEF s
<1> HIDE DEF E
<1>4. ElementPath(s0, E)
  <2>1. ASSUME NEW i \in 0..n
        PROVE  E[i] = IF i = 0 THEN ElementByIndex(CodewordDomain, s0)
                      ELSE Power[E[i - 1]][LocalizerDegree(i - 1)]
    <3>1. CASE i = 0
      BY <1>2, <3>1
    <3>2. CASE i # 0
      <4> DEFINE k == i - 1
      <4>1. k \in Nat /\ i = k + 1
        BY <1>1, <3>2
      <4> HIDE DEF k
      <4>2. k = i - 1 /\ E[i] = Power[E[k]][LocalizerDegree(k)]
        BY <1>3, <4>1
      <4> QED BY <3>2, <4>2
    <3> QED BY <3>1, <3>2
  <2>2. E = [i \in 0..n |-> E[i]]
    BY DEF E
  <2> QED BY <2>1, <2>2, Zenon DEF ElementPath
<1>5. LastElement(s0) = h[n]
  BY Zenon DEF LastElement, ElementPath
<1>6. ElementPath(s0, h)
  BY <1>4
<1> HIDE DEF h
<1>7. \A i \in 0..n : h[i] = IF i = 0 THEN ElementByIndex(CodewordDomain, s0)
                             ELSE Power[h[i - 1]][LocalizerDegree(i - 1)]
  BY <1>6, Zenon DEF ElementPath
<1> DEFINE Q == {k \in Nat : k \in 0..n => h[k] = E[k]}
<1>8. 0 \in Q
  BY <1>1, <1>2, <1>7
<1>9. ASSUME NEW k \in Nat, k \in Q PROVE k + 1 \in Q
  <2> DEFINE m == k + 1
  <2>1. m \in Nat /\ m = k + 1 /\ m # 0
    OBVIOUS
  <2> HIDE DEF m
  <2>2. SUFFICES ASSUME m \in 0..n PROVE h[m] = E[m]
    BY <2>1
  <2>3. k \in 0..n /\ k = m - 1 /\ E[m] = Power[E[k]][LocalizerDegree(k)]
    BY <1>3, <2>1, <2>2
  <2>4. h[m] = Power[h[k]][LocalizerDegree(k)]
    BY <1>7, <2>1, <2>2, <2>3
  <2>5. h[k] = E[k]
    BY <1>9, <2>3
  <2> QED BY <2>3, <2>4, <2>5
<1> HIDE DEF Q
<1>10. Nat \subseteq Q
  BY <1>8, <1>9, NatSetInduction
<1>11. h[n] = E[n]
  BY <1>1, <1>10 DEF Q
<1> QED BY <1>1, <1>5, <1>11 DEF E

\* The positions of a coset of a reduction.
CosetPositions(i, j) ==
  [k \in 0..(LocalizerDegree(i) - 1) |->
     PositionByCosetIndices(domains[i], j, k, LocalizerDegree(i))]

\* What defines the positions that go with a query.
PositionPath(s0, f) ==
  f = [i \in Reductions |->
         IF i = 0
         THEN [k \in 0..(LocalizerDegree(0) - 1) |->
                 PositionByCosetIndices(domains[0], CosetIndex(domains[0], s0, LocalizerDegree(0)), k,
                                        LocalizerDegree(0))]
         ELSE NextQueryPositions(i, f[i - 1][0])]

\* Those of a reduction are the coset with the index that the query comes to.
LEMMA QueryPositionsValue ==
  ASSUME NEW s0 \in 0..(CodewordDomain.order - 1)
  PROVE  \A i \in Reductions : QueryPositions(s0)[i] = CosetPositions(i, SiIndex(s0)[i + 1])
<1> DEFINE n == num_reductions
           si == SiIndex(s0)
           E == [i \in Reductions |-> CosetPositions(i, si[i + 1])]
           h == QueryPositions(s0)
<1>1. n \in Nat \ {0} /\ n \in Nat /\ 0 \in Reductions /\ Reductions = 0..(n - 1)
  BY DomainsEquation DEF Reductions
<1>2. ASSUME NEW i \in Reductions
      PROVE si[i + 1] = CosetIndex(domains[i], si[i], LocalizerDegree(i))
  BY SiNext
<1>3. E[0] = [k \in 0..(LocalizerDegree(0) - 1) |->
                PositionByCosetIndices(domains[0], CosetIndex(domains[0], s0, LocalizerDegree(0)), k,
                                       LocalizerDegree(0))]
  <2>1. si[0] = s0
    BY SiNext
  <2> HIDE DEF si
  <2>2. si[0 + 1] = CosetIndex(domains[0], s0, LocalizerDegree(0))
    BY <1>1, <1>2, <2>1
  <2>3. E[0] = CosetPositions(0, si[0 + 1])
    BY <1>1
  <2> HIDE DEF E
  <2> QED BY <2>2, <2>3 DEF CosetPositions
<1>4. ASSUME NEW k \in Nat, NEW m \in Reductions, m = k + 1
      PROVE  k \in Reductions /\ k = m - 1 /\ E[m] = NextQueryPositions(m, E[k][0])
  <2>1. k \in Reductions /\ k = m - 1
    BY <1>1, <1>4
  <2> DEFINE d == domains[k]
             s == LocalizerDegree(k)
             j == si[m]
             p == E[k][0]
  <2>2. CutInto(d, s) /\ s \in Nat \ {0} /\ domains[m].order = NumCosets(d, s)
    BY <1>4, <2>1, ReductionOrders
  <2>3. j \in 0..(NumCosets(d, s) - 1)
    <3>1. m \in 0..n
      BY <1>1
    <3> QED BY <2>2, <3>1, SiValue
  <2>4. p = PositionByCosetIndices(d, j, 0, s) /\ 0 \in 0..(s - 1)
    <3>1. 0 \in 0..(s - 1)
      BY <2>2
    <3>2. E[k] = CosetPositions(k, si[m])
      BY <1>4, <2>1
    <3> HIDE DEF E, si
    <3> QED BY <3>1, <3>2 DEF CosetPositions
  <2>5. E[m] = CosetPositions(m, si[m + 1])
    OBVIOUS
  <2>6. si[m + 1] = CosetIndex(domains[m], j, LocalizerDegree(m))
    BY <1>2
  <2> HIDE DEF d, s, p, j, E, si
  <2>7. CosetIndex(d, p, s) = j
    BY <2>2, <2>3, <2>4, CosetPosition
  <2>8. CosetIndex(domains[m - 1], p, LocalizerDegree(m - 1)) = j
    BY <2>1, <2>7 DEF d, s
  <2>9. NextQueryPositions(m, p) = CosetPositions(m, si[m + 1])
    BY <2>6, <2>8 DEF NextQueryPositions, CosetPositions
  <2> QED BY <2>1, <2>5, <2>9 DEF p
<1> HIDE DEF E
<1>5. PositionPath(s0, E)
  <2>1. ASSUME NEW i \in Reductions
        PROVE  E[i] = IF i = 0
                      THEN [k \in 0..(LocalizerDegree(0) - 1) |->
                              PositionByCosetIndices(domains[0],
                                CosetIndex(domains[0], s0, LocalizerDegree(0)), k, LocalizerDegree(0))]
                      ELSE NextQueryPositions(i, E[i - 1][0])
    <3>1. CASE i = 0
      BY <1>3, <3>1
    <3>2. CASE i # 0
      <4> DEFINE k == i - 1
      <4>1. k \in Nat /\ i = k + 1
        BY <1>1, <3>2
      <4> HIDE DEF k
      <4>2. k = i - 1 /\ E[i] = NextQueryPositions(i, E[k][0])
        BY <1>4, <4>1
      <4> QED BY <3>2, <4>2
    <3> QED BY <3>1, <3>2
  <2>2. E = [i \in Reductions |-> E[i]]
    BY DEF E
  <2> QED BY <2>1, <2>2, Zenon DEF PositionPath
<1>6. h = CHOOSE f : PositionPath(s0, f)
  BY Zenon DEF QueryPositions, PositionPath
<1> HIDE DEF h
<1>7. PositionPath(s0, h)
  BY <1>5, <1>6
<1>8. \A i \in Reductions :
        h[i] = IF i = 0
               THEN [k \in 0..(LocalizerDegree(0) - 1) |->
                       PositionByCosetIndices(domains[0],
                         CosetIndex(domains[0], s0, LocalizerDegree(0)), k, LocalizerDegree(0))]
               ELSE NextQueryPositions(i, h[i - 1][0])
  BY <1>7, Zenon DEF PositionPath
<1> DEFINE Q == {k \in Nat : k \in Reductions => h[k] = E[k]}
<1>9. 0 \in Q
  BY <1>1, <1>3, <1>8
<1>10. ASSUME NEW k \in Nat, k \in Q PROVE k + 1 \in Q
  <2> DEFINE m == k + 1
  <2>1. m \in Nat /\ m = k + 1 /\ m # 0
    OBVIOUS
  <2> HIDE DEF m
  <2>2. SUFFICES ASSUME m \in Reductions PROVE h[m] = E[m]
    BY <2>1
  <2>3. k \in Reductions /\ k = m - 1 /\ E[m] = NextQueryPositions(m, E[k][0])
    BY <1>4, <2>1, <2>2
  <2>4. h[m] = NextQueryPositions(m, h[k][0])
    BY <1>8, <2>1, <2>2, <2>3
  <2>5. h[k] = E[k]
    BY <1>10, <2>3
  <2> QED BY <2>3, <2>4, <2>5
<1> HIDE DEF Q
<1>11. Nat \subseteq Q
  BY <1>9, <1>10, NatSetInduction
<1>12. ASSUME NEW i \in Reductions PROVE h[i] = CosetPositions(i, si[i + 1])
  <2>1. i \in Nat
    BY <1>1
  <2>2. h[i] = E[i]
    BY <1>11, <2>1 DEF Q
  <2> QED BY <2>2 DEF E
<1> QED BY <1>12 DEF h, si

-----------------------------------------------------------------------------
(***************************************************************************)
(* What the verifier computes.                                             *)
(***************************************************************************)
\* The reductions are over.
ReductionsOver == FriInv /\ Len(challenges) = num_reductions

\* The polynomial of interaction j after i reductions.
PolynomialAt(j, i) == FoldsTo(coefficients, challenges, j, i)

\* The codewords are its values.
LEMMA CodewordValue ==
  ASSUME ReductionsOver, NEW j \in Interactions, ReadWell(j, num_reductions),
         NEW i \in 0..num_reductions
  PROVE  codewords[i + 1][j] = EvaluatedOver(PolynomialAt(j, i), domains[i])
<1>1. num_reductions \in Nat /\ Len(challenges) = num_reductions
      /\ Follows(coefficients, codewords, challenges)
  BY DomainsEquation DEF ReductionsOver, FriInv, ReductionsInv
<1>2. AllReadWell(challenges, j, num_reductions)
  BY ReadWellMeans
<1>3. AllReadWell(challenges, j, i)
  BY <1>1, <1>2 DEF AllReadWell
<1> QED BY <1>1, <1>3 DEF Follows, PolynomialAt

\* And it is one.
LEMMA PolynomialAtType ==
  ASSUME ReductionsOver, NEW j \in Interactions, NEW i \in 0..num_reductions
  PROVE  Polynomial(PolynomialAt(j, i), P) /\ Polynomial(PolynomialAt(j, i), domains[i].order)
<1>1. /\ coefficients \in Polynomials /\ challenges \in Seq([Interactions -> Challenges])
      /\ Len(challenges) <= num_reductions /\ i \in 0..Len(challenges)
  BY DEF ReductionsOver, FriInv, ReductionsInv
<1> QED BY <1>1, FoldsToType DEF PolynomialAt

\* The challenge of a reduction.
LEMMA ChallengeAt ==
  ASSUME ReductionsOver, NEW j \in Interactions, NEW i \in Reductions
  PROVE  challenges[i + 1][j] \in Field
<1>1. challenges \in Seq([Interactions -> Challenges]) /\ Len(challenges) = num_reductions
  BY DEF ReductionsOver, FriInv, ReductionsInv
<1> DEFINE m == i + 1
<1>2. m \in 1..Len(challenges)
  BY <1>1, DomainsEquation DEF Reductions
<1> HIDE DEF m
<1>3. challenges[m][j] \in Field
  BY <1>1, <1>2, ChallengeType
<1> QED BY <1>3 DEF m

\* What is read in a reduction: the values of the polynomial on a coset.
LEMMA QueriedValue ==
  ASSUME ReductionsOver, NEW j \in Interactions, ReadWell(j, num_reductions),
         NEW i \in Reductions, NEW s0 \in 0..(CodewordDomain.order - 1)
  PROVE  QueriedValues(j, s0, i)
           = [k \in 0..(LocalizerDegree(i) - 1) |->
                EvaluatedOver(PolynomialAt(j, i), domains[i])
                  [PositionByCosetIndices(domains[i], SiIndex(s0)[i + 1], k, LocalizerDegree(i))]]
<1> DEFINE f == EvaluatedOver(PolynomialAt(j, i), domains[i])
           r == SiIndex(s0)[i + 1]
<1>1. RoundOracles(i)[IF i = 0 THEN 1 ELSE j] = f
  <2>1. CASE i = 0
    <3>1. RoundOracles(i)[IF i = 0 THEN 1 ELSE j] = codewords[1][1]
      BY <2>1 DEF RoundOracles
    <3>2. 1 \in Interactions /\ 0 \in 0..Len(challenges)
          /\ Follows(coefficients, codewords, challenges) /\ 0 + 1 = 1
      BY FriAssumption, DomainsEquation DEF Interactions, ReductionsOver, FriInv, ReductionsInv
    <3>3. AllReadWell(challenges, 1, 0)
      BY DEF AllReadWell
    <3>4. codewords[1][1] = EvaluatedOver(FoldsTo(coefficients, challenges, 1, 0), domains[0])
      BY <3>2, <3>3 DEF Follows
    <3>5. FoldsTo(coefficients, challenges, 1, 0) = coefficients
          /\ PolynomialAt(j, 0) = coefficients
      BY FoldsToFirst DEF PolynomialAt
    <3> QED BY <2>1, <3>1, <3>4, <3>5
  <2>2. CASE i # 0
    <3>1. RoundOracles(i)[IF i = 0 THEN 1 ELSE j] = codewords[i + 1][j]
      BY <2>2 DEF RoundOracles
    <3>2. i \in 0..num_reductions
      BY ReductionOrders
    <3> QED BY <3>1, <3>2, CodewordValue
  <2> QED BY <2>1, <2>2
<1>2. QueryPositions(s0)[i] = CosetPositions(i, r)
  BY QueryPositionsValue
<1>3. \A k \in 0..(LocalizerDegree(i) - 1) :
        CosetPositions(i, r)[k] = PositionByCosetIndices(domains[i], r, k, LocalizerDegree(i))
  BY DEF CosetPositions
<1> HIDE DEF f, r
<1>4. QueriedValues(j, s0, i)
        = [k \in 0..(LocalizerDegree(i) - 1) |-> f[CosetPositions(i, r)[k]]]
  BY <1>1, <1>2 DEF QueriedValues
<1> QED BY <1>3, <1>4 DEF f, r

\* What it folds to: the value of the next polynomial at the next position.
LEMMA InterpolationFollows ==
  ASSUME ReductionsOver, NEW j \in Interactions, ReadWell(j, num_reductions),
         NEW i \in Reductions, NEW s0 \in 0..(CodewordDomain.order - 1), NEW m, m = i + 1
  PROVE  Interpolation(j, s0, i)
           = EvaluatedOver(PolynomialAt(j, m), domains[m])[SiIndex(s0)[m]]
<1> DEFINE d == domains[i]
           s == LocalizerDegree(i)
           r == SiIndex(s0)[m]
           c == PolynomialAt(j, i)
           x == challenges[m][j]
           h == ElementByIndex(d, r)
           v == QueriedValues(j, s0, i)
           p == PositionByCosetIndices(d, r, 0, s)
<1>1. /\ i \in 0..num_reductions /\ m \in 0..num_reductions /\ i \in Nat
      /\ CutInto(d, s) /\ Divisor(s) /\ domains[m] = Localized(d, s)
      /\ domains[m].order = NumCosets(d, s) /\ NumCosets(d, s) \in Nat
  BY ReductionOrders
<1>2. r \in 0..(NumCosets(d, s) - 1)
  BY <1>1, SiValue
<1>3. x \in Field
  BY ChallengeAt
<1>4. Polynomial(c, P)
  BY <1>1, PolynomialAtType
<1>5. v = [k \in 0..(s - 1) |-> EvaluatedOver(c, d)[PositionByCosetIndices(d, r, k, s)]]
  BY QueriedValue
<1>6. p = r
  BY <1>1, <1>2 DEF PositionByCosetIndices
<1>7. Interpolation(j, s0, i) = FoldedCoset(v, s, ElementByIndex(d, p), x)
  BY DEF Interpolation
<1>8. PolynomialAt(j, m) = FoldedCoefficients(c, s, x)
  BY <1>1, FoldsToNext DEF PolynomialAt
<1>9. h = ElementByIndex(d, r)
  OBVIOUS
<1> HIDE DEF d, s, r, c, x, h, v, p
<1>10. h \in Field /\ h # 0 /\ ElementByIndex(Localized(d, s), r) = Power[h][s]
  BY <1>1, <1>2, <1>9, CosetImage
<1>11. OnCoset(c, s, h, v)
  BY <1>1, <1>2, <1>5, <1>9, CosetOfCodeword
<1>12. FoldedCoset(v, s, h, x) = FoldAt(c, s, h, x)
  BY <1>1, <1>3, <1>4, <1>10, <1>11, FoldedCosetValue
<1>13. FoldAt(c, s, h, x) = Evaluation(PolynomialAt(j, m), ElementByIndex(domains[m], r))
  BY <1>1, <1>8, <1>10 DEF FoldAt
<1>14. r \in 0..(domains[m].order - 1)
  BY <1>1, <1>2
<1>15. EvaluatedOver(PolynomialAt(j, m), domains[m])[r]
         = Evaluation(PolynomialAt(j, m), ElementByIndex(domains[m], r))
  BY <1>14, EvaluatedType
<1> QED BY <1>6, <1>7, <1>9, <1>12, <1>13, <1>15 DEF r

\* The value at the position of the query itself.
LEMMA IntraValue ==
  ASSUME ReductionsOver, NEW j \in Interactions, ReadWell(j, num_reductions),
         NEW i \in Reductions, NEW s0 \in 0..(CodewordDomain.order - 1)
  PROVE  QueriedValues(j, s0, i)[IntraCosetIndex(domains[i], SiIndex(s0)[i], LocalizerDegree(i))]
           = EvaluatedOver(PolynomialAt(j, i), domains[i])[SiIndex(s0)[i]]
<1> DEFINE d == domains[i]
           s == LocalizerDegree(i)
           r == SiIndex(s0)[i + 1]
           q == SiIndex(s0)[i]
           k == IntraCosetIndex(d, q, s)
           f == EvaluatedOver(PolynomialAt(j, i), d)
           v == QueriedValues(j, s0, i)
<1>1. i \in 0..num_reductions /\ CutInto(d, s)
  BY ReductionOrders
<1>2. q \in 0..(d.order - 1)
  BY <1>1, SiValue
<1>3. r = CosetIndex(d, q, s)
  BY SiNext
<1>4. v = [n \in 0..(s - 1) |-> f[PositionByCosetIndices(d, r, n, s)]]
  BY QueriedValue
<1>5. k = IntraCosetIndex(d, q, s)
  OBVIOUS
<1> HIDE DEF d, s, r, q, k, f, v
<1>6. k \in 0..(s - 1) /\ q = PositionByCosetIndices(d, r, k, s)
  BY <1>1, <1>2, <1>3, <1>5, PositionInCoset
<1>7. v[k] = f[q]
  BY <1>4, <1>6
<1> QED BY <1>7 DEF d, s, q, k, f, v

\* A query is answered as it should be if and only if the last codeword is the polynomial that was
\* sent, at the place that the query leads to.
LEMMA PredicateValue ==
  ASSUME ReductionsOver, NEW j \in Interactions, ReadWell(j, num_reductions),
         NEW s0 \in 0..(CodewordDomain.order - 1),
         NEW p, p = s0 % domains[num_reductions].order
  PROVE  PredicateForQuerySet(j, s0)
           <=> Evaluation(final_polynomials[j], ElementByIndex(domains[num_reductions], p))
                 = codewords[num_reductions + 1][j][p]
<1> DEFINE n == num_reductions
           l == n - 1
<1>1. n \in Nat \ {0} /\ n \in 0..n /\ l \in Reductions /\ n = l + 1 /\ Reductions = 0..(n - 1)
  BY DomainsEquation DEF Reductions
<1>2. ASSUME NEW i \in Reductions \ {0}
      PROVE  Interpolation(j, s0, i - 1)
               = QueriedValues(j, s0, i)[IntraCosetIndex(domains[i], SiIndex(s0)[i], LocalizerDegree(i))]
  <2> DEFINE k == i - 1
  <2>1. k \in Reductions /\ i = k + 1
    BY <1>1
  <2> HIDE DEF k
  <2>2. Interpolation(j, s0, k) = EvaluatedOver(PolynomialAt(j, i), domains[i])[SiIndex(s0)[i]]
    BY <2>1, InterpolationFollows
  <2>3. i \in Reductions
    OBVIOUS
  <2>4. QueriedValues(j, s0, i)[IntraCosetIndex(domains[i], SiIndex(s0)[i], LocalizerDegree(i))]
          = EvaluatedOver(PolynomialAt(j, i), domains[i])[SiIndex(s0)[i]]
    BY <2>3, IntraValue
  <2> QED BY <2>2, <2>4 DEF k
<1>3. SiIndex(s0)[n] = p
  BY <1>1, SiValue
<1>4. LastElement(s0) = ElementByIndex(domains[n], p)
  BY <1>3, LastElementValue
<1>5. codewords[n + 1][j] = EvaluatedOver(PolynomialAt(j, n), domains[n])
  BY <1>1, CodewordValue
<1> DEFINE E == \A i \in Reductions \ {0} :
                  Interpolation(j, s0, i - 1)
                    = QueriedValues(j, s0, i)[IntraCosetIndex(domains[i], SiIndex(s0)[i],
                                                              LocalizerDegree(i))]
           F == Interpolation(j, s0, l) = Evaluation(final_polynomials[j], LastElement(s0))
<1>6. E
  BY <1>2
<1>7. PredicateForQuerySet(j, s0) <=> E /\ F
  BY DEF PredicateForQuerySet
<1> HIDE DEF E, l
<1>8. Interpolation(j, s0, l) = EvaluatedOver(PolynomialAt(j, n), domains[n])[SiIndex(s0)[n]]
  BY <1>1, InterpolationFollows
<1>9. Interpolation(j, s0, l) = codewords[n + 1][j][p]
  BY <1>3, <1>5, <1>8
<1> QED BY <1>4, <1>6, <1>7, <1>9

-----------------------------------------------------------------------------
(***************************************************************************)
(* Sets of numbers in ascending order.                                     *)
(***************************************************************************)
\* How many members of a set come before x.
Rank(S, x) == Cardinality({y \in S : y < x})

\* The rank of a number is a number, at most that of a whole set.
LEMMA RankType ==
  ASSUME NEW S \in SUBSET Nat, IsFiniteSet(S), NEW x
  PROVE  /\ IsFiniteSet({y \in S : y < x}) /\ Rank(S, x) \in Nat
         /\ Cardinality(S) \in Nat
<1>1. {y \in S : y < x} \in SUBSET S
  OBVIOUS
<1>2. IsFiniteSet({y \in S : y < x})
  BY <1>1, FS_Subset
<1> QED BY <1>2, FS_CardinalityType DEF Rank

\* The ranks ascend with the members.
LEMMA RankAscends ==
  ASSUME NEW S \in SUBSET Nat, IsFiniteSet(S), NEW x \in S, NEW z \in Nat, x < z
  PROVE  Rank(S, x) < Rank(S, z)
<1> DEFINE A == {y \in S : y < x}
           B == {y \in S : y < z}
<1>1. IsFiniteSet(A) /\ IsFiniteSet(B) /\ Rank(S, x) = Cardinality(A) /\ Rank(S, z) = Cardinality(B)
      /\ Rank(S, x) \in Nat /\ Rank(S, z) \in Nat
  BY RankType DEF Rank
<1>2. A \in SUBSET B /\ x \in B /\ x \notin A
  <2>1. x \in Nat /\ \A y \in S : y \in Nat
    OBVIOUS
  <2>2. ASSUME NEW y \in S, y < x PROVE y < z
    <3>1. y \in Nat /\ x \in Nat /\ z \in Nat
      OBVIOUS
    <3> QED BY <2>2, <3>1
  <2>3. A \subseteq B
    BY <2>2
  <2>4. x \in B
    OBVIOUS
  <2>5. ~(x < x)
    BY <2>1
  <2>6. x \notin A
    BY <2>5
  <2> QED BY <2>3, <2>4, <2>6
<1> HIDE DEF A, B
<1>3. Cardinality(A) <= Cardinality(B) /\ Cardinality(A) # Cardinality(B)
  BY <1>1, <1>2, FS_Subset
<1> QED BY <1>1, <1>3

\* They are below the number of the members.
LEMMA RankBound ==
  ASSUME NEW S \in SUBSET Nat, IsFiniteSet(S), NEW x \in S
  PROVE  Rank(S, x) \in 0..(Cardinality(S) - 1)
<1> DEFINE A == {y \in S : y < x}
<1>1. IsFiniteSet(A) /\ Rank(S, x) = Cardinality(A) /\ Rank(S, x) \in Nat /\ Cardinality(S) \in Nat
  BY RankType DEF Rank
<1>2. A \in SUBSET S /\ x \notin A
  OBVIOUS
<1> HIDE DEF A
<1>3. Cardinality(A) <= Cardinality(S) /\ Cardinality(A) # Cardinality(S)
  BY <1>2, FS_Subset
<1> QED BY <1>1, <1>3

\* Different members have different ranks.
LEMMA RankUnique ==
  ASSUME NEW S \in SUBSET Nat, IsFiniteSet(S), NEW x \in S, NEW z \in S, Rank(S, x) = Rank(S, z)
  PROVE  x = z
<1>1. Rank(S, x) \in Nat /\ Rank(S, z) \in Nat /\ x \in Nat /\ z \in Nat
  BY RankType
<1>2. ~(x < z)
  <2>1. SUFFICES ASSUME x < z PROVE FALSE
    OBVIOUS
  <2>2. Rank(S, x) < Rank(S, z)
    BY <1>1, <2>1, RankAscends
  <2> QED BY <1>1, <2>2
<1>3. ~(z < x)
  <2>1. SUFFICES ASSUME z < x PROVE FALSE
    OBVIOUS
  <2>2. Rank(S, z) < Rank(S, x)
    BY <1>1, <2>1, RankAscends
  <2> QED BY <1>1, <2>2
<1> QED BY <1>1, <1>2, <1>3

\* And every rank below that number is taken.
LEMMA RankTaken ==
  ASSUME NEW S \in SUBSET Nat, IsFiniteSet(S), NEW r \in 0..(Cardinality(S) - 1)
  PROVE  \E x \in S : Rank(S, x) = r
<1> DEFINE n == Cardinality(S)
           T == 0..(n - 1)
           F == [x \in S |-> Rank(S, x)]
<1>1. n \in Nat
  BY FS_CardinalityType
<1>2. ASSUME NEW x \in S PROVE F[x] \in T
  BY RankBound
<1>3. F \in [S -> T]
  BY <1>2
<1>4. \A x, z \in S : F[x] = F[z] => x = z
  BY RankUnique
<1>5. F \in Injection(S, T)
  <2> HIDE DEF F, T
  <2> QED BY <1>3, <1>4 DEF Injection, IsInjective
<1>6. IsFiniteSet(T) /\ Cardinality(T) = n
  <2>1. 0 \in Int /\ n - 1 \in Int
    BY <1>1
  <2> HIDE DEF n
  <2> QED BY <1>1, <2>1, FS_Interval
<1>7. F \in Surjection(S, T)
  <2> HIDE DEF F, T
  <2> QED BY <1>5, <1>6, FS_Injection
<1>8. PICK x \in S : F[x] = r
  BY <1>7 DEF Surjection
<1> QED BY <1>8

\* The ascending sequence of the members.
LEMMA SortedValue ==
  ASSUME NEW S \in SUBSET Nat, IsFiniteSet(S), NEW n, n = Cardinality(S)
  PROVE  /\ n \in Nat /\ Sorted(S) \in [1..n -> S] /\ Len(Sorted(S)) = n /\ DOMAIN Sorted(S) = 1..n
         /\ \A i \in 1..n : Sorted(S)[i] \in S /\ Rank(S, Sorted(S)[i]) = i - 1
         /\ \A x \in S : Rank(S, x) + 1 \in 1..n /\ Sorted(S)[Rank(S, x) + 1] = x
<1>1. n \in Nat
  BY FS_CardinalityType
<1>2. ASSUME NEW i \in 1..n
      PROVE  Sorted(S)[i] \in S /\ Rank(S, Sorted(S)[i]) = i - 1
  <2>1. Sorted(S)[i] = CHOOSE x \in S : Rank(S, x) = i - 1
    BY Zenon DEF Sorted, Rank
  <2> DEFINE r == i - 1
  <2>2. r \in 0..(Cardinality(S) - 1)
    BY <1>1
  <2> HIDE DEF r
  <2>3. \E x \in S : Rank(S, x) = r
    BY <2>2, RankTaken
  <2> QED BY <2>1, <2>3 DEF r
<1>3. Sorted(S) \in [1..n -> S] /\ DOMAIN Sorted(S) = 1..n
  <2>1. Sorted(S) = [i \in 1..n |-> Sorted(S)[i]]
    <3>1. Sorted(S) = [i \in 1..n |-> CHOOSE x \in S : Rank(S, x) = i - 1]
      BY Zenon DEF Sorted, Rank
    <3> QED BY <3>1
  <2> QED BY <1>2, <2>1
<1>4. Len(Sorted(S)) = n
  BY <1>1, <1>3, FunctionIsSeq
<1>5. ASSUME NEW x \in S
      PROVE  Rank(S, x) + 1 \in 1..n /\ Sorted(S)[Rank(S, x) + 1] = x
  <2> DEFINE r == Rank(S, x)
             m == r + 1
  <2>1. r \in 0..(n - 1)
    BY RankBound
  <2>2. m \in 1..n /\ m - 1 = r
    BY <1>1, <2>1
  <2>3. r = Rank(S, x)
    OBVIOUS
  <2> HIDE DEF m, r
  <2>4. Sorted(S)[m] \in S /\ Rank(S, Sorted(S)[m]) = r
    BY <1>2, <2>2
  <2>5. Sorted(S)[m] = x
    <3> DEFINE z == Sorted(S)[m]
    <3>1. z \in S /\ Rank(S, z) = Rank(S, x)
      BY <2>3, <2>4
    <3> HIDE DEF z
    <3>2. z = x
      BY <3>1, RankUnique
    <3> QED BY <3>2 DEF z
  <2> QED BY <2>2, <2>5 DEF m, r
<1> QED BY <1>1, <1>2, <1>3, <1>4, <1>5

-----------------------------------------------------------------------------
(***************************************************************************)
(* The leaves that hold the cosets with indices in a set L, rebuilt.       *)
(***************************************************************************)
\* The positions of the cosets of d of size s with indices in L.
Cosets(d, s, L) == {PositionByCosetIndices(d, j, k, s) : j \in L, k \in 0..(s - 1)}

\* Q is the set of these positions, and has N members.
QueriesCosets(d, s, L, Q, N) ==
  /\ CutInto(d, s)
  /\ L \in SUBSET (0..(NumCosets(d, s) - 1))
  /\ Q = Cosets(d, s, L)
  /\ N = Cardinality(Q)

\* Which positions these are.
LEMMA CosetsType ==
  ASSUME NEW d, NEW s, NEW L, NEW Q, NEW N, QueriesCosets(d, s, L, Q, N)
  PROVE  /\ Q \in SUBSET Nat /\ IsFiniteSet(Q) /\ N \in Nat
         /\ L \in SUBSET Nat /\ IsFiniteSet(L)
         /\ \A y \in Q : y \in 0..(d.order - 1) /\ CosetIndex(d, y, s) \in L
         /\ \A y \in 0..(d.order - 1) : CosetIndex(d, y, s) \in L => y \in Q
<1> DEFINE M == NumCosets(d, s)
<1>1. CutInto(d, s) /\ L \in SUBSET (0..(M - 1)) /\ Q = Cosets(d, s, L) /\ N = Cardinality(Q)
  BY DEF QueriesCosets
<1>2. M \in Nat \ {0} /\ d.order = s * M /\ s \in Nat \ {0} /\ d.order \in Nat
  BY <1>1, LocalizedDomain DEF CutInto, Domain, Divisor
<1> HIDE DEF M
<1>3. ASSUME NEW y \in Q
      PROVE  y \in 0..(d.order - 1) /\ CosetIndex(d, y, s) \in L
  <2>1. PICK j \in L, k \in 0..(s - 1) : y = PositionByCosetIndices(d, j, k, s)
    BY <1>1, <1>3 DEF Cosets
  <2>2. j \in 0..(M - 1)
    BY <1>1
  <2>3. y \in 0..(d.order - 1) /\ CosetIndex(d, y, s) = j
    BY <1>1, <2>1, <2>2, CosetPosition DEF M
  <2> QED BY <2>3
<1>4. ASSUME NEW y \in 0..(d.order - 1), CosetIndex(d, y, s) \in L
      PROVE  y \in Q
  <2> DEFINE j == CosetIndex(d, y, s)
             k == IntraCosetIndex(d, y, s)
  <2>1. k \in 0..(s - 1) /\ y = PositionByCosetIndices(d, j, k, s)
    BY <1>1, PositionInCoset
  <2>2. j \in L
    BY <1>4
  <2> HIDE DEF j, k
  <2>3. y \in Cosets(d, s, L)
    BY <2>1, <2>2 DEF Cosets
  <2> QED BY <1>1, <2>3
<1>5. Q \in SUBSET (0..(d.order - 1)) /\ 0..(d.order - 1) \in SUBSET Nat /\ 0..(M - 1) \in SUBSET Nat
  BY <1>2, <1>3
<1>6. IsFiniteSet(0..(d.order - 1)) /\ IsFiniteSet(0..(M - 1))
  <2>1. 0 \in Int /\ d.order - 1 \in Int /\ M - 1 \in Int
    BY <1>2
  <2> QED BY <2>1, FS_Interval
<1>7. IsFiniteSet(Q) /\ IsFiniteSet(L)
  BY <1>1, <1>5, <1>6, FS_Subset
<1>8. N \in Nat
  BY <1>1, <1>7, FS_CardinalityType
<1>9. Q \in SUBSET Nat /\ L \in SUBSET Nat
  BY <1>1, <1>5
<1> QED BY <1>3, <1>4, <1>7, <1>8, <1>9

\* The first position of each coset is its index, and comes before the others.
LEMMA FirstPosition ==
  ASSUME NEW d, NEW s, NEW L, NEW Q, NEW N, QueriesCosets(d, s, L, Q, N)
  PROVE  /\ \A j \in L : j \in Q /\ CosetIndex(d, j, s) = j
         /\ \A y \in Q : CosetIndex(d, y, s) <= y
         /\ \A y \in Q, j \in L : y < j => y \in L /\ CosetIndex(d, y, s) = y
<1> DEFINE M == NumCosets(d, s)
<1>1. CutInto(d, s) /\ L \in SUBSET (0..(M - 1))
  BY DEF QueriesCosets
<1>2. M \in Nat \ {0} /\ d.order = s * M /\ s \in Nat \ {0} /\ d.order \in Nat /\ M <= d.order
  BY <1>1, LocalizedDomain DEF CutInto, Domain, Divisor
<1>3. ASSUME NEW y PROVE CosetIndex(d, y, s) = y % M
  BY DEF CosetIndex
<1> HIDE DEF M
<1>4. ASSUME NEW y \in Nat, y < M PROVE CosetIndex(d, y, s) = y
  BY <1>2, <1>3, <1>4, ModSmall
<1>5. ASSUME NEW j \in L PROVE j \in Q /\ CosetIndex(d, j, s) = j
  <2>1. j \in Nat /\ j < M /\ j \in 0..(d.order - 1)
    BY <1>1, <1>2
  <2>2. CosetIndex(d, j, s) = j
    BY <1>4, <2>1
  <2> QED BY <2>1, <2>2, CosetsType
<1>6. ASSUME NEW y \in Q PROVE CosetIndex(d, y, s) <= y
  <2>1. y \in Nat
    BY CosetsType
  <2>2. y \div M \in Nat /\ y % M \in Nat /\ y = (M * (y \div M)) + (y % M)
    BY <1>2, <2>1, DivisionType
  <2> DEFINE q == y \div M
             r == y % M
             t == M * q
  <2>3. t \in Nat /\ r \in Nat /\ y = t + r
    BY <1>2, <2>2
  <2>4. CosetIndex(d, y, s) = r
    BY <1>3
  <2> HIDE DEF r, t
  <2> QED BY <2>1, <2>3, <2>4
<1>7. ASSUME NEW y \in Q, NEW j \in L, y < j
      PROVE  y \in L /\ CosetIndex(d, y, s) = y
  <2>1. y \in Nat /\ CosetIndex(d, y, s) \in L
    BY CosetsType
  <2>2. y < M
    <3>1. j \in Nat /\ j < M
      BY <1>1, <1>2
    <3> QED BY <1>2, <1>7, <2>1, <3>1
  <2>3. CosetIndex(d, y, s) = y
    BY <1>4, <2>1, <2>2
  <2> QED BY <2>1, <2>3
<1> QED BY <1>5, <1>6, <1>7

\* A position and its place in the ascending sequence.
LEMMA QueriedPlace ==
  ASSUME NEW d, NEW s, NEW L, NEW Q, NEW N, QueriesCosets(d, s, L, Q, N), NEW pos, pos = Sorted(Q)
  PROVE  /\ DOMAIN pos = 1..N /\ Len(pos) = N
         /\ \A i \in 1..N : /\ pos[i] \in Q /\ pos[i] \in Nat
                            /\ CosetIndex(d, pos[i], s) \in L
         /\ \A y \in Q : Rank(Q, y) + 1 \in 1..N /\ pos[Rank(Q, y) + 1] = y
         /\ \A i, n \in 1..N : n < i <=> pos[n] < pos[i]
<1>1. N = Cardinality(Q)
  BY DEF QueriesCosets
<1>2. Q \in SUBSET Nat /\ IsFiniteSet(Q) /\ N \in Nat /\ N = Cardinality(Q)
      /\ \A y \in Q : CosetIndex(d, y, s) \in L
  BY <1>1, CosetsType
<1>3. /\ Len(pos) = N /\ DOMAIN pos = 1..N
      /\ \A i \in 1..N : pos[i] \in Q /\ Rank(Q, pos[i]) = i - 1
      /\ \A y \in Q : Rank(Q, y) + 1 \in 1..N /\ pos[Rank(Q, y) + 1] = y
  BY <1>2, SortedValue
<1>4. ASSUME NEW i \in 1..N, NEW n \in 1..N, pos[n] < pos[i] PROVE n < i
  <2>1. pos[n] \in Q /\ pos[i] \in Nat /\ Rank(Q, pos[n]) = n - 1 /\ Rank(Q, pos[i]) = i - 1
    BY <1>2, <1>3
  <2>2. Rank(Q, pos[n]) < Rank(Q, pos[i])
    BY <1>2, <1>4, <2>1, RankAscends
  <2> QED BY <1>2, <2>1, <2>2
<1>5. ASSUME NEW i \in 1..N, NEW n \in 1..N, n < i PROVE pos[n] < pos[i]
  <2>1. SUFFICES ASSUME ~(pos[n] < pos[i]) PROVE FALSE
    OBVIOUS
  <2>2. pos[n] \in Nat /\ pos[i] \in Nat /\ Rank(Q, pos[n]) = n - 1 /\ Rank(Q, pos[i]) = i - 1
    BY <1>2, <1>3
  <2>3. pos[i] < pos[n] \/ pos[i] = pos[n]
    BY <2>1, <2>2
  <2>4. ~(pos[i] < pos[n])
    BY <1>2, <1>4, <1>5
  <2>5. n - 1 = i - 1
    BY <2>2, <2>3, <2>4
  <2> QED BY <1>2, <1>5, <2>5
<1> QED BY <1>2, <1>3, <1>4, <1>5

\* The column of a queried position is the place of its leaf among the leaves.
LEMMA ColumnValue ==
  ASSUME NEW d, NEW s, NEW L, NEW Q, NEW N, QueriesCosets(d, s, L, Q, N), NEW pos, pos = Sorted(Q),
         NEW i \in 1..N
  PROVE  ColumnOf(pos, d, s, i) = Rank(L, CosetIndex(d, pos[i], s))
<1> DEFINE leaf(n) == CosetIndex(d, pos[n], s)
           l == leaf(i)
           f == Rank(Q, l) + 1
           first == CHOOSE n \in 1..i : leaf(n) = leaf(i) /\ \A m \in 1..(n - 1) : leaf(m) # leaf(i)
<1>1. N \in Nat /\ L \in SUBSET Nat
  BY CosetsType
<1>2. /\ \A n \in 1..N : pos[n] \in Q /\ pos[n] \in Nat /\ leaf(n) \in L
      /\ \A y \in Q : Rank(Q, y) + 1 \in 1..N /\ pos[Rank(Q, y) + 1] = y
      /\ \A k, n \in 1..N : n < k <=> pos[n] < pos[k]
  BY QueriedPlace
<1>3. /\ \A j \in L : j \in Q /\ CosetIndex(d, j, s) = j
      /\ \A y \in Q : CosetIndex(d, y, s) <= y
      /\ \A y \in Q, j \in L : y < j => y \in L /\ CosetIndex(d, y, s) = y
  BY FirstPosition
<1>4. ColumnOf(pos, d, s, i) = Cardinality({leaf(n) : n \in 1..(first - 1)})
  BY Zenon DEF ColumnOf
<1>5. l \in L /\ l \in Nat /\ l \in Q /\ l <= pos[i] /\ pos[i] \in Nat
  BY <1>1, <1>2, <1>3
<1>6. f \in 1..N /\ pos[f] = l /\ f \in Nat
  BY <1>1, <1>2, <1>5
<1>7. leaf(f) = l
  <2>1. CosetIndex(d, l, s) = l
    BY <1>3, <1>5
  <2>2. leaf(f) = CosetIndex(d, l, s)
    BY <1>6
  <2> QED BY <2>1, <2>2
<1> HIDE DEF f
<1>8. f \in 1..i
  <2>1. ~(i < f)
    <3>1. SUFFICES ASSUME i < f PROVE FALSE
      OBVIOUS
    <3>2. pos[i] < pos[f]
      BY <1>2, <1>6, <3>1
    <3> HIDE DEF l
    <3> QED BY <1>5, <1>6, <3>2
  <2> QED BY <1>1, <1>6, <2>1
<1>9. ASSUME NEW m \in 1..(f - 1) PROVE m \in 1..N /\ pos[m] < l /\ leaf(m) = pos[m] /\ pos[m] \in L
  <2>1. m \in 1..N /\ m < f
    BY <1>1, <1>6
  <2>2. pos[m] < l /\ pos[m] \in Q
    BY <1>2, <1>6, <2>1
  <2>3. CosetIndex(d, pos[m], s) = pos[m] /\ pos[m] \in L
    <3> HIDE DEF l
    <3> QED BY <1>3, <1>5, <2>2
  <2> QED BY <2>1, <2>2, <2>3
<1>10. \A m \in 1..(f - 1) : leaf(m) # l
  <2>1. ASSUME NEW m \in 1..(f - 1) PROVE leaf(m) # l
    <3>1. pos[m] < l /\ leaf(m) = pos[m] /\ pos[m] \in Nat
      BY <1>2, <1>9
    <3> HIDE DEF l, leaf
    <3> QED BY <1>5, <3>1
  <2> QED BY <2>1
<1> DEFINE G(n) == n \in 1..i /\ leaf(n) = l /\ \A m \in 1..(n - 1) : leaf(m) # l
<1>11. ASSUME NEW n, G(n) PROVE n = f
  <2>1. n \in 1..i /\ n \in Nat /\ i \in Nat
    BY <1>1, <1>11
  <2>2. ~(n < f)
    <3>1. SUFFICES ASSUME n < f PROVE FALSE
      OBVIOUS
    <3>2. n \in 1..(f - 1)
      BY <1>6, <2>1, <3>1
    <3>3. leaf(n) # l
      BY <1>10, <3>2
    <3> QED BY <1>11, <3>3
  <2>3. ~(f < n)
    <3>1. SUFFICES ASSUME f < n PROVE FALSE
      OBVIOUS
    <3>2. f \in 1..(n - 1)
      BY <1>6, <2>1, <3>1
    <3>3. leaf(f) # l
      BY <1>11, <3>2
    <3> QED BY <1>7, <3>3
  <2> QED BY <1>6, <2>1, <2>2, <2>3
<1>12. G(f)
  BY <1>7, <1>8, <1>10
<1>13. first = f
  <2>1. G(first)
    BY <1>12
  <2> HIDE DEF first, G
  <2> QED BY <1>11, <2>1
<1>14. {leaf(n) : n \in 1..(f - 1)} = {y \in L : y < l}
  <2>1. ASSUME NEW n \in 1..(f - 1) PROVE leaf(n) \in L /\ leaf(n) < l
    <3>1. leaf(n) = pos[n] /\ pos[n] < l /\ pos[n] \in L
      BY <1>9
    <3> HIDE DEF leaf, l
    <3> QED BY <3>1
  <2>2. ASSUME NEW y \in L, y < l PROVE \E n \in 1..(f - 1) : y = leaf(n)
    <3> DEFINE k == Rank(Q, y) + 1
    <3>1. y \in Q /\ CosetIndex(d, y, s) = y
      BY <1>3
    <3>2. k \in 1..N /\ pos[k] = y
      BY <1>2, <3>1
    <3> HIDE DEF k
    <3>3. leaf(k) = y
      BY <3>1, <3>2
    <3>4. pos[k] < pos[f]
      BY <1>6, <2>2, <3>2
    <3>5. k < f
      BY <1>2, <1>6, <3>2, <3>4
    <3>6. k \in 1..(f - 1)
      BY <1>1, <1>6, <3>2, <3>5
    <3> QED BY <3>3, <3>6
  <2> HIDE DEF leaf, l
  <2> QED BY <2>1, <2>2
<1>15. ColumnOf(pos, d, s, i) = Cardinality({y \in L : y < l})
  BY <1>4, <1>13, <1>14
<1> QED BY <1>15 DEF Rank

\* The positions of a coset ascend.
LEMMA PositionsAscend ==
  ASSUME NEW d, NEW s, CutInto(d, s), NEW j \in 0..(NumCosets(d, s) - 1),
         NEW a \in 0..(s - 1), NEW b \in 0..(s - 1)
  PROVE  PositionByCosetIndices(d, j, a, s) < PositionByCosetIndices(d, j, b, s) <=> a < b
<1> DEFINE M == NumCosets(d, s)
<1>1. M \in Nat \ {0} /\ s \in Nat
  BY LocalizedDomain DEF CutInto
<1>2. /\ PositionByCosetIndices(d, j, a, s) = j + (a * M)
      /\ PositionByCosetIndices(d, j, b, s) = j + (b * M)
  BY DEF PositionByCosetIndices
<1>3. j \in Nat /\ a \in Nat /\ b \in Nat
  BY <1>1
<1> HIDE DEF M
<1>4. ASSUME NEW x \in Nat, NEW y \in Nat, x < y PROVE x * M < y * M
  <2> DEFINE e == y - x
  <2>1. e \in Nat \ {0} /\ y = x + e
    BY <1>4
  <2> HIDE DEF e
  <2>2. y * M = (x * M) + (e * M) /\ x * M \in Nat /\ e * M \in Nat \ {0}
    BY <1>1, <2>1
  <2> QED BY <2>2
<1>5. a * M \in Nat /\ b * M \in Nat
  BY <1>1, <1>3
<1>6. (a * M) < (b * M) <=> a < b
  <2>1. CASE a < b
    BY <1>3, <1>4, <2>1
  <2>2. CASE a = b
    BY <1>3, <1>5, <2>2
  <2>3. CASE b < a
    <3>1. b * M < a * M
      BY <1>3, <1>4, <2>3
    <3> QED BY <1>3, <1>5, <2>3, <3>1
  <2> QED BY <1>3, <2>1, <2>2, <2>3
<1> DEFINE A == a * M
           B == b * M
<1>7. A \in Nat /\ B \in Nat /\ (A < B <=> a < b)
  BY <1>5, <1>6
<1> HIDE DEF A, B
<1>8. j + A < j + B <=> a < b
  BY <1>3, <1>7
<1> QED BY <1>2, <1>8 DEF A, B

\* The entry of a queried position is its place in its coset.
LEMMA EntryValue ==
  ASSUME NEW d, NEW s, NEW L, NEW Q, NEW N, QueriesCosets(d, s, L, Q, N), NEW pos, pos = Sorted(Q),
         NEW i \in 1..N
  PROVE  Cardinality({n \in 1..(i - 1) : ColumnOf(pos, d, s, n) = ColumnOf(pos, d, s, i)})
           = IntraCosetIndex(d, pos[i], s)
<1> DEFINE y == pos[i]
           j == CosetIndex(d, y, s)
           k == IntraCosetIndex(d, y, s)
           A == 0..(k - 1)
           B == {n \in 1..(i - 1) : ColumnOf(pos, d, s, n) = ColumnOf(pos, d, s, i)}
           at(a) == PositionByCosetIndices(d, j, a, s)
           F == [a \in A |-> Rank(Q, at(a)) + 1]
<1>1. CutInto(d, s) /\ L \in SUBSET (0..(NumCosets(d, s) - 1)) /\ s \in Nat
  BY DEF QueriesCosets, CutInto
<1>2. N \in Nat /\ L \in SUBSET Nat /\ IsFiniteSet(L) /\ i \in Nat
      /\ \A z \in Q : z \in 0..(d.order - 1) /\ CosetIndex(d, z, s) \in L
  BY CosetsType
<1>3. \A z \in 0..(d.order - 1) : CosetIndex(d, z, s) \in L => z \in Q
  BY CosetsType
<1>4. /\ \A n \in 1..N : pos[n] \in Q /\ pos[n] \in Nat
      /\ \A z \in Q : Rank(Q, z) + 1 \in 1..N /\ pos[Rank(Q, z) + 1] = z
      /\ \A m, n \in 1..N : n < m <=> pos[n] < pos[m]
  BY QueriedPlace
<1>5. ASSUME NEW n \in 1..N PROVE ColumnOf(pos, d, s, n) = Rank(L, CosetIndex(d, pos[n], s))
  BY ColumnValue
<1>6. y \in Q /\ y \in Nat /\ y \in 0..(d.order - 1) /\ j \in L
  BY <1>2, <1>4
<1>7. k \in 0..(s - 1) /\ y = at(k) /\ j \in 0..(NumCosets(d, s) - 1)
  BY <1>1, <1>6, PositionInCoset
<1>8. y = pos[i] /\ j = CosetIndex(d, y, s)
  OBVIOUS
<1>9. k \in Nat /\ A \subseteq 0..(s - 1)
  BY <1>1, <1>7
<1> HIDE DEF y, j, k
<1>10. ASSUME NEW a \in 0..(s - 1)
       PROVE  at(a) \in Q /\ CosetIndex(d, at(a), s) = j /\ IntraCosetIndex(d, at(a), s) = a
              /\ (at(a) < y <=> a < k)
  <2>1. at(a) \in 0..(d.order - 1) /\ CosetIndex(d, at(a), s) = j
        /\ IntraCosetIndex(d, at(a), s) = a
    BY <1>1, <1>7, CosetPosition
  <2>2. at(a) \in Q
    BY <1>3, <1>6, <2>1
  <2>3. at(a) < at(k) <=> a < k
    BY <1>1, <1>7, PositionsAscend
  <2> QED BY <1>7, <2>1, <2>2, <2>3
<1>11. ASSUME NEW a \in A
       PROVE  F[a] \in 1..N /\ pos[F[a]] = at(a) /\ F[a] \in B
  <2>1. a \in 0..(s - 1) /\ a < k
    BY <1>9
  <2>2. at(a) \in Q /\ CosetIndex(d, at(a), s) = j /\ at(a) < y
    BY <1>10, <2>1
  <2> DEFINE n == Rank(Q, at(a)) + 1
  <2>3. n \in 1..N /\ pos[n] = at(a)
    BY <1>4, <2>2
  <2>4. F[a] = n
    OBVIOUS
  <2> HIDE DEF n, F, at
  <2>5. n < i
    BY <1>4, <1>8, <2>2, <2>3
  <2>6. ColumnOf(pos, d, s, n) = ColumnOf(pos, d, s, i)
    <3>1. ColumnOf(pos, d, s, n) = Rank(L, j)
      BY <1>5, <2>2, <2>3
    <3>2. ColumnOf(pos, d, s, i) = Rank(L, j)
      BY <1>5, <1>8
    <3> QED BY <3>1, <3>2
  <2>7. n \in 1..(i - 1)
    BY <1>2, <2>3, <2>5
  <2> QED BY <2>3, <2>4, <2>6, <2>7
<1>12. ASSUME NEW a \in A, NEW b \in A, F[a] = F[b] PROVE a = b
  <2>1. at(a) = at(b)
    BY <1>11, <1>12
  <2>2. IntraCosetIndex(d, at(a), s) = a /\ IntraCosetIndex(d, at(b), s) = b
    BY <1>9, <1>10
  <2> QED BY <2>1, <2>2
<1>13. ASSUME NEW n \in B PROVE \E a \in A : F[a] = n
  <2> DEFINE z == pos[n]
             a == IntraCosetIndex(d, z, s)
  <2>1. n \in 1..N /\ n < i /\ ColumnOf(pos, d, s, n) = ColumnOf(pos, d, s, i)
    BY <1>2
  <2>2. z \in Q /\ z < y /\ z \in 0..(d.order - 1) /\ CosetIndex(d, z, s) \in L
    BY <1>2, <1>4, <1>8, <2>1
  <2>3. CosetIndex(d, z, s) = j
    <3> DEFINE c == CosetIndex(d, z, s)
    <3>1. Rank(L, c) = Rank(L, j)
      <4>1. ColumnOf(pos, d, s, n) = Rank(L, c)
        BY <1>5, <2>1
      <4>2. ColumnOf(pos, d, s, i) = Rank(L, j)
        BY <1>5, <1>8
      <4> QED BY <2>1, <4>1, <4>2
    <3>2. c \in L
      BY <2>2
    <3> HIDE DEF c
    <3>3. c = j
      BY <1>2, <1>6, <3>1, <3>2, RankUnique
    <3> QED BY <3>3 DEF c
  <2>4. a \in 0..(s - 1) /\ z = at(a)
    <3>1. /\ IntraCosetIndex(d, z, s) \in 0..(s - 1)
          /\ z = PositionByCosetIndices(d, CosetIndex(d, z, s), IntraCosetIndex(d, z, s), s)
      BY <1>1, <2>2, PositionInCoset
    <3> QED BY <2>3, <3>1
  <2> HIDE DEF a
  <2>5. a < k
    BY <1>10, <2>2, <2>4
  <2>6. a \in A
    BY <1>1, <1>9, <2>4, <2>5
  <2>7. F[a] \in 1..N /\ pos[F[a]] = pos[n]
    BY <1>11, <2>4, <2>6
  <2> HIDE DEF F, z
  <2>8. ~(F[a] < n) /\ ~(n < F[a])
    <3>1. pos[n] \in Nat /\ ~(pos[n] < pos[n])
      BY <1>4, <2>1
    <3> QED BY <1>4, <2>1, <2>7, <3>1
  <2>9. F[a] = n
    BY <1>2, <2>1, <2>7, <2>8
  <2> QED BY <2>6, <2>9
<1>14. F \in Bijection(A, B)
  <2>1. F \in [A -> B]
    <3>1. F = [a \in A |-> F[a]]
      OBVIOUS
    <3> HIDE DEF F, B
    <3> QED BY <1>11, <3>1
  <2> HIDE DEF F, A, B
  <2> QED BY <1>12, <1>13, <2>1 DEF Bijection, Injection, Surjection, IsInjective
<1>15. IsFiniteSet(A) /\ Cardinality(A) = k
  <2>1. 0 \in Int /\ k - 1 \in Int
    BY <1>9
  <2> QED BY <1>9, <2>1, FS_Interval
<1>16. Cardinality(B) = Cardinality(A)
  <2> HIDE DEF A, B, F
  <2>1. ExistsBijection(A, B)
    BY <1>14 DEF ExistsBijection
  <2> QED BY <1>15, <2>1, FS_Bijection
<1> QED BY <1>15, <1>16 DEF k, y

\* Each leaf has as many positions as a coset has.
LEMMA CosetsCount ==
  ASSUME NEW d, NEW s, NEW L, NEW Q, NEW N, QueriesCosets(d, s, L, Q, N)
  PROVE  N \div s = Cardinality(L) /\ Cardinality(L) \in Nat
<1> DEFINE A == L \X (0..(s - 1))
           F == [p \in A |-> PositionByCosetIndices(d, p[1], p[2], s)]
<1>1. CutInto(d, s) /\ L \in SUBSET (0..(NumCosets(d, s) - 1)) /\ s \in Nat \ {0}
      /\ Q = Cosets(d, s, L) /\ N = Cardinality(Q)
  BY DEF QueriesCosets, CutInto
<1>2. IsFiniteSet(L) /\ IsFiniteSet(Q)
  BY CosetsType
<1>3. ASSUME NEW p \in A PROVE F[p] \in Q
  <2>1. p[1] \in L /\ p[2] \in 0..(s - 1) /\ F[p] = PositionByCosetIndices(d, p[1], p[2], s)
    OBVIOUS
  <2> HIDE DEF F
  <2> QED BY <1>1, <2>1 DEF Cosets
<1>4. ASSUME NEW p \in A, NEW q \in A, F[p] = F[q] PROVE p = q
  <2> DEFINE x == PositionByCosetIndices(d, p[1], p[2], s)
             y == PositionByCosetIndices(d, q[1], q[2], s)
  <2>1. p[1] \in 0..(NumCosets(d, s) - 1) /\ p[2] \in 0..(s - 1)
        /\ q[1] \in 0..(NumCosets(d, s) - 1) /\ q[2] \in 0..(s - 1)
    BY <1>1
  <2>2. CosetIndex(d, x, s) = p[1] /\ IntraCosetIndex(d, x, s) = p[2]
    BY <1>1, <2>1, CosetPosition
  <2>3. CosetIndex(d, y, s) = q[1] /\ IntraCosetIndex(d, y, s) = q[2]
    BY <1>1, <2>1, CosetPosition
  <2>4. x = y
    BY <1>4
  <2>5. p[1] = q[1] /\ p[2] = q[2]
    BY <2>2, <2>3, <2>4
  <2>6. p = <<p[1], p[2]>> /\ q = <<q[1], q[2]>>
    OBVIOUS
  <2> QED BY <2>5, <2>6
<1>5. ASSUME NEW y \in Q PROVE \E p \in A : F[p] = y
  <2>1. PICK j \in L, k \in 0..(s - 1) : y = PositionByCosetIndices(d, j, k, s)
    BY <1>1 DEF Cosets
  <2>2. <<j, k>> \in A /\ F[<<j, k>>] = PositionByCosetIndices(d, j, k, s)
    OBVIOUS
  <2> HIDE DEF F
  <2> QED BY <2>1, <2>2
<1>6. F \in [A -> Q]
  <2>1. F = [p \in A |-> F[p]]
    OBVIOUS
  <2> HIDE DEF F, A
  <2> QED BY <1>3, <2>1
<1>7. ExistsBijection(A, Q)
  <2> HIDE DEF F, A
  <2> QED BY <1>4, <1>5, <1>6 DEF ExistsBijection, Bijection, Injection, Surjection, IsInjective
<1>8. IsFiniteSet(0..(s - 1)) /\ Cardinality(0..(s - 1)) = s
  <2>1. 0 \in Int /\ s - 1 \in Int
    BY <1>1
  <2> QED BY <1>1, <2>1, FS_Interval
<1>9. IsFiniteSet(A) /\ Cardinality(A) = Cardinality(L) * s
  BY <1>2, <1>8, FS_Product
<1>10. N = Cardinality(L) * s
  <2> HIDE DEF A
  <2>1. Cardinality(Q) = Cardinality(A)
    BY <1>7, <1>9, FS_Bijection
  <2> QED BY <1>1, <1>9, <2>1
<1> DEFINE l == Cardinality(L)
<1>11. l \in Nat
  BY <1>2, FS_CardinalityType
<1> HIDE DEF l
<1>12. N = (l ** s) ++ 0 /\ 0 \in 0..(s - 1)
  BY <1>1, <1>10, <1>11 DEF **, ++, l
<1>13. N \div s = l
  BY <1>1, <1>11, <1>12, QuotientUnique
<1> QED BY <1>11, <1>13 DEF l

\* The leaves of these positions are those with the indices.
LEMMA CosetsLeaves ==
  ASSUME NEW d, NEW s, NEW L, NEW Q, NEW N, QueriesCosets(d, s, L, Q, N)
  PROVE  {MerkleTreePosition(p, d, s) : p \in Q} = L
<1>1. \A p : MerkleTreePosition(p, d, s) = CosetIndex(d, p, s)
  BY DEF MerkleTreePosition, CosetIndex
<1>2. \A p \in Q : CosetIndex(d, p, s) \in L
  BY CosetsType
<1>3. \A j \in L : j \in Q /\ CosetIndex(d, j, s) = j
  BY FirstPosition
<1> QED BY <1>1, <1>2, <1>3

\* The place of the oracle and of the entry that a number below w * s stands for.
LEMMA EntryBound ==
  ASSUME NEW s \in Nat \ {0}, NEW w \in Nat, NEW n \in 0..((w * s) - 1)
  PROVE  (n \div s) + 1 \in 1..w /\ n % s \in 0..(s - 1)
<1> DEFINE q == n \div s
           r == n % s
<1>1. w * s \in Nat /\ n \in Nat /\ n < w * s
  OBVIOUS
<1>2. q \in Nat /\ r \in 0..(s - 1) /\ n = (s * q) + r
  BY <1>1, DivisionType
<1> HIDE DEF q, r
<1>3. q < w
  <2>1. SUFFICES ASSUME q >= w PROVE FALSE
    BY <1>2
  <2> DEFINE a == q - w
  <2>2. a \in Nat /\ q = w + a
    BY <1>2, <2>1
  <2> HIDE DEF a
  <2>3. s * q = (w * s) + (a * s) /\ a * s \in Nat
    BY <2>2
  <2> QED BY <1>1, <1>2, <2>3
<1>4. q + 1 \in 1..w
  BY <1>2, <1>3
<1> QED BY <1>2, <1>4 DEF q, r

\* The leaves rebuilt from the values at the positions are the leaves of the tree.
LEMMA WholeCosetsFit ==
  ASSUME NEW d, NEW s, NEW L, NEW Q, NEW N, QueriesCosets(d, s, L, Q, N), L # {},
         NEW vectors, NEW w \in Nat, Len(vectors) = w, DOMAIN vectors = 1..w
  PROVE  LeavesFit(vectors, Q, d, s)
<1> DEFINE pos == Sorted(Q)
           leaves == Sorted(L)
           M == Cardinality(L)
           values == [i \in DOMAIN pos |-> [o \in DOMAIN vectors |-> vectors[o][pos[i]]]]
           place(c, n) ==
             CHOOSE i \in DOMAIN pos :
               /\ ColumnOf(pos, d, s, i) = c - 1
               /\ Cardinality({m \in 1..(i - 1) : ColumnOf(pos, d, s, m) = ColumnOf(pos, d, s, i)})
                    = n % s
           R == SerializedByCoset(values, pos, d, s)
           T == [c \in DOMAIN leaves |-> LeafContents(vectors, d, s, leaves[c])]
<1>1. CutInto(d, s) /\ L \in SUBSET (0..(NumCosets(d, s) - 1)) /\ s \in Nat \ {0}
  BY DEF QueriesCosets, CutInto
<1>2. N \in Nat /\ L \in SUBSET Nat /\ IsFiniteSet(L)
      /\ (\A y \in Q : y \in 0..(d.order - 1) /\ CosetIndex(d, y, s) \in L)
      /\ (\A y \in 0..(d.order - 1) : CosetIndex(d, y, s) \in L => y \in Q)
  BY CosetsType
<1>3. pos = Sorted(Q)
  OBVIOUS
<1>4. /\ DOMAIN pos = 1..N /\ Len(pos) = N
      /\ \A i \in 1..N : pos[i] \in Q
      /\ \A y \in Q : Rank(Q, y) + 1 \in 1..N /\ pos[Rank(Q, y) + 1] = y
  BY QueriedPlace
<1>5. /\ M \in Nat /\ DOMAIN leaves = 1..M
      /\ \A c \in 1..M : leaves[c] \in L /\ Rank(L, leaves[c]) = c - 1
  BY <1>2, SortedValue
<1>6. N \div s = M
  BY CosetsCount
<1>7. 1 \in 1..N
  <2>1. PICK j \in L : TRUE
    OBVIOUS
  <2>2. j \in Q
    BY FirstPosition
  <2> DEFINE k == Rank(Q, j) + 1
  <2>3. k \in 1..N
    BY <1>4, <2>2
  <2> HIDE DEF k
  <2> QED BY <1>2, <2>3
<1>8. Len(values[1]) = w
  <2> DEFINE S == {vectors[o][pos[1]] : o \in 1..w}
             v == values[1]
  <2>1. v = [o \in 1..w |-> vectors[o][pos[1]]]
    BY <1>4, <1>7
  <2>2. \A o \in 1..w : vectors[o][pos[1]] \in S
    OBVIOUS
  <2> HIDE DEF v, S
  <2>3. v \in [1..w -> S]
    BY <2>1, <2>2
  <2>4. Len(v) = w
    BY <2>3, FunctionIsSeq
  <2> QED BY <2>4 DEF v
<1>9. R = [c \in 1..(Len(pos) \div s) |->
             [n \in 0..(Len(values[1]) * s - 1) |-> values[place(c, n)][n \div s + 1]]]
  BY Zenon DEF SerializedByCoset
<1>10. R = [c \in 1..M |-> [n \in 0..((w * s) - 1) |-> values[place(c, n)][(n \div s) + 1]]]
  <2> HIDE DEF values, pos, place, R, M
  <2> QED BY <1>4, <1>6, <1>8, <1>9
<1>11. ASSUME NEW c
       PROVE  LeafContents(vectors, d, s, leaves[c])
                = [n \in 0..((w * s) - 1) |->
                     vectors[(n \div s) + 1][PositionByCosetIndices(d, leaves[c], n % s, s)]]
  BY DEF LeafContents
<1> HIDE DEF R
<1>12. ASSUME NEW c \in 1..M, NEW n \in 0..((w * s) - 1)
       PROVE  values[place(c, n)][(n \div s) + 1]
                = vectors[(n \div s) + 1][PositionByCosetIndices(d, leaves[c], n % s, s)]
  <2> DEFINE o == (n \div s) + 1
             k == n % s
             l == leaves[c]
             y == PositionByCosetIndices(d, l, k, s)
             i == place(c, n)
             G(m) == /\ m \in 1..N
                     /\ ColumnOf(pos, d, s, m) = c - 1
                     /\ Cardinality({a \in 1..(m - 1) :
                                       ColumnOf(pos, d, s, a) = ColumnOf(pos, d, s, m)}) = k
  <2>1. o \in 1..w /\ k \in 0..(s - 1)
    BY <1>1, EntryBound
  <2>2. l \in L /\ Rank(L, l) = c - 1 /\ l \in 0..(NumCosets(d, s) - 1)
    BY <1>1, <1>5
  <2>3. ASSUME NEW m \in 1..N
        PROVE  /\ ColumnOf(pos, d, s, m) = Rank(L, CosetIndex(d, pos[m], s))
               /\ Cardinality({a \in 1..(m - 1) :
                                 ColumnOf(pos, d, s, a) = ColumnOf(pos, d, s, m)})
                    = IntraCosetIndex(d, pos[m], s)
               /\ pos[m] \in Q
    <3> HIDE DEF pos
    <3>1. ColumnOf(pos, d, s, m) = Rank(L, CosetIndex(d, pos[m], s))
      BY <1>3, ColumnValue
    <3>2. Cardinality({a \in 1..(m - 1) :
                         ColumnOf(pos, d, s, a) = ColumnOf(pos, d, s, m)})
            = IntraCosetIndex(d, pos[m], s)
      BY <1>3, EntryValue
    <3> QED BY <1>4, <3>1, <3>2
  <2>4. i = CHOOSE m \in DOMAIN pos : G(m)
    <3> HIDE DEF pos
    <3>1. \A m \in DOMAIN pos : m \in 1..N
      BY <1>4
    <3> QED BY <3>1
  <2> HIDE DEF o, k, l, i
  <2>5. y \in Q /\ CosetIndex(d, y, s) = l /\ IntraCosetIndex(d, y, s) = k
    <3>1. /\ y \in 0..(d.order - 1) /\ CosetIndex(d, y, s) = l
          /\ IntraCosetIndex(d, y, s) = k
      BY <1>1, <2>1, <2>2, CosetPosition
    <3> QED BY <1>2, <2>2, <3>1
  <2>6. \E m \in 1..N : G(m)
    <3> DEFINE m == Rank(Q, y) + 1
    <3>1. m \in 1..N /\ pos[m] = y
      BY <1>4, <2>5
    <3> HIDE DEF m, pos
    <3> QED BY <2>2, <2>3, <2>5, <3>1
  <2>7. G(i)
    <3> HIDE DEF G, pos
    <3> QED BY <1>4, <2>4, <2>6
  <2>8. i \in 1..N /\ pos[i] \in Q /\ Rank(L, CosetIndex(d, pos[i], s)) = c - 1
        /\ IntraCosetIndex(d, pos[i], s) = k
    <3> HIDE DEF pos
    <3> QED BY <2>3, <2>7
  <2>9. pos[i] = y
    <3> DEFINE z == pos[i]
               b == CosetIndex(d, z, s)
    <3>1. b \in L /\ Rank(L, b) = Rank(L, l) /\ z \in 0..(d.order - 1)
      BY <1>2, <2>2, <2>8
    <3>2. /\ IntraCosetIndex(d, z, s) = k
          /\ z = PositionByCosetIndices(d, b, IntraCosetIndex(d, z, s), s)
      BY <1>1, <2>8, <3>1, PositionInCoset
    <3> HIDE DEF b, z
    <3>3. b = l
      BY <1>2, <2>2, <3>1, RankUnique
    <3> QED BY <3>2, <3>3 DEF z
  <2>10. values[i][o] = vectors[o][pos[i]]
    BY <1>4, <2>1, <2>8
  <2> QED BY <2>9, <2>10 DEF i, o, k, l
<1>13. R = T
  <2> DEFINE U(c) == [n \in 0..((w * s) - 1) |-> values[place(c, n)][(n \div s) + 1]]
  <2>1. ASSUME NEW c \in 1..M PROVE U(c) = LeafContents(vectors, d, s, leaves[c])
    <3> DEFINE V(n) == values[place(c, n)][(n \div s) + 1]
               W(n) == vectors[(n \div s) + 1][PositionByCosetIndices(d, leaves[c], n % s, s)]
               B == 0..((w * s) - 1)
    <3>1. ASSUME NEW n \in B PROVE V(n) = W(n)
      BY <1>12
    <3>2. U(c) = [n \in B |-> V(n)]
      OBVIOUS
    <3>3. LeafContents(vectors, d, s, leaves[c]) = [n \in B |-> W(n)]
      BY <1>11
    <3> HIDE DEF V, W, B, U, leaves
    <3> QED BY <3>1, <3>2, <3>3
  <2>2. R = [c \in 1..M |-> U(c)]
    BY <1>10
  <2>3. T = [c \in 1..M |-> LeafContents(vectors, d, s, leaves[c])]
    BY <1>5
  <2> HIDE DEF U, leaves, M, T
  <2> QED BY <2>1, <2>2, <2>3
<1>14. {MerkleTreePosition(p, d, s) : p \in Q} = L
  BY CosetsLeaves
<1> QED BY <1>13, <1>14, Zenon DEF LeavesFit, R

\* The oracles of a round are a sequence.
LEMMA RoundOraclesType ==
  ASSUME ReductionsOver, NEW i \in Reductions
  PROVE  \E w \in Nat : Len(RoundOracles(i)) = w /\ DOMAIN RoundOracles(i) = 1..w
<1>1. CASE i = 0
  <2>1. Len(RoundOracles(i)) = 1 /\ DOMAIN RoundOracles(i) = 1..1
    BY <1>1 DEF RoundOracles
  <2> QED BY <2>1
<1>2. CASE i # 0
  <2> DEFINE r == InteractiveRepetitions
             n == i + 1
             f == codewords[n]
  <2>1. r \in Nat
    BY FriAssumption
  <2>2. n \in 1..(Len(challenges) + 1)
    <3>1. Len(challenges) = num_reductions
      BY DEF ReductionsOver
    <3>2. i \in Nat /\ i < num_reductions /\ num_reductions \in Nat
      BY DomainsEquation DEF Reductions
    <3> QED BY <3>1, <3>2
  <2> HIDE DEF n
  <2>3. IsSequence(f, r)
    BY <2>2 DEF ReductionsOver, FriInv, ReductionsInv
  <2>4. RoundOracles(i) = f
    BY <1>2 DEF RoundOracles, n
  <2> HIDE DEF f, r
  <2>5. Len(f) = r
    BY <2>1, <2>3, SequenceAppended
  <2>6. DOMAIN f = 1..r
    BY <2>3 DEF IsSequence
  <2> QED BY <2>1, <2>4, <2>5, <2>6
<1> QED BY <1>1, <1>2

\* Whatever is drawn, the leaves that the verifier rebuilds are those of the trees.
LEMMA TranscriptFits ==
  ASSUME ReductionsOver, NEW s0s \in [1..QueryRepetitions -> 0..(CodewordDomain.order - 1)]
  PROVE  TranscriptIsValid(s0s)
<1> SUFFICES ASSUME NEW i \in Reductions
             PROVE  LeavesFit(RoundOracles(i),
                              UNION {{QueryPositions(s0s[q])[i][k] : k \in 0..(LocalizerDegree(i) - 1)}
                                     : q \in DOMAIN s0s},
                              domains[i], LocalizerDegree(i))
  BY DEF TranscriptIsValid
<1> DEFINE d == domains[i]
           s == LocalizerDegree(i)
           D == 1..QueryRepetitions
           r(q) == SiIndex(s0s[q])[i + 1]
           L == {r(q) : q \in D}
           Q == UNION {{QueryPositions(s0s[q])[i][k] : k \in 0..(s - 1)} : q \in DOMAIN s0s}
           N == Cardinality(Q)
           at(j, k) == PositionByCosetIndices(d, j, k, s)
<1>1. CutInto(d, s) /\ i + 1 \in 0..num_reductions /\ domains[i + 1].order = NumCosets(d, s)
  BY ReductionOrders
<1>2. DOMAIN s0s = D /\ 1 \in D
  BY FriAssumption
<1>3. ASSUME NEW q \in D
      PROVE  /\ r(q) \in 0..(NumCosets(d, s) - 1)
             /\ \A k \in 0..(s - 1) : QueryPositions(s0s[q])[i][k] = at(r(q), k)
  <2>1. s0s[q] \in 0..(CodewordDomain.order - 1)
    OBVIOUS
  <2>2. r(q) \in 0..(NumCosets(d, s) - 1)
    BY <1>1, <2>1, SiValue
  <2>3. QueryPositions(s0s[q])[i] = CosetPositions(i, r(q))
    BY <2>1, QueryPositionsValue
  <2>4. \A k \in 0..(s - 1) : CosetPositions(i, r(q))[k] = at(r(q), k)
    BY DEF CosetPositions
  <2> QED BY <2>2, <2>3, <2>4
<1>4. Q = {at(j, k) : j \in L, k \in 0..(s - 1)}
  <2> DEFINE S == 0..(s - 1)
             f(q, k) == QueryPositions(s0s[q])[i][k]
  <2>1. ASSUME NEW q \in D, NEW k \in S PROVE f(q, k) = at(r(q), k)
    BY <1>3
  <2>2. Q = UNION {{f(q, k) : k \in S} : q \in D}
    BY <1>2
  <2> HIDE DEF f, S, D, at, r, Q
  <2>3. ASSUME NEW y \in Q PROVE \E j \in L, k \in S : y = at(j, k)
    <3>1. PICK q \in D, k \in S : y = f(q, k)
      BY <2>2, <2>3
    <3>2. y = at(r(q), k) /\ r(q) \in L
      BY <2>1, <3>1
    <3> QED BY <3>2
  <2>4. ASSUME NEW j \in L, NEW k \in S PROVE at(j, k) \in Q
    <3>1. PICK q \in D : j = r(q)
      OBVIOUS
    <3>2. at(j, k) = f(q, k)
      BY <2>1, <3>1
    <3> QED BY <2>2, <3>2
  <2>5. Q = {at(j, k) : j \in L, k \in S}
    <3> HIDE DEF L
    <3> QED BY <2>3, <2>4
  <2> QED BY <2>5 DEF S
<1>5. Q = Cosets(d, s, L)
  <2> HIDE DEF Q, L
  <2> QED BY <1>4 DEF Cosets
<1>6. L \in SUBSET (0..(NumCosets(d, s) - 1)) /\ L # {}
  <2> HIDE DEF r, D
  <2> QED BY <1>2, <1>3
<1>7. N = Cardinality(Q)
  OBVIOUS
<1> HIDE DEF N, Q, L, d, s
<1>8. QueriesCosets(d, s, L, Q, N)
  BY <1>1, <1>5, <1>6, <1>7 DEF QueriesCosets
<1>9. PICK w \in Nat : Len(RoundOracles(i)) = w /\ DOMAIN RoundOracles(i) = 1..w
  BY RoundOraclesType
<1> DEFINE vectors == RoundOracles(i)
<1>10. Len(vectors) = w /\ DOMAIN vectors = 1..w
  BY <1>9
<1> HIDE DEF vectors
<1>11. LeavesFit(vectors, Q, d, s)
  BY <1>6, <1>8, <1>10, WholeCosetsFit
<1> QED BY <1>11 DEF vectors, Q, d, s

-----------------------------------------------------------------------------
(***************************************************************************)
(* The degree bound of the polynomial that is sent.                        *)
(***************************************************************************)
\* What defines the degree bounds of the reductions.
BoundPath(f) ==
  f = [i \in 0..num_reductions |->
         IF i = 0 THEN PolyDegreeBound ELSE f[i - 1] \div LocalizerDegree(i - 1)]

\* The bound of the polynomial that is sent is a number.
LEMMA FinalBoundType == final_polynomial_degree_bound \in Nat
<1> DEFINE n == num_reductions
           step == [k \in 1..n |-> [y \in Nat |-> y \div LocalizerDegree(k - 1)]]
<1>1. n \in Nat /\ n \in 0..n /\ PolyDegreeBound \in Nat
  BY DomainsEquation, FriAssumption
<1>2. ASSUME NEW k \in 1..n, NEW y \in Nat
      PROVE  y \div LocalizerDegree(k - 1) \in Nat
  <2> DEFINE i == k - 1
             s == LocalizerDegree(i)
  <2>1. i \in Reductions
    BY <1>1 DEF Reductions
  <2>2. s \in Nat \ {0}
    BY <2>1, FriAssumption
  <2> HIDE DEF s
  <2>3. y \div s \in Nat
    BY <2>2, DivisionType
  <2> QED BY <2>3 DEF s
<1>3. step \in [1..n -> [Nat -> Nat]]
  BY <1>2
<1> HIDE DEF step
<1>4. PICK f \in [0..n -> Nat] : Stepwise(n, PolyDegreeBound, step, f)
  BY <1>1, <1>3, RecursionExists
<1>5. \A i \in 0..n : f[i] = IF i = 0 THEN PolyDegreeBound ELSE step[i][f[i - 1]]
  BY <1>4, Zenon DEF Stepwise
<1>6. ASSUME NEW i \in 0..n
      PROVE  f[i] = IF i = 0 THEN PolyDegreeBound ELSE f[i - 1] \div LocalizerDegree(i - 1)
  <2>1. CASE i = 0
    BY <1>5, <2>1
  <2>2. CASE i # 0
    <3>1. i \in 1..n /\ i - 1 \in 0..n
      BY <1>1, <2>2
    <3>2. f[i - 1] \in Nat
      BY <1>4, <3>1
    <3>3. step[i][f[i - 1]] = f[i - 1] \div LocalizerDegree(i - 1)
      BY <3>1, <3>2 DEF step
    <3> QED BY <1>5, <2>2, <3>3
  <2> QED BY <2>1, <2>2
<1>7. f = [i \in 0..n |-> f[i]]
  BY <1>4
<1>8. BoundPath(f)
  BY <1>6, <1>7, Zenon DEF BoundPath
<1> DEFINE b == CHOOSE g : BoundPath(g)
<1>9. final_polynomial_degree_bound = b[n]
  BY Zenon DEF final_polynomial_degree_bound, BoundPath
<1>10. BoundPath(b)
  BY <1>8
<1> HIDE DEF b
<1>11. \A i \in 0..n : b[i] = IF i = 0 THEN PolyDegreeBound
                              ELSE b[i - 1] \div LocalizerDegree(i - 1)
  BY <1>10, Zenon DEF BoundPath
<1> DEFINE Q == {k \in Nat : k <= n => b[k] \in Nat}
<1>12. 0 \in Q
  BY <1>1, <1>11
<1>13. ASSUME NEW k \in Nat, k \in Q PROVE k + 1 \in Q
  <2> DEFINE m == k + 1
  <2>1. m \in Nat /\ m - 1 = k /\ m # 0
    OBVIOUS
  <2>2. SUFFICES ASSUME m <= n PROVE b[m] \in Nat
    BY <2>1
  <2>3. m \in 1..n /\ m \in 0..n /\ k <= n
    BY <1>1, <2>2
  <2> HIDE DEF m
  <2>4. b[k] \in Nat
    BY <1>13, <2>3
  <2>5. b[m] = b[m - 1] \div LocalizerDegree(m - 1)
    BY <1>11, <2>1, <2>3
  <2>6. b[m - 1] \in Nat
    BY <2>1, <2>4
  <2> QED BY <1>2, <2>3, <2>5, <2>6
<1> HIDE DEF Q
<1>14. Nat \subseteq Q
  BY <1>12, <1>13, NatSetInduction
<1>15. b[n] \in Nat
  BY <1>1, <1>14 DEF Q
<1> QED BY <1>9, <1>15

\* How many times the last domain goes into the domain of a reduction.
Fold(i) == domains[i].order \div domains[num_reductions].order

\* Every domain is a multiple of the last one.
LEMMA OrdersDivide ==
  ASSUME NEW i \in 0..num_reductions
  PROVE  /\ Fold(i) \in Nat \ {0} /\ domains[i].order = Fold(i) ** domains[num_reductions].order
         /\ domains[num_reductions].order \in Nat \ {0}
<1> DEFINE n == num_reductions
           o == domains[n].order
           Q == {k \in Nat : k <= n => \E K \in Nat \ {0} : domains[n - k].order = K ** o}
<1>1. n \in Nat /\ n \in 0..n /\ n - 0 = n
  BY DomainsEquation
<1>2. o \in Nat \ {0}
  BY <1>1, DomainsType DEF Domain, Divisor
<1>3. 0 \in Q
  <2>1. domains[n - 0].order = o
    BY <1>1
  <2>2. o = 1 ** o
    BY <1>2, SumAndProduct
  <2> QED BY <2>1, <2>2
<1>4. ASSUME NEW k \in Nat, k \in Q PROVE k + 1 \in Q
  <2> DEFINE l == n - (k + 1)
             m == n - k
             s == LocalizerDegree(l)
  <2>1. SUFFICES ASSUME k + 1 <= n PROVE \E K \in Nat \ {0} : domains[l].order = K ** o
    OBVIOUS
  <2>2. l \in Reductions /\ m = l + 1 /\ k <= n
    BY <1>1, <2>1 DEF Reductions
  <2>3. PICK K \in Nat \ {0} : domains[m].order = K ** o
    BY <1>4, <2>2
  <2> HIDE DEF l, m
  <2>4. domains[l].order = s ** domains[m].order /\ s \in Nat \ {0}
    BY <2>2, ReductionOrders DEF **
  <2> HIDE DEF s, o
  <2>5. s ** (K ** o) = (s ** K) ** o
    BY <1>2, <2>3, <2>4, ThreeNumbers
  <2>6. s ** K \in Nat \ {0}
    BY <2>3, <2>4 DEF **
  <2> QED BY <2>3, <2>4, <2>5, <2>6
<1> HIDE DEF Q
<1>5. Nat \subseteq Q
  BY <1>3, <1>4, NatSetInduction
<1>6. \E K \in Nat \ {0} : domains[i].order = K ** o
  <2> DEFINE k == n - i
  <2>1. k \in Nat /\ k <= n /\ n - k = i
    BY <1>1
  <2> HIDE DEF k
  <2>2. k \in Q
    BY <1>5, <2>1
  <2> HIDE DEF o
  <2> QED BY <2>1, <2>2 DEF Q
<1>7. PICK K \in Nat \ {0} : domains[i].order = K ** o
  BY <1>6
<1> DEFINE N == domains[i].order
<1>8. Fold(i) = N \div o
  BY DEF Fold
<1> HIDE DEF o
<1>9. N \div o = K
  <2>1. 0 \in 0..(o - 1)
    BY <1>2
  <2>2. N = (K ** o) ++ 0
    BY <1>2, <1>7, NatProduct, SumAndProduct
  <2> HIDE DEF N
  <2> QED BY <1>2, <1>7, <2>1, <2>2, QuotientUnique
<1> QED BY <1>2, <1>7, <1>8, <1>9 DEF o

\* The degree bound of the polynomial of reduction i.
BoundAt(i) == final_polynomial_degree_bound ** Fold(i)

\* A reduction divides the bound; the last is that of the polynomial that is sent, which fits the
\* last domain.
LEMMA BoundsDivide ==
  /\ BoundAt(0) = PolyDegreeBound
  /\ BoundAt(num_reductions) = final_polynomial_degree_bound
  /\ final_polynomial_degree_bound \in Nat
  /\ final_polynomial_degree_bound <= domains[num_reductions].order
<1> DEFINE n == num_reductions
           B == final_polynomial_degree_bound
           o == domains[n].order
           N == domains[0].order
           K == Fold(0)
<1>1. n \in Nat /\ n \in 0..n /\ 0 \in 0..n /\ domains[0] = CodewordDomain
  BY DomainsEquation
<1>2. B \in Nat
  BY FinalBoundType
<1>3. K \in Nat \ {0} /\ N = K ** o /\ o \in Nat \ {0}
  BY <1>1, OrdersDivide
<1>4. BoundAt(0) = PolyDegreeBound
  BY <1>1, FriAssumption DEF BoundAt, Fold, **
<1>5. BoundAt(n) = B
  <2>1. Fold(n) = 1
    <3>1. o \div o = 1
      BY <1>3
    <3> QED BY <3>1 DEF Fold
  <2> QED BY <1>2, <2>1, SumAndProduct DEF BoundAt
<1>6. B ** K < K ** o
  BY <1>1, <1>3, <1>4, FriAssumption DEF BoundAt
<1> HIDE DEF B, K, o
<1>7. B < o
  <2>1. SUFFICES ASSUME o <= B PROVE FALSE
    BY <1>2, <1>3
  <2>2. K * o <= K * B
    BY <1>2, <1>3, <2>1
  <2>3. B ** K = K * B /\ K ** o = K * o
    BY <1>2, <1>3 DEF **
  <2>4. K * o \in Nat /\ K * B \in Nat
    BY <1>2, <1>3
  <2> QED BY <1>6, <2>2, <2>3, <2>4
<1>8. B <= o
  BY <1>2, <1>3, <1>7
<1> QED BY <1>2, <1>4, <1>5, <1>8 DEF B, o

\* The bounds of two reductions that follow each other.
LEMMA BoundNext ==
  ASSUME NEW i \in Reductions, NEW m, m = i + 1
  PROVE  BoundAt(i) = LocalizerDegree(i) ** BoundAt(m) /\ BoundAt(m) \in Nat
<1> DEFINE B == final_polynomial_degree_bound
           o == domains[num_reductions].order
           s == LocalizerDegree(i)
           K == Fold(i)
           M == Fold(m)
<1>1. i \in 0..num_reductions /\ m \in 0..num_reductions /\ s \in Nat \ {0}
      /\ domains[i].order = s ** domains[m].order
  BY ReductionOrders DEF **
<1>2. B \in Nat
  BY FinalBoundType
<1>3. K \in Nat \ {0} /\ M \in Nat \ {0} /\ o \in Nat \ {0}
      /\ domains[i].order = K ** o /\ domains[m].order = M ** o
  BY <1>1, OrdersDivide
<1> HIDE DEF B, o, s, K, M
<1>4. K ** o = (s ** M) ** o
  <2>1. K ** o = s ** (M ** o)
    BY <1>1, <1>3
  <2>2. s ** (M ** o) = (s ** M) ** o
    BY <1>1, <1>3, ThreeNumbers
  <2> QED BY <2>1, <2>2
<1>5. K = s ** M
  <2> DEFINE u == s ** M
  <2>1. u \in Nat
    BY <1>1, <1>3, NatProduct
  <2> HIDE DEF u
  <2>2. K * o = u * o
    BY <1>4 DEF **, u
  <2>3. K = u
    BY <1>3, <2>1, <2>2
  <2> QED BY <2>3 DEF u
<1>6. B ** (s ** M) = s ** (B ** M)
  <2>1. B ** (s ** M) = (B ** s) ** M /\ s ** (B ** M) = (s ** B) ** M
    BY <1>1, <1>2, <1>3, ThreeNumbers
  <2>2. B ** s = s ** B
    BY <1>1, <1>2, SumAndProduct
  <2> QED BY <2>1, <2>2
<1>7. B ** M \in Nat
  BY <1>2, <1>3, NatProduct
<1> QED BY <1>5, <1>6, <1>7 DEF BoundAt, B, s, K, M

\* Folding divides the degree bound as well: beyond it, all that is gathered is 0.
LEMMA LowDegreeFolds ==
  ASSUME NEW c, Polynomial(c, P), NEW s, Divisor(s), NEW x \in Field,
         NEW E \in Nat, NEW N, N = s ** E, LowDegree(c, N)
  PROVE  LowDegree(FoldedCoefficients(c, s, x), E)
<1> DEFINE b == FoldedCoefficients(c, s, x)
           L == Len(c)
           B == Groups(L, s)
           F(n) == [k \in {k \in 0..(s - 1) : (n - 1) * s + k < L} |->
                      c[(n - 1) * s + k + 1] * Power[x][k]]
<1>1. c \in Seq(Field) /\ L \in Nat /\ DOMAIN c = 1..L
  BY PolynomialType DEF Polynomial
<1>2. s \in Nat \ {0} /\ s < P /\ P \in Nat /\ P > 0 /\ x \in Nat
  BY DivisorQuotient, FieldPrime, FieldType
<1>3. b = [n \in 1..B |-> Total(F(n))] /\ B \in Nat
  <2>1. b = [n \in 1..B |-> Total(F(n))]
    BY DEF FoldedCoefficients, Groups
  <2>2. b \in Seq(Field) /\ Len(b) = B
    BY FoldedType
  <2> HIDE DEF b, B
  <2>3. Len(b) \in Nat
    BY <2>2
  <2> QED BY <2>1, <2>2, <2>3
<1>4. ASSUME NEW n \in DOMAIN c, n > N PROVE c[n] = 0
  BY <1>4 DEF LowDegree
<1> HIDE DEF b, B
<1>5. ASSUME NEW m \in DOMAIN b, m > E PROVE b[m] = 0
  <2> DEFINE f == F(m)
             G == {k \in 0..(s - 1) : (m - 1) * s + k < L}
  <2>1. b[m] = Total(f) /\ m \in Nat /\ m \in 1..B
    BY <1>3, <1>5
  <2>2. DOMAIN f = G
    OBVIOUS
  <2>3. IsFiniteSet(G)
    <3>1. 0 \in Int /\ s - 1 \in Int
      BY <1>2
    <3>2. IsFiniteSet(0..(s - 1))
      BY <3>1, FS_Interval
    <3>3. G \subseteq 0..(s - 1)
      OBVIOUS
    <3> HIDE DEF G
    <3> QED BY <3>2, <3>3, FS_Subset
  <2>4. ASSUME NEW k \in G PROVE f[k] = 0
    <3> DEFINE i == ((m - 1) * s) + k + 1
               q == m - 1
    <3>1. k \in 0..(s - 1) /\ ((m - 1) * s) + k < L
      OBVIOUS
    <3>2. q \in Nat /\ E <= q
      BY <1>5, <2>1
    <3>3. q * s \in Nat /\ s * E <= q * s
      <4> HIDE DEF q
      <4>1. q * s \in Nat
        BY <1>2, <3>2
      <4>2. E * s <= q * s
        BY <1>2, <3>2
      <4>3. s * E = E * s
        BY <1>2
      <4> QED BY <4>1, <4>2, <4>3
    <3>4. N = s * E
      BY DEF **
    <3>5. i \in 1..L /\ i > N
      <4>1. i = (q * s) + k + 1
        OBVIOUS
      <4>2. k \in Nat /\ (q * s) + k < L
        BY <3>1, <1>2
      <4>3. N \in Nat
        BY <1>2, <3>4
      <4> HIDE DEF q, i
      <4> QED BY <1>1, <3>3, <3>4, <4>1, <4>2, <4>3
    <3>6. f[k] = c[i] * Power[x][k]
      OBVIOUS
    <3> HIDE DEF f, i
    <3>7. c[i] = 0
      BY <1>1, <1>4, <3>5
    <3>8. k \in 0..P
      BY <1>2, <3>1
    <3>9. Power[x][k] \in Nat
      BY <3>8, PowerValue
    <3> QED BY <3>6, <3>7, <3>9
  <2> HIDE DEF f, G
  <2>5. Total(f) = Res(P, Sum(f, G))
    BY <2>2, TotalValue
  <2>6. Sum(f, G) = 0
    BY <2>3, <2>4, SumZeros
  <2>7. Res(P, 0) = 0
    BY <1>2, ResSmall
  <2> QED BY <2>1, <2>5, <2>6, <2>7
<1>6. LowDegree(b, E)
  BY <1>5 DEF LowDegree
<1> QED BY <1>6 DEF b

\* So a polynomial below the degree bound is folded to one below the final degree bound.
LEMMA FinalDegree ==
  ASSUME ReductionsOver, NEW j \in Interactions, LowDegree(coefficients, PolyDegreeBound)
  PROVE  LowDegree(PolynomialAt(j, num_reductions), final_polynomial_degree_bound)
<1> DEFINE n == num_reductions
           Q == {k \in Nat : k <= n => LowDegree(PolynomialAt(j, k), BoundAt(k))}
<1>1. n \in Nat
  BY DomainsEquation
<1>2. 0 \in Q
  <2>1. PolynomialAt(j, 0) = coefficients
    BY FoldsToFirst DEF PolynomialAt
  <2> QED BY <2>1, BoundsDivide
<1>3. ASSUME NEW k \in Nat, k \in Q PROVE k + 1 \in Q
  <2> DEFINE m == k + 1
             s == LocalizerDegree(k)
             x == challenges[m][j]
             c == PolynomialAt(j, k)
             E == BoundAt(m)
             N == BoundAt(k)
  <2>1. SUFFICES ASSUME m <= n PROVE LowDegree(PolynomialAt(j, m), E)
    OBVIOUS
  <2>2. k \in Reductions /\ k <= n /\ m = k + 1 /\ m \in Nat
    BY <1>1, <2>1 DEF Reductions
  <2>3. LowDegree(c, N)
    BY <1>3, <2>2
  <2>4. x \in Field
    BY <2>2, ChallengeAt
  <2> HIDE DEF m
  <2>5. N = s ** E /\ E \in Nat
    BY <2>2, BoundNext
  <2>6. PolynomialAt(j, m) = FoldedCoefficients(c, s, x)
    BY <2>2, FoldsToNext DEF PolynomialAt
  <2>7. Divisor(s)
    BY <2>2, ReductionOrders
  <2>8. Polynomial(c, P)
    <3>1. k \in 0..n
      BY <1>1, <2>2
    <3> QED BY <3>1, PolynomialAtType
  <2> HIDE DEF s, x, c, E, N
  <2>9. LowDegree(FoldedCoefficients(c, s, x), E)
    BY <2>3, <2>4, <2>5, <2>7, <2>8, LowDegreeFolds
  <2> QED BY <2>6, <2>9
<1> HIDE DEF Q
<1>4. Nat \subseteq Q
  BY <1>2, <1>3, NatSetInduction
<1>5. LowDegree(PolynomialAt(j, n), BoundAt(n))
  BY <1>1, <1>4 DEF Q
<1> QED BY <1>5, BoundsDivide

-----------------------------------------------------------------------------
(***************************************************************************)
(* The polynomial that is sent.                                            *)
(***************************************************************************)
\* e lists the inverses of the j-th powers of the elements of the subgroup of order s.
PowerInverted(s, j, e) ==
  e = [k \in 0..(s - 1) |-> Inverted[Power[Power[RootOfUnity(s)][k]][j]]]

\* They are.
LEMMA PowerInvertedValue ==
  ASSUME NEW s, Divisor(s), NEW j \in 0..(s - 1), NEW e, PowerInverted(s, j, e)
  PROVE  PowerInverses(P, RootOfUnity(s), s, j, e)
<1> DEFINE w == RootOfUnity(s)
<1>1. w \in Field /\ w \in Nat /\ HasOrder(P, w, s)
  BY RootValue
<1>2. s \in Nat \ {0} /\ s < P /\ P \in Nat /\ P > 0 /\ IsPrime(P) /\ j \in Nat /\ j \in 0..P
  BY DivisorQuotient, FieldPrime
<1>3. \A k \in 0..(s - 1) : e[k] = Inverted[Power[Power[w][k]][j]]
  BY DEF PowerInverted
<1> HIDE DEF w
<1>4. Res(P, w) # 0
  BY <1>1, <1>2, OrderPower
<1>5. ASSUME NEW k \in 0..(s - 1)
      PROVE  e[k] \in Nat /\ Res(P, e[k] ** Pow(Pow(w)[k])[j]) = 1
  <2> DEFINE y == Power[w][k]
             z == Power[y][j]
             u == Pow(w)[k]
             v == Pow(y)[j]
             V == Pow(u)[j]
             i == Inverted[z]
  <2>1. k \in Nat /\ k \in 0..P
    BY <1>2
  <2>2. y = Res(P, u) /\ y \in Field /\ y \in Nat /\ u \in Nat
    BY <1>1, <2>1, PowerValue, PowType
  <2>3. Res(P, u) # 0
    BY <1>1, <1>2, <1>4, <2>1, PowNotZero
  <2> HIDE DEF y, u
  <2>4. Res(P, y) = Res(P, u)
    BY <1>2, <2>2, ResRes
  <2>5. z = Res(P, v) /\ z \in Field /\ v \in Nat /\ V \in Nat
    BY <1>2, <2>2, PowerValue, PowType
  <2>6. Res(P, v) = Res(P, V)
    BY <1>2, <2>2, <2>4, ResPow
  <2>7. Res(P, v) # 0
    BY <1>2, <2>2, <2>3, <2>4, PowNotZero
  <2>8. e[k] = i
    BY <1>3 DEF y
  <2> HIDE DEF z, v, V
  <2>9. z \in Nat /\ z # 0
    BY <2>5, <2>7, FieldType
  <2>10. i \in Nat /\ Res(P, i ** z) = 1
    BY <2>5, <2>9, InvertedValue
  <2> HIDE DEF i
  <2>11. Res(P, z) = Res(P, V)
    BY <1>2, <2>5, <2>6, ResRes
  <2>12. Res(P, i ** z) = Res(P, i ** V)
    BY <1>2, <2>5, <2>9, <2>10, <2>11, ResTimesBoth
  <2>13. Res(P, i ** V) = 1
    BY <2>10, <2>12
  <2> QED BY <2>10, <2>13, <2>8 DEF V, u
<1>6. PowerInverses(P, w, s, j, e)
  BY <1>5 DEF PowerInverses
<1> QED BY <1>6 DEF w

\* The factor in front of a coefficient.
LEMMA InverseFactor ==
  ASSUME NEW s, Divisor(s), NEW h \in Field, h # 0, NEW j \in 0..(s - 1),
         NEW b, b = Inverted[(s * Power[h][j]) % P]
  PROVE  b \in Nat /\ Res(P, b ** (s ** Pow(h)[j])) = 1
<1> DEFINE q == Power[h][j]
           H == Pow(h)[j]
           z == Res(P, s ** q)
<1>1. s \in Nat \ {0} /\ s \in Nat /\ s < P /\ P \in Nat /\ P > 0 /\ IsPrime(P)
      /\ j \in Nat /\ j \in 0..P /\ h \in Nat /\ Res(P, h) = h
  BY DivisorQuotient, FieldPrime, FieldType
<1>2. q = Res(P, H) /\ q \in Nat /\ H \in Nat
  BY <1>1, PowerValue, PowType
<1>3. Res(P, H) # 0
  BY <1>1, PowNotZero
<1>4. b = Inverted[z]
  BY DEF **, Res
<1> HIDE DEF q, H, z
<1>5. Res(P, s) = s
  BY <1>1, ResSmall
<1>6. Res(P, q) = Res(P, H)
  BY <1>1, <1>2, ResRes
<1>7. Res(P, s ** q) = Res(P, s ** H)
  BY <1>1, <1>2, <1>6, ResTimesBoth
<1>8. Res(P, s ** H) # 0
  BY <1>1, <1>2, <1>3, <1>5, PrimeProduct
<1>9. s ** q \in Nat /\ s ** H \in Nat
  BY <1>1, <1>2, NatProduct
<1>10. z \in Field /\ z # 0 /\ Res(P, z) = Res(P, s ** q)
  BY <1>7, <1>8, <1>9, FieldRes DEF z
<1>11. b \in Nat /\ Res(P, b ** z) = 1 /\ z \in Nat
  BY <1>4, <1>10, InvertedValue, FieldType
<1>12. Res(P, z) = Res(P, s ** H)
  BY <1>7, <1>10
<1>13. Res(P, b ** z) = Res(P, b ** (s ** H))
  BY <1>1, <1>9, <1>11, <1>12, ResTimesBoth
<1> QED BY <1>11, <1>13 DEF H

\* The values of a polynomial on the whole domain are its values on one coset.
LEMMA WholeDomain ==
  ASSUME NEW c, NEW d, Domain(d)
  PROVE  OnCoset(c, d.order, d.shift, EvaluatedOver(c, d))
<1> DEFINE f == EvaluatedOver(c, d)
<1>1. ASSUME NEW k \in 0..(d.order - 1)
      PROVE  f[k] = Evaluation(c, Res(P, d.shift ** Pow(RootOfUnity(d.order))[k]))
  BY ElementValue, EvaluatedType
<1> HIDE DEF f
<1>2. OnCoset(c, d.order, d.shift, f)
  BY <1>1 DEF OnCoset
<1> QED BY <1>2 DEF f

\* The inverse transform gives the coefficients back, and 0 for those beyond the last.
LEMMA CoefficientsValue ==
  ASSUME NEW d, Domain(d), NEW c, Polynomial(c, P), Polynomial(c, d.order)
  PROVE  CoefficientsFrom(EvaluatedOver(c, d), d)
           = [n \in 1..d.order |-> IF n <= Len(c) THEN c[n] ELSE 0]
<1> DEFINE s == d.order
           h == d.shift
           w == RootOfUnity(s)
           f == EvaluatedOver(c, d)
           L == Len(c)
           S == 0..(s - 1)
           V(n) == (Inverted[(s * Power[h][n - 1]) % P]
                      * Total([i \in DOMAIN f |-> f[i] * Inverted[Power[Power[w][i]][n - 1]]])) % P
           W(n) == IF n <= L THEN c[n] ELSE 0
<1>1. Divisor(s) /\ h \in Field /\ h # 0 /\ h \in Nat
  BY FieldType DEF Domain
<1>2. s \in Nat \ {0} /\ s \in Nat /\ s < P /\ P \in Nat /\ P > 0 /\ IsPrime(P)
  BY <1>1, DivisorQuotient, FieldPrime
<1>3. HasOrder(P, w, s)
  BY <1>1, RootValue
<1>4. L \in Nat /\ L <= s /\ Coefficients(c, L) /\ \A n \in 1..L : c[n] \in Field
  BY PolynomialType DEF Polynomial
<1>5. OnCoset(c, s, h, f)
  BY WholeDomain
<1>6. DOMAIN f = S
  BY DEF EvaluatedOver
<1>7. CoefficientsFrom(f, d) = [n \in 1..s |-> V(n)]
  BY DEF CoefficientsFrom
<1>8. L = Len(c)
  OBVIOUS
<1> HIDE DEF s, h, f, L
<1>9. CosetValues(P, w, s, h, c, L, f)
  BY <1>1, <1>5, <1>8, OnCosetValues
<1>10. \A k \in S : f[k] \in Field
  BY <1>1, <1>5, <1>8, OnCosetValues
<1>11. ASSUME NEW n \in 1..s PROVE V(n) = W(n)
  <2> DEFINE j == n - 1
             e == [k \in S |-> Inverted[Power[Power[w][k]][j]]]
             t == [k \in S |-> f[k] * Inverted[Power[Power[w][k]][j]]]
             b == Inverted[(s * Power[h][j]) % P]
  <2>1. j \in S /\ j \in Nat
    BY <1>2
  <2>2. V(n) = (b * Total(t)) % P
    BY <1>6
  <2>3. PowerInverted(s, j, e)
    BY DEF PowerInverted
  <2>4. j = n - 1 /\ b = Inverted[(s * Power[h][j]) % P] /\ DOMAIN t = S
    OBVIOUS
  <2>5. \A k \in S : t[k] = f[k] ** e[k]
    BY DEF **
  <2> HIDE DEF j, e, t, b, w, V
  <2>6. PowerInverses(P, w, s, j, e)
    BY <1>1, <2>1, <2>3, PowerInvertedValue DEF w
  <2>7. b \in Nat /\ Res(P, b ** (s ** Pow(h)[j])) = 1
    BY <1>1, <2>1, <2>4, InverseFactor
  <2>8. \A k \in S : e[k] \in Nat
    BY <2>6 DEF PowerInverses
  <2>9. ASSUME NEW k \in S PROVE t[k] \in Nat /\ Res(P, t[k]) = Res(P, f[k] ** e[k])
    <3>1. f[k] \in Nat /\ e[k] \in Nat
      BY <1>10, <2>8, FieldType
    <3> QED BY <2>5, <3>1, NatProduct
  <2>10. InverseTerms(P, s, f, e, t)
    BY <2>9 DEF InverseTerms
  <2>11. Res(P, b ** Sum(t, S)) = IF n <= L THEN Res(P, c[n]) ELSE 0
    BY <1>1, <1>2, <1>3, <1>4, <1>9, <2>4, <2>6, <2>7, <2>10, Interpolates, SMTT(25)
  <2>12. IsFiniteSet(S)
    <3>1. 0 \in Int /\ s - 1 \in Int
      BY <1>2
    <3> QED BY <3>1, FS_Interval
  <2>13. Sum(t, S) \in Nat
    BY <2>9, <2>12, SumType
  <2> HIDE DEF S
  <2>14. Total(t) = Res(P, Sum(t, S))
    BY <2>4, TotalValue
  <2>15. Total(t) \in Nat /\ Res(P, Total(t)) = Res(P, Sum(t, S))
    BY <2>13, <2>14, FieldRes, FieldType
  <2>16. Res(P, b ** Total(t)) = Res(P, b ** Sum(t, S))
    BY <1>2, <2>7, <2>13, <2>15, ResTimesBoth
  <2>17. V(n) = Res(P, b ** Total(t))
    BY <2>2 DEF Res, **
  <2>18. n <= L => Res(P, c[n]) = c[n]
    <3> SUFFICES ASSUME n <= L PROVE Res(P, c[n]) = c[n]
      OBVIOUS
    <3>1. n \in 1..L
      BY <1>2, <1>4
    <3> QED BY <1>4, <3>1, FieldType
  <2> QED BY <2>11, <2>16, <2>17, <2>18
<1> HIDE DEF V, W
<1>12. [n \in 1..s |-> V(n)] = [n \in 1..s |-> W(n)]
  BY <1>11
<1>13. [n \in 1..s |-> W(n)] = [n \in 1..s |-> IF n <= L THEN c[n] ELSE 0]
  BY DEF W
<1> QED BY <1>7, <1>12, <1>13 DEF s, f, L

\* A sum over a set is that over a part of it, when what is left out are zeros.
LEMMA SumOfPart ==
  ASSUME NEW S, IsFiniteSet(S), NEW f, \A x \in S : f[x] \in Nat,
         NEW T \in SUBSET S, \A x \in S \ T : f[x] = 0
  PROVE  Sum(f, T) = Sum(f, S)
<1> DEFINE U == S \ T
<1>1. IsFiniteSet(T) /\ IsFiniteSet(U) /\ T \intersect U = {} /\ T \union U = S
  BY FS_Subset
<1>2. Sum(f, U) = 0
  BY <1>1, SumZeros
<1>3. \A x \in T \union U : f[x] \in Nat
  BY <1>1
<1> HIDE DEF U
<1>4. Sum(f, T \union U) = Sum(f, T) + Sum(f, U)
  BY <1>1, <1>3, SumUnion
<1>5. Sum(f, T) \in Nat
  BY <1>1, <1>3, SumType
<1>6. Sum(f, T) + Sum(f, U) = Sum(f, T)
  BY <1>2, <1>5
<1> QED BY <1>1, <1>4, <1>6

\* c are the coefficients of a, of which there are m, and zeros from there to N.
Padded(a, m, c, N) ==
  /\ a \in Seq(Field) /\ Len(a) = m /\ m \in Nat /\ m <= N
  /\ c \in [1..N -> Field]
  /\ \A n \in 1..m : a[n] = c[n]
  /\ \A n \in 1..N : n > m => c[n] = 0

\* The zeros do not change the value.
LEMMA PaddedValue ==
  ASSUME NEW N \in Nat, N <= P, NEW c, NEW x \in Field, NEW m, NEW a, Padded(a, m, c, N)
  PROVE  Evaluation(a, x) = Total([n \in 1..N |-> c[n] * Power[x][n - 1]])
<1> DEFINE S == 1..N
           T == 1..m
           f == [n \in S |-> c[n] * Power[x][n - 1]]
           g == [n \in T |-> a[n] * Power[x][n - 1]]
<1>1. /\ m \in Nat /\ m <= N /\ a \in Seq(Field) /\ Len(a) = m /\ c \in [1..N -> Field]
      /\ \A n \in 1..m : a[n] = c[n]
      /\ \A n \in 1..N : n > m => c[n] = 0
  BY DEF Padded
<1>2. DOMAIN a = T
  BY <1>1, SequenceType
<1>3. Evaluation(a, x) = Total(g)
  BY <1>2 DEF Evaluation
<1>4. T \subseteq S /\ IsFiniteSet(S) /\ IsFiniteSet(T)
  BY <1>1, FS_Interval, FS_Subset
<1>5. ASSUME NEW n \in S PROVE f[n] \in Nat /\ (n \notin T => f[n] = 0)
  <2>1. n - 1 \in 0..P /\ (n \notin T => n > m)
    BY <1>1, FieldPrime
  <2>2. Power[x][n - 1] \in Nat
    BY <2>1, PowerValue
  <2>3. c[n] \in Nat
    BY <1>1, FieldType
  <2>4. n \notin T => c[n] = 0
    BY <1>1, <2>1
  <2> QED BY <2>2, <2>3, <2>4
<1>6. \A n \in T : g[n] = f[n]
  BY <1>1, <1>4
<1>7. DOMAIN f = S /\ DOMAIN g = T
  OBVIOUS
<1> HIDE DEF S, T, f, g
<1>8. Sum(f, T) = Sum(f, S)
  BY <1>4, <1>5, SumOfPart
<1>9. Sum(g, T) = Sum(f, T)
  <2>1. \A n \in T : f[n] \in Nat /\ f[n] = g[n]
    BY <1>4, <1>5, <1>6
  <2> QED BY <1>4, <2>1, SumEqual
<1>10. Total(f) = Res(P, Sum(f, S)) /\ Total(g) = Res(P, Sum(g, T))
  BY <1>7, TotalValue
<1> QED BY <1>3, <1>8, <1>9, <1>10 DEF f, S

\* The polynomial that is sent has, when the degree is low, the values of the one that the last
\* codeword has.
LEMMA ResizedValue ==
  ASSUME NEW d, Domain(d), NEW c, Polynomial(c, P), Polynomial(c, d.order),
         final_polynomial_degree_bound \in Nat, final_polynomial_degree_bound <= d.order,
         LowDegree(c, final_polynomial_degree_bound), NEW x \in Field
  PROVE  Evaluation(Resized(CoefficientsFrom(EvaluatedOver(c, d), d)), x) = Evaluation(c, x)
<1> DEFINE s == d.order
           B == final_polynomial_degree_bound
           L == Len(c)
           C == [n \in 1..s |-> IF n <= L THEN c[n] ELSE 0]
           a == Resized(C)
<1>1. s \in Nat \ {0} /\ s \in Nat /\ s < P /\ s <= P
  BY DivisorQuotient, FieldPrime DEF Domain
<1>2. L \in Nat /\ L <= s /\ c \in Seq(Field) /\ DOMAIN c = 1..L /\ \A n \in 1..L : c[n] \in Field
  BY PolynomialType DEF Polynomial
<1>3. 0 \in Field
  BY FieldPrime DEF Field
<1>4. C \in [1..s -> Field]
  BY <1>2, <1>3
<1>5. C \in Seq(Field) /\ Len(C) = s
  BY <1>1, <1>4, FunctionIsSeq
<1>6. CoefficientsFrom(EvaluatedOver(c, d), d) = C
  BY CoefficientsValue
<1>7. B \in Nat /\ B <= s /\ \A n \in 1..L : n > B => c[n] = 0
  BY <1>2 DEF LowDegree
<1>8. \A n \in 1..s : C[n] = IF n <= L THEN c[n] ELSE 0
  OBVIOUS
<1>9. L = Len(c) /\ a = SubSeq(C, 1, B)
  BY DEF Resized
<1> HIDE DEF s, B, L, C
<1>10. /\ a = [i \in 1..B |-> C[0 + i]] /\ a \in Seq(Field) /\ Len(a) = B
  <2>1. 0 + B <= Len(C) /\ 0 \in Nat /\ 0 + 1 = 1 /\ 0 + B = B
    BY <1>5, <1>7
  <2>2. SubSeq(C, 0 + 1, 0 + B) = [i \in 1..B |-> C[0 + i]]
    BY <1>5, <1>7, <2>1, CutType
  <2>3. SubSeq(C, 0 + 1, 0 + B) \in Seq(Field)
    BY <1>5, <1>7, <2>1, CutType
  <2>4. Len(SubSeq(C, 0 + 1, 0 + B)) = B
    BY <1>5, <1>7, <2>1, CutType
  <2> QED BY <1>9, <2>1, <2>2, <2>3, <2>4
<1>11. \A n \in 1..B : a[n] = C[n]
  BY <1>7, <1>10
<1>12. ASSUME NEW n \in 1..s, n > B PROVE C[n] = 0
  <2>1. CASE n <= L
    <3>1. n \in 1..L
      BY <1>1, <1>2, <2>1
    <3> QED BY <1>7, <1>8, <1>12, <2>1, <3>1
  <2>2. CASE ~(n <= L)
    BY <1>8, <2>2
  <2> QED BY <2>1, <2>2
<1> HIDE DEF a
<1>13. Padded(a, B, C, s)
  BY <1>4, <1>7, <1>10, <1>11, <1>12 DEF Padded
<1>14. ASSUME NEW n \in 1..s, n > L PROVE C[n] = 0
  <2>1. ~(n <= L)
    BY <1>1, <1>2, <1>14
  <2> QED BY <1>8, <2>1
<1>15. ASSUME NEW n \in 1..L PROVE c[n] = C[n]
  <2>1. n \in 1..s /\ n <= L
    BY <1>1, <1>2
  <2> QED BY <1>8, <2>1
<1>16. Padded(c, L, C, s)
  BY <1>2, <1>4, <1>14, <1>15, <1>9 DEF Padded
<1>17. Evaluation(a, x) = Total([n \in 1..s |-> C[n] * Power[x][n - 1]])
  BY <1>1, <1>13, PaddedValue
<1>18. Evaluation(c, x) = Total([n \in 1..s |-> C[n] * Power[x][n - 1]])
  BY <1>1, <1>16, PaddedValue
<1> QED BY <1>6, <1>17, <1>18 DEF a

-----------------------------------------------------------------------------
(***************************************************************************)
(* The verdict.                                                            *)
(***************************************************************************)
\* The last codeword of interaction j is the polynomial fp[j] at the place that s0 leads to.
Agrees(cw, fp, j, s0) ==
  LET p == s0 % domains[num_reductions].order
  IN Evaluation(fp[j], ElementByIndex(domains[num_reductions], p)) = cw[num_reductions + 1][j][p]

\* It is at all places s0s.
AllAgree(cw, fp, s0s) == \A q \in DOMAIN s0s, j \in Interactions : Agrees(cw, fp, j, s0s[q])

\* No challenge is misread.
NoneMisread(ch) == \A j \in Interactions : AllReadWell(ch, j, num_reductions)

\* The polynomials that are sent.
FinalPolynomials(cw) ==
  [j \in Interactions |->
     Resized(CoefficientsFrom(cw[num_reductions + 1][j], domains[num_reductions]))]

\* The positions that may be drawn.
DrawnPositions == [1..QueryRepetitions -> 0..(CodewordDomain.order - 1)]

\* What is kept besides the invariant of the reductions: the polynomials are sent when these are
\* over, the transcript of every query is valid, and the decision is the one that goes by the last
\* codewords.
DecisionInv(cw, ch, fp, s0s, valid, verdict) ==
  /\ fp # << >> => Len(ch) = num_reductions /\ fp = FinalPolynomials(cw)
  /\ s0s # << >> => fp # << >> /\ s0s \in DrawnPositions /\ valid
  /\ verdict # "none" =>
       s0s # << >> /\ (NoneMisread(ch) => (verdict = "accepted" <=> AllAgree(cw, fp, s0s)))

VerdictInv ==
  /\ FriInv
  /\ DecisionInv(codewords, challenges, final_polynomials, s0_positions, transcript_is_valid,
                 decision)

\* At the beginning nothing is sent, drawn or decided.
LEMMA InitDecides == Init => VerdictInv
<1> SUFFICES ASSUME Init PROVE VerdictInv
  OBVIOUS
<1>1. final_polynomials = << >> /\ s0_positions = << >> /\ decision = "none"
  BY DEF Init
<1>2. DecisionInv(codewords, challenges, final_polynomials, s0_positions, transcript_is_valid,
                  decision)
  BY <1>1 DEF DecisionInv
<1> QED BY <1>2, InitFollows DEF VerdictInv

\* Two ways to say that no challenge is misread.
LEMMA NoneMisreadMeans ==
  NoneMisread(challenges) <=> \A j \in Interactions : ReadWell(j, num_reductions)
BY ReadWellMeans DEF NoneMisread

\* What the verifier decides, when it decides.
LEMMA DecisionValue ==
  ASSUME ReductionsOver, NoneMisread(challenges), s0_positions \in DrawnPositions
  PROVE  (\A q \in DOMAIN s0_positions, j \in Interactions :
            PredicateForQuerySet(j, s0_positions[q]))
           <=> AllAgree(codewords, final_polynomials, s0_positions)
<1>1. ASSUME NEW q \in DOMAIN s0_positions, NEW j \in Interactions
      PROVE  PredicateForQuerySet(j, s0_positions[q])
               <=> Agrees(codewords, final_polynomials, j, s0_positions[q])
  <2> DEFINE s0 == s0_positions[q]
             p == s0 % domains[num_reductions].order
  <2>1. s0 \in 0..(CodewordDomain.order - 1)
    BY DEF DrawnPositions
  <2>2. ReadWell(j, num_reductions)
    BY NoneMisreadMeans
  <2>3. p = s0 % domains[num_reductions].order
    OBVIOUS
  <2>4. Agrees(codewords, final_polynomials, j, s0)
          <=> Evaluation(final_polynomials[j], ElementByIndex(domains[num_reductions], p))
                = codewords[num_reductions + 1][j][p]
    BY DEF Agrees
  <2> HIDE DEF s0, p
  <2>5. PredicateForQuerySet(j, s0)
          <=> Evaluation(final_polynomials[j], ElementByIndex(domains[num_reductions], p))
                = codewords[num_reductions + 1][j][p]
    BY <2>1, <2>2, <2>3, PredicateValue
  <2> QED BY <2>4, <2>5 DEF s0
<1> QED BY <1>1, Zenon DEF AllAgree

\* Every step keeps the invariant.
LEMMA NextDecides == VerdictInv /\ [Next]_vars => VerdictInv'
<1> SUFFICES ASSUME VerdictInv, [Next]_vars PROVE VerdictInv'
  OBVIOUS
<1> DEFINE cw == codewords
           ch == challenges
           fp == final_polynomials
           s0s == s0_positions
           valid == transcript_is_valid
           verdict == decision
<1>1. FriInv'
  BY NextFollows DEF VerdictInv
<1>2. FriInv /\ DecisionInv(cw, ch, fp, s0s, valid, verdict)
  BY DEF VerdictInv
<1> SUFFICES DecisionInv(codewords', challenges', final_polynomials', s0_positions',
                         transcript_is_valid', decision')
  BY <1>1 DEF VerdictInv
<1>3. CASE Reduce
  <2>1. /\ Len(ch) < num_reductions
        /\ final_polynomials' = fp /\ s0_positions' = s0s /\ decision' = verdict
    BY <1>3 DEF Reduce
  <2>2. Len(ch) # num_reductions
    BY <2>1, DomainsEquation
  <2> HIDE DEF cw, ch, fp, s0s, valid, verdict
  <2>3. fp = << >> /\ s0s = << >> /\ verdict = "none"
    BY <1>2, <2>2 DEF DecisionInv
  <2> QED BY <2>1, <2>3 DEF DecisionInv
<1>4. CASE SendFinalPolynomials
  <2>1. /\ Len(ch) = num_reductions /\ fp = << >>
        /\ codewords' = cw /\ challenges' = ch /\ s0_positions' = s0s /\ decision' = verdict
        /\ final_polynomials' = FinalPolynomials(cw)
    BY <1>4 DEF SendFinalPolynomials, FinalPolynomials
  <2> HIDE DEF cw, ch, fp, s0s, valid, verdict
  <2>2. s0s = << >> /\ verdict = "none"
    BY <1>2, <2>1 DEF DecisionInv
  <2> QED BY <2>1, <2>2 DEF DecisionInv
<1>5. CASE SealVerifier
  <2> DEFINE drawn == s0_positions'
  <2>1. /\ fp # << >> /\ s0s = << >> /\ drawn \in DrawnPositions
        /\ transcript_is_valid' = TranscriptIsValid(drawn)
        /\ codewords' = cw /\ challenges' = ch /\ final_polynomials' = fp /\ decision' = verdict
    BY <1>5 DEF SealVerifier, DrawnPositions
  <2> HIDE DEF cw, fp, s0s, valid, verdict, drawn
  <2>2. Len(ch) = num_reductions /\ fp = FinalPolynomials(cw) /\ verdict = "none"
    <3> HIDE DEF ch
    <3> QED BY <1>2, <2>1 DEF DecisionInv
  <2>3. ReductionsOver
    BY <1>2, <2>2 DEF ReductionsOver
  <2>4. TranscriptIsValid(drawn)
    <3>1. drawn \in [1..QueryRepetitions -> 0..(CodewordDomain.order - 1)]
      BY <2>1 DEF DrawnPositions
    <3> QED BY <2>3, <3>1, TranscriptFits
  <2>5. transcript_is_valid'
    BY <2>1, <2>4
  <2> HIDE DEF ch
  <2>6. DecisionInv(cw, ch, fp, drawn, transcript_is_valid', verdict)
    BY <2>1, <2>2, <2>5 DEF DecisionInv
  <2> QED BY <2>1, <2>6 DEF drawn
<1>6. CASE VerifierPredicate
  <2> DEFINE A == \A q \in DOMAIN s0_positions, j \in Interactions :
                    PredicateForQuerySet(j, s0_positions[q])
  <2>1. /\ s0s # << >>
        /\ decision' = IF valid /\ A THEN "accepted" ELSE "rejected"
        /\ codewords' = cw /\ challenges' = ch /\ final_polynomials' = fp
        /\ s0_positions' = s0s /\ transcript_is_valid' = valid
    BY <1>6 DEF VerifierPredicate
  <2>2. Len(ch) = num_reductions /\ fp = FinalPolynomials(cw) /\ fp # << >>
        /\ s0s \in DrawnPositions /\ valid
    <3> HIDE DEF cw, ch, fp, s0s, valid, verdict
    <3> QED BY <1>2, <2>1 DEF DecisionInv
  <2>3. ReductionsOver
    BY <1>2, <2>2 DEF ReductionsOver
  <2>4. NoneMisread(ch) => (A <=> AllAgree(cw, fp, s0s))
    BY <2>2, <2>3, DecisionValue
  <2> HIDE DEF A, cw, ch, fp, s0s, valid, verdict
  <2>5. decision' = "accepted" <=> A
    BY <2>1, <2>2
  <2>6. DecisionInv(cw, ch, fp, s0s, valid, decision')
    BY <2>1, <2>2, <2>4, <2>5 DEF DecisionInv
  <2> QED BY <2>1, <2>6
<1>7. CASE UNCHANGED vars
  <2>1. /\ codewords' = cw /\ challenges' = ch /\ final_polynomials' = fp
        /\ s0_positions' = s0s /\ transcript_is_valid' = valid /\ decision' = verdict
    BY <1>7 DEF vars
  <2> HIDE DEF cw, ch, fp, s0s, valid, verdict
  <2> QED BY <1>2, <2>1
<1> QED BY <1>3, <1>4, <1>5, <1>6, <1>7 DEF Next

\* With a polynomial below the degree bound, the last codeword is what is sent, everywhere.
LEMMA LowDegreeAgrees ==
  ASSUME ReductionsOver, NEW j \in Interactions, ReadWell(j, num_reductions),
         final_polynomials = FinalPolynomials(codewords),
         LowDegree(coefficients, PolyDegreeBound), NEW s0 \in 0..(CodewordDomain.order - 1)
  PROVE  Agrees(codewords, final_polynomials, j, s0)
<1> DEFINE n == num_reductions
           d == domains[n]
           p == s0 % d.order
           c == PolynomialAt(j, n)
           x == ElementByIndex(d, p)
           f == codewords[n + 1][j]
<1>1. n \in 0..n /\ s0 \in Nat
  BY DomainsEquation, FriAssumption
<1>2. Domain(d)
  BY <1>1, DomainsType
<1>3. p \in 0..(d.order - 1)
  <2>1. d.order \in Nat \ {0}
    BY <1>2 DEF Domain, Divisor
  <2> HIDE DEF d
  <2> QED BY <1>1, <2>1, DivisionType
<1>4. f = EvaluatedOver(c, d)
  BY <1>1, CodewordValue
<1>5. Polynomial(c, P) /\ Polynomial(c, d.order)
  BY <1>1, PolynomialAtType
<1>6. LowDegree(c, final_polynomial_degree_bound)
  BY FinalDegree
<1>7. final_polynomial_degree_bound \in Nat /\ final_polynomial_degree_bound <= d.order
  BY BoundsDivide
<1>8. final_polynomials[j] = Resized(CoefficientsFrom(f, d))
  BY DEF FinalPolynomials
<1>9. Agrees(codewords, final_polynomials, j, s0) <=> Evaluation(final_polynomials[j], x) = f[p]
  BY DEF Agrees
<1>10. x = ElementByIndex(d, p)
  OBVIOUS
<1> HIDE DEF d, p, c, x, f
<1>11. x \in Field
  BY <1>2, <1>3, <1>10, ElementValue
<1>12. Evaluation(Resized(CoefficientsFrom(EvaluatedOver(c, d), d)), x) = Evaluation(c, x)
  BY <1>2, <1>5, <1>6, <1>7, <1>11, ResizedValue
<1>13. EvaluatedOver(c, d)[p] = Evaluation(c, x)
  BY <1>3, <1>10, EvaluatedType
<1> QED BY <1>4, <1>8, <1>9, <1>12, <1>13

\* What the invariant says in the words of the property.
LEMMA InvariantDecides == VerdictInv => VerdictFollowsTheDegree
<1> SUFFICES ASSUME VerdictInv, decision # "none",
                    \A j \in Interactions : ReadWell(j, num_reductions)
             PROVE  /\ decision = "accepted" <=>
                         AllAgree(codewords, final_polynomials, s0_positions)
                    /\ LowDegree(coefficients, PolyDegreeBound) => decision = "accepted"
  BY Zenon DEF VerdictFollowsTheDegree, AllAgree, Agrees
<1>1. NoneMisread(challenges)
  BY NoneMisreadMeans
<1>2. /\ FriInv
      /\ DecisionInv(codewords, challenges, final_polynomials, s0_positions, transcript_is_valid,
                     decision)
  BY DEF VerdictInv
<1>3. s0_positions # << >>
      /\ (decision = "accepted" <=> AllAgree(codewords, final_polynomials, s0_positions))
  BY <1>1, <1>2 DEF DecisionInv
<1>4. final_polynomials # << >> /\ s0_positions \in DrawnPositions
  BY <1>2, <1>3 DEF DecisionInv
<1>5. Len(challenges) = num_reductions /\ final_polynomials = FinalPolynomials(codewords)
  BY <1>2, <1>4 DEF DecisionInv
<1>6. ReductionsOver
  BY <1>2, <1>5 DEF ReductionsOver
<1>7. ASSUME LowDegree(coefficients, PolyDegreeBound)
      PROVE  AllAgree(codewords, final_polynomials, s0_positions)
  <2>1. ASSUME NEW q \in DOMAIN s0_positions, NEW j \in Interactions
        PROVE  Agrees(codewords, final_polynomials, j, s0_positions[q])
    <3>1. s0_positions[q] \in 0..(CodewordDomain.order - 1)
      BY <1>4 DEF DrawnPositions
    <3> QED BY <1>5, <1>6, <1>7, <3>1, LowDegreeAgrees
  <2> QED BY <2>1 DEF AllAgree
<1> QED BY <1>3, <1>7

\* The invariant holds in every run.
THEOREM VerdictInvariant == Spec => []VerdictInv
<1> QED BY InitDecides, NextDecides, PTL DEF Spec

\* The verifier (calculate_next_coset_query_positions, predicate_for_query_set), which sees a coset
\* in each reduction and a polynomial cut to its degree bound, accepts if and only if the last
\* codeword is the polynomial that was sent at each place that a query leads to, and accepts every
\* polynomial below the degree bound; for every prime field, domain, localization, number of
\* interactions and of queries, and choice of challenges that no reduction misreads.
THEOREM VerdictFollows == Spec => []VerdictFollowsTheDegree
<1> QED BY VerdictInvariant, InvariantDecides, PTL
=============================================================================
