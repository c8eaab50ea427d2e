------------------------- MODULE LigeroProtocolProofs -------------------------
(***************************************************************************)
(* Theorems about LigeroProtocol, for every circuit, witness, statement,   *)
(* prime field, number of repetitions and draw that its assumption allows. *)
(*                                                                         *)
(* Totals and polynomials over the field come first: polynomials are the   *)
(* functions on the field that have coefficients, and the transforms lead  *)
(* from such a function to its values on a coset and back.  Then the rows  *)
(* of a vector and the codewords of rows, the matrices of a circuit and    *)
(* what they make of its witness, and what the lincheck, the rowcheck and  *)
(* the low degree test say of an honest prover's messages.  The inductive  *)
(* invariant at the end says that every message is what the rounds before  *)
(* it call for, so that the verdict is decided by the errors alone.        *)
(*                                                                         *)
(* The definitions of the setup's members take it as a parameter, so that  *)
(* lemmas about them are about constants: RowSize(setup), say, stands for  *)
(* systematic_domain_size.                                                 *)
(***************************************************************************)
EXTENDS LigeroProtocol, FriProtocolProofs

-----------------------------------------------------------------------------
(***************************************************************************)
(* The field, with sums and products of its elements, and totals.          *)
(***************************************************************************)
x \uplus y == Res(P, x ++ y)
x \odot y  == Res(P, x ** y)
Tot(f, S)  == Res(P, Sum(f, S))

\* Elements are added and multiplied as in a commutative ring.
LEMMA FieldLaws ==
  ASSUME NEW x \in Field, NEW y \in Field, NEW z \in Field
  PROVE  /\ x \uplus y \in Field /\ x \odot y \in Field
         /\ x \uplus y = y \uplus x /\ x \odot y = y \odot x
         /\ (x \uplus y) \uplus z = x \uplus (y \uplus z)
         /\ (x \odot y) \odot z = x \odot (y \odot z)
         /\ x \odot (y \uplus z) = (x \odot y) \uplus (x \odot z)
         /\ x \uplus 0 = x /\ 0 \uplus x = x /\ x \odot 0 = 0 /\ 0 \odot x = 0
         /\ x \odot 1 = x /\ 1 \odot x = x
<1> USE FieldPrime
<1>1. x \in Nat /\ y \in Nat /\ z \in Nat /\ Res(P, x) = x /\ Res(P, y) = y /\ Res(P, z) = z
  BY FieldType
<1>2. /\ x ++ y \in Nat /\ y ++ z \in Nat /\ x ** y \in Nat /\ y ** z \in Nat /\ x ** z \in Nat
      /\ x ++ y = y ++ x /\ x ** y = y ** x
      /\ x ++ 0 = x /\ 0 ++ x = x /\ x ** 0 = 0 /\ 0 ** x = 0 /\ x ** 1 = x /\ 1 ** x = x
  BY <1>1, SumAndProduct
<1>3. (x ++ y) ++ z = x ++ (y ++ z) /\ (x ** y) ** z = x ** (y ** z)
  BY <1>1, ThreeNumbers
<1>4. x ** (y ++ z) = (x ** y) ++ (x ** z)
  BY <1>1, ThreeNumbers
<1>5. /\ x \uplus y \in Field /\ x \odot y \in Field /\ y \uplus z \in Field /\ y \odot z \in Field
      /\ Res(P, x \uplus y) = Res(P, x ++ y) /\ Res(P, x \odot y) = Res(P, x ** y)
      /\ Res(P, y \uplus z) = Res(P, y ++ z) /\ Res(P, y \odot z) = Res(P, y ** z)
      /\ x \odot z \in Field /\ Res(P, x \odot z) = Res(P, x ** z)
  BY <1>1, <1>2, FieldRes DEF \uplus, \odot
<1>6. x \uplus y \in Nat /\ x \odot y \in Nat /\ y \uplus z \in Nat /\ y \odot z \in Nat /\ x \odot z \in Nat
  BY <1>5, FieldType
<1>7. (x \uplus y) \uplus z = x \uplus (y \uplus z)
  <2>1. Res(P, (x \uplus y) ++ z) = Res(P, (x ++ y) ++ z)
    BY <1>1, <1>2, <1>5, <1>6, ResPlus
  <2>2. Res(P, x ++ (y \uplus z)) = Res(P, x ++ (y ++ z))
    BY <1>1, <1>2, <1>5, <1>6, ResPlusBoth
  <2> QED BY <1>3, <2>1, <2>2 DEF \uplus
<1>8. (x \odot y) \odot z = x \odot (y \odot z)
  <2>1. Res(P, (x \odot y) ** z) = Res(P, (x ** y) ** z)
    BY <1>1, <1>2, <1>5, <1>6, ResTimes
  <2>2. Res(P, x ** (y \odot z)) = Res(P, x ** (y ** z))
    BY <1>1, <1>2, <1>5, <1>6, ResTimesBoth
  <2> QED BY <1>3, <2>1, <2>2 DEF \odot
<1>9. x \odot (y \uplus z) = (x \odot y) \uplus (x \odot z)
  <2>1. Res(P, x ** (y \uplus z)) = Res(P, x ** (y ++ z))
    BY <1>1, <1>2, <1>5, <1>6, ResTimesBoth
  <2>2. Res(P, (x \odot y) ++ (x \odot z)) = Res(P, (x ** y) ++ (x ** z))
    BY <1>1, <1>2, <1>5, <1>6, ResPlusBoth
  <2> QED BY <1>4, <2>1, <2>2 DEF \uplus, \odot
<1>10. /\ x \uplus y = y \uplus x /\ x \odot y = y \odot x
       /\ x \uplus 0 = x /\ 0 \uplus x = x /\ x \odot 1 = x /\ 1 \odot x = x
  BY <1>1, <1>2 DEF \uplus, \odot
<1>11. x \odot 0 = 0 /\ 0 \odot x = 0
  BY <1>2, ResSmall DEF \odot
<1> QED BY <1>5, <1>7, <1>8, <1>9, <1>10, <1>11

\* The laws of products alone, and of products of sums.
LEMMA ProductLaws ==
  ASSUME NEW x \in Field, NEW y \in Field, NEW z \in Field
  PROVE  /\ x \odot y \in Field /\ x \odot y = y \odot x
         /\ x \odot (y \odot z) = (x \odot y) \odot z
         /\ x \odot (y \odot z) = y \odot (x \odot z)
         /\ x \odot (y \odot z) \in Field
<1>1. /\ x \odot y \in Field /\ x \odot y = y \odot x /\ y \odot x \in Field /\ y \odot z \in Field
      /\ (x \odot y) \odot z = x \odot (y \odot z) /\ (y \odot x) \odot z = y \odot (x \odot z)
  BY FieldLaws
<1>2. x \odot (y \odot z) \in Field
  BY <1>1, FieldLaws
<1> QED BY <1>1, <1>2

\* Products of sums.
LEMMA DistributiveLaws ==
  ASSUME NEW x \in Field, NEW y \in Field, NEW z \in Field
  PROVE  /\ y \uplus z \in Field
         /\ x \odot (y \uplus z) = (x \odot y) \uplus (x \odot z)
         /\ (y \uplus z) \odot x = (y \odot x) \uplus (z \odot x)
<1>1. /\ y \uplus z \in Field /\ x \odot (y \uplus z) = (x \odot y) \uplus (x \odot z)
      /\ x \odot y = y \odot x /\ x \odot z = z \odot x
  BY FieldLaws
<1>2. x \odot (y \uplus z) = (y \uplus z) \odot x
  BY <1>1, FieldLaws
<1> QED BY <1>1, <1>2

\* A difference is what is missing to the sum.
LEMMA DifferenceLaws ==
  ASSUME NEW x \in Field, NEW y \in Field, NEW z \in Field
  PROVE  /\ Minus(x, y) \in Field /\ Minus(x, y) \uplus y = x
         /\ z \uplus y = x => z = Minus(x, y)
         /\ Minus(x, 0) = x /\ Minus(x, x) = 0
         /\ Minus(x, y) = 0 <=> x = y
<1> USE FieldPrime
<1>1. Minus(x, y) \in Field /\ Minus(x, y) \uplus y = x
  BY MinusValue DEF \uplus
<1>2. ASSUME z \uplus y = x PROVE z = Minus(x, y)
  <2>1. z \in Nat /\ y \in Nat /\ Minus(x, y) \in Nat /\ Res(P, z) = z /\ Res(P, Minus(x, y)) = Minus(x, y)
    BY <1>1, FieldType
  <2>2. Res(P, z ++ y) = Res(P, Minus(x, y) ++ y)
    BY <1>1, <1>2 DEF \uplus
  <2> QED BY <2>1, <2>2, ResCancelPlus
<1>3. x \in Int /\ 0 <= x /\ x < P /\ P \in Int
  BY FieldType DEF Field
<1>4. Minus(x, 0) = x /\ Minus(x, x) = 0
  BY <1>3 DEF Minus
<1>5. Minus(x, y) = 0 => x = y
  BY MinusValue
<1> QED BY <1>1, <1>2, <1>4, <1>5

\* A total of field elements is one, and depends on nothing but the residues of the terms.
LEMMA TotLaws ==
  ASSUME NEW S, IsFiniteSet(S), NEW f, \A x \in S : f[x] \in Nat
  PROVE  /\ Tot(f, S) \in Field
         /\ \A g : (\A x \in S : g[x] = Res(P, f[x])) => Tot(g, S) = Tot(f, S)
         /\ (\A x \in S : f[x] = 0) => Tot(f, S) = 0
<1> USE FieldPrime
<1>1. Tot(f, S) \in Field
  BY SumType, FieldRes DEF Tot
<1>2. ASSUME NEW g, \A x \in S : g[x] = Res(P, f[x]) PROVE Tot(g, S) = Tot(f, S)
  <2>1. \A x \in S : g[x] \in Nat /\ Res(P, g[x]) = Res(P, f[x])
    BY <1>2, ResType, ResRes
  <2> QED BY <2>1, SumResidue DEF Tot
<1>3. ASSUME \A x \in S : f[x] = 0 PROVE Tot(f, S) = 0
  <2>1. Sum(f, S) = 0
    BY <1>3, SumZeros
  <2> QED BY <2>1, ResSmall DEF Tot
<1> QED BY <1>1, <1>2, <1>3

\* What is added, term by term.
LEMMA TotPlus ==
  ASSUME NEW S, IsFiniteSet(S), NEW f, NEW g, NEW h,
         \A x \in S : f[x] \in Field /\ g[x] \in Field /\ h[x] = f[x] \uplus g[x]
  PROVE  Tot(h, S) = Tot(f, S) \uplus Tot(g, S)
<1> USE FieldPrime
<1> DEFINE u == [x \in S |-> f[x] ++ g[x]]
<1>1. \A x \in S : f[x] \in Nat /\ g[x] \in Nat /\ u[x] = f[x] ++ g[x] /\ u[x] \in Nat /\ h[x] = Res(P, u[x])
  BY FieldType, NatSum DEF \uplus
<1> HIDE DEF u
<1>2. Tot(h, S) = Tot(u, S)
  BY <1>1, TotLaws
<1>3. Sum(u, S) = Sum(f, S) ++ Sum(g, S) /\ Sum(f, S) \in Nat /\ Sum(g, S) \in Nat
  BY <1>1, SumOfBoth, SumType
<1>4. /\ Res(P, Sum(f, S)) \in Nat /\ Res(P, Sum(g, S)) \in Nat
      /\ Res(P, Res(P, Sum(f, S))) = Res(P, Sum(f, S)) /\ Res(P, Res(P, Sum(g, S))) = Res(P, Sum(g, S))
  BY <1>3, ResType, ResRes
<1>5. Res(P, Res(P, Sum(f, S)) ++ Res(P, Sum(g, S))) = Res(P, Sum(f, S) ++ Sum(g, S))
  BY <1>3, <1>4, ResPlusBoth
<1> QED BY <1>2, <1>3, <1>5 DEF Tot, \uplus

\* What is multiplied by the same, term by term.
LEMMA TotScale ==
  ASSUME NEW S, IsFiniteSet(S), NEW c \in Field, NEW f, NEW h,
         \A x \in S : f[x] \in Field /\ h[x] = c \odot f[x]
  PROVE  Tot(h, S) = c \odot Tot(f, S)
<1> USE FieldPrime
<1> DEFINE u == [x \in S |-> f[x] ** c]
<1>1. /\ c \in Nat
      /\ \A x \in S : f[x] \in Nat /\ u[x] = f[x] ** c /\ u[x] = c ** f[x] /\ u[x] \in Nat
                      /\ h[x] = Res(P, u[x])
  BY FieldType, SumAndProduct DEF \odot
<1> HIDE DEF u
<1>2. Tot(h, S) = Tot(u, S)
  BY <1>1, TotLaws
<1>3. Sum(u, S) = Sum(f, S) ** c /\ Sum(f, S) \in Nat
  BY <1>1, SumScaled, SumType
<1>4. /\ Res(P, Sum(f, S)) \in Nat /\ Res(P, Res(P, Sum(f, S))) = Res(P, Sum(f, S))
  BY <1>3, ResType, ResRes
<1>5. Res(P, Res(P, Sum(f, S)) ** c) = Res(P, Sum(f, S) ** c)
  BY <1>1, <1>3, <1>4, ResTimes
<1>6. c ** Res(P, Sum(f, S)) = Res(P, Sum(f, S)) ** c
  BY <1>1, <1>4, SumAndProduct
<1> QED BY <1>2, <1>3, <1>5, <1>6 DEF Tot, \odot

\* Totals of field elements that are the same.
LEMMA TotEqual ==
  ASSUME NEW S, IsFiniteSet(S), NEW f, NEW g, \A x \in S : f[x] \in Field /\ g[x] = f[x]
  PROVE  Tot(g, S) = Tot(f, S) /\ Tot(f, S) \in Field
BY FieldType, TotLaws

\* Differences, term by term.
LEMMA TotMinus ==
  ASSUME NEW S, IsFiniteSet(S), NEW f, NEW g, NEW h,
         \A x \in S : f[x] \in Field /\ g[x] \in Field /\ h[x] = Minus(f[x], g[x])
  PROVE  Tot(h, S) = Minus(Tot(f, S), Tot(g, S))
<1>1. \A x \in S : h[x] \in Field /\ f[x] = h[x] \uplus g[x]
  BY DifferenceLaws
<1>2. Tot(f, S) = Tot(h, S) \uplus Tot(g, S)
  BY <1>1, TotPlus
<1>3. Tot(f, S) \in Field /\ Tot(g, S) \in Field /\ Tot(h, S) \in Field
  BY <1>1, FieldType, TotLaws
<1> QED BY <1>2, <1>3, DifferenceLaws

\* A table of field elements, summed up by rows or by columns.
Table(m, S, T) == \A x \in S, y \in T : m[x][y] \in Field
RowTotals(u, m, S, T) == \A x \in S : u[x] = Tot(m[x], T)
ColumnTotals(v, m, S, T) == \A y \in T : v[y] = Tot([x \in S |-> m[x][y]], S)

\* The totals of the rows of a table and of its columns have the same total.
LEMMA TotExchange ==
  ASSUME NEW S, IsFiniteSet(S), NEW T, IsFiniteSet(T), NEW m, Table(m, S, T),
         NEW u, RowTotals(u, m, S, T), NEW v, ColumnTotals(v, m, S, T)
  PROVE  Tot(u, S) = Tot(v, T)
<1> USE FieldPrime
<1> DEFINE n == [x \in S |-> [y \in T |-> m[x][y]]]
           t == [y \in T |-> [x \in S |-> m[x][y]]]
           a == [x \in S |-> Sum(n[x], T)]
           b == [y \in T |-> Sum(t[y], S)]
<1>1. Transposed(n, t, S, T)
  BY FieldType DEF Transposed, Table
<1>2. \A x \in S : a[x] \in Nat /\ u[x] = Res(P, a[x])
  <2>1. ASSUME NEW x \in S PROVE Sum(n[x], T) \in Nat /\ Sum(m[x], T) = Sum(n[x], T)
    <3>1. \A y \in T : n[x][y] \in Nat /\ n[x][y] = m[x][y]
      BY FieldType DEF Table
    <3> HIDE DEF n
    <3> QED BY <3>1, SumType, SumEqual
  <2> QED BY <2>1 DEF Tot, RowTotals
<1>3. \A y \in T : b[y] \in Nat /\ v[y] = Res(P, b[y])
  <2>1. ASSUME NEW y \in T PROVE Sum(t[y], S) \in Nat
    <3>1. \A x \in S : t[y][x] \in Nat
      BY FieldType DEF Table
    <3> QED BY <3>1, SumType
  <2> QED BY <2>1 DEF Tot, ColumnTotals
<1>4. SumsOf(a, n, S, T) /\ SumsOf(b, t, T, S)
  BY DEF SumsOf
<1> HIDE DEF a, b, t, n
<1>5. Sum(a, S) = Sum(b, T)
  BY <1>1, <1>4, SumExchange
<1>6. Tot(u, S) = Tot(a, S) /\ Tot(v, T) = Tot(b, T)
  BY <1>2, <1>3, TotLaws
<1> QED BY <1>5, <1>6 DEF Tot

\* Totals of the same elements in another order.
OneToOne(b, S, T) ==
  /\ b \in [S -> T] /\ \A x, y \in S : b[x] = b[y] => x = y
  /\ \A y \in T : \E x \in S : b[x] = y

\* A total may be taken along another index.
LEMMA TotReindexed ==
  ASSUME NEW S, IsFiniteSet(S), NEW T, IsFiniteSet(T), NEW b, OneToOne(b, S, T),
         NEW f, \A y \in T : f[y] \in Field, NEW g, \A x \in S : g[x] = f[b[x]]
  PROVE  Tot(g, S) = Tot(f, T)
BY SumReindexed, FieldType DEF Tot, OneToOne

\* Terms that are zero can be left out.
LEMMA TotOfPart ==
  ASSUME NEW S, IsFiniteSet(S), NEW f, \A x \in S : f[x] \in Field,
         NEW T \in SUBSET S, \A x \in S \ T : f[x] = 0
  PROVE  Tot(f, T) = Tot(f, S)
BY SumOfPart, FieldType DEF Tot

\* The model's totals of products.
Products(f, g, a, b, S) ==
  /\ DOMAIN f = S
  /\ \A x \in S : a[x] \in Field /\ b[x] \in Field /\ f[x] = a[x] * b[x] /\ g[x] = a[x] \odot b[x]

\* A total of products, as the model takes it, is the field's.
LEMMA TotalOfProducts ==
  ASSUME NEW S, IsFiniteSet(S), NEW f, NEW g, NEW a, NEW b, Products(f, g, a, b, S)
  PROVE  Total(f) = Tot(g, S) /\ Tot(g, S) \in Field
<1>1. DOMAIN f = S /\ \A x \in S : f[x] \in Nat /\ g[x] = Res(P, f[x])
  BY FieldType DEF \odot, **, Products
<1>2. Total(f) = Tot(f, S)
  BY <1>1, TotalValue DEF Tot
<1> QED BY <1>1, <1>2, TotLaws

-----------------------------------------------------------------------------
(***************************************************************************)
(* Polynomials as functions on the field.                                  *)
(***************************************************************************)
Terms(c, L, x) == [n \in 1..L |-> c[n] \odot Power[x][n - 1]]

\* F has the coefficients c.
HasCoefficients(F, c, L) ==
  c \in [1..L -> Field] /\ \A x \in Field : F[x] = Tot(Terms(c, L, x), 1..L)
PolyFun(L) == {F \in [Field -> Field] : \E c : HasCoefficients(F, c, L)}

\* Powers of a field element.
LEMMA PowerLaws ==
  ASSUME NEW x \in Field, NEW m \in Nat, NEW n \in Nat, m + n <= P
  PROVE  /\ Power[x][n] \in Field /\ Power[x][m] \in Field /\ Power[x][0] = 1
         /\ Power[x][m + n] = Power[x][m] \odot Power[x][n]
<1> USE FieldPrime
<1>1. m \in 0..P /\ n \in 0..P /\ m + n \in 0..P /\ 0 \in 0..P /\ x \in Nat /\ 0 \in Nat
  BY FieldType
<1>2. \A k \in 0..P : Power[x][k] = Res(P, Pow(x)[k]) /\ Power[x][k] \in Field /\ Pow(x)[k] \in Nat
  BY <1>1, PowerValue, PowType
<1>3. Pow(x)[0] = 1 /\ Pow(x)[m + n] = Pow(x)[m] ** Pow(x)[n]
  BY <1>1, PowFirst, PowPlus
<1>4. Power[x][0] = 1
  BY <1>1, <1>2, <1>3, ResSmall
<1> DEFINE a == Pow(x)[m]
           b == Pow(x)[n]
           pa == Power[x][m]
           pb == Power[x][n]
<1>5. /\ a \in Nat /\ b \in Nat /\ pa \in Nat /\ pb \in Nat
      /\ Res(P, pa) = Res(P, a) /\ Res(P, pb) = Res(P, b)
  BY <1>1, <1>2, FieldType
<1> HIDE DEF a, b, pa, pb
<1>6. Res(P, pa ** pb) = Res(P, a ** b)
  BY <1>5, ResTimesBoth
<1>7. Power[x][m + n] = Power[x][m] \odot Power[x][n]
  BY <1>1, <1>2, <1>3, <1>6 DEF \odot, a, b, pa, pb
<1> QED BY <1>1, <1>2, <1>4, <1>7

\* The terms of a polynomial are field elements, and so is their total.
LEMMA TermsType ==
  ASSUME NEW L \in Nat, L <= P, NEW c \in [1..L -> Field], NEW x \in Field
  PROVE  /\ \A n \in 1..L : /\ Terms(c, L, x)[n] \in Field /\ Power[x][n - 1] \in Field
                            /\ Terms(c, L, x)[n] = c[n] \odot Power[x][n - 1]
         /\ IsFiniteSet(1..L) /\ Tot(Terms(c, L, x), 1..L) \in Field
<1>1. ASSUME NEW n \in 1..L
      PROVE  /\ Terms(c, L, x)[n] \in Field /\ Power[x][n - 1] \in Field
             /\ Terms(c, L, x)[n] = c[n] \odot Power[x][n - 1]
  <2>1. n - 1 \in 0..P
    BY FieldPrime
  <2>2. Power[x][n - 1] \in Field /\ c[n] \in Field
    BY <2>1, PowerValue
  <2> QED BY <2>2, FieldLaws DEF Terms
<1>2. IsFiniteSet(1..L)
  BY FS_Interval
<1> QED BY <1>1, <1>2, TotEqual

\* Sums of polynomials.
LEMMA PolyFunSum ==
  ASSUME NEW L \in Nat, L <= P, NEW S, IsFiniteSet(S), NEW G, \A i \in S : G[i] \in PolyFun(L)
  PROVE  [x \in Field |-> Tot([i \in S |-> G[i][x]], S)] \in PolyFun(L)
<1> DEFINE F == [x \in Field |-> Tot([i \in S |-> G[i][x]], S)]
           c == [i \in S |-> CHOOSE c : HasCoefficients(G[i], c, L)]
           e == [n \in 1..L |-> Tot([i \in S |-> c[i][n]], S)]
<1>1. \A i \in S : HasCoefficients(G[i], c[i], L) /\ G[i] \in [Field -> Field]
  BY DEF PolyFun
<1> HIDE DEF c
<1>2. \A i \in S : c[i] \in [1..L -> Field]
  BY <1>1 DEF HasCoefficients
<1>3. e \in [1..L -> Field]
  <2>1. ASSUME NEW n \in 1..L PROVE Tot([i \in S |-> c[i][n]], S) \in Field
    <3>1. \A i \in S : [j \in S |-> c[j][n]][i] \in Field /\ [j \in S |-> c[j][n]][i] = [j \in S |-> c[j][n]][i]
      BY <1>2
    <3> QED BY <3>1, TotEqual
  <2> QED BY <2>1
<1>4. F \in [Field -> Field]
  <2>1. ASSUME NEW x \in Field PROVE Tot([i \in S |-> G[i][x]], S) \in Field
    <3>1. \A i \in S : [j \in S |-> G[j][x]][i] \in Field
      BY <1>1
    <3> QED BY <3>1, TotEqual
  <2> QED BY <2>1
<1>5. ASSUME NEW x \in Field PROVE F[x] = Tot(Terms(e, L, x), 1..L)
  <2> DEFINE m == [i \in S |-> Terms(c[i], L, x)]
             u == [i \in S |-> G[i][x]]
  <2>1. IsFiniteSet(1..L)
    BY FS_Interval
  <2>2. Table(m, S, 1..L)
    BY <1>2, TermsType DEF Table
  <2>3. RowTotals(u, m, S, 1..L)
    BY <1>1 DEF RowTotals, HasCoefficients
  <2>4. ColumnTotals(Terms(e, L, x), m, S, 1..L)
    <3>1. ASSUME NEW n \in 1..L PROVE Terms(e, L, x)[n] = Tot([i \in S |-> m[i][n]], S)
      <4> DEFINE f == [i \in S |-> c[i][n]]
                 h == [i \in S |-> m[i][n]]
                 p == Power[x][n - 1]
      <4>1. p \in Field /\ Terms(e, L, x)[n] = e[n] \odot p
        BY <1>3, TermsType
      <4>2. \A i \in S : f[i] \in Field /\ h[i] = f[i] \odot p
        BY <1>2, TermsType
      <4>3. e[n] = Tot(f, S)
        OBVIOUS
      <4> HIDE DEF e, f, h, p, m
      <4>4. \A i \in S : f[i] \in Field /\ h[i] = p \odot f[i]
        BY <4>1, <4>2, FieldLaws
      <4>5. Tot(h, S) = p \odot Tot(f, S)
        BY <4>1, <4>4, TotScale
      <4>6. Tot(f, S) \in Field
        BY <4>2, TotEqual
      <4>7. p \odot Tot(f, S) = Tot(f, S) \odot p
        BY <4>1, <4>6, FieldLaws
      <4> QED BY <4>1, <4>3, <4>5, <4>7 DEF h
    <3> QED BY <3>1 DEF ColumnTotals
  <2> HIDE DEF m, u
  <2>5. Tot(u, S) = Tot(Terms(e, L, x), 1..L)
    BY <2>1, <2>2, <2>3, <2>4, TotExchange
  <2> QED BY <2>5 DEF u
<1> HIDE DEF e, F
<1> QED BY <1>3, <1>4, <1>5 DEF PolyFun, HasCoefficients, F

\* Constant multiples of polynomials.
LEMMA PolyFunScale ==
  ASSUME NEW L \in Nat, L <= P, NEW c \in Field, NEW F \in PolyFun(L)
  PROVE  [x \in Field |-> c \odot F[x]] \in PolyFun(L)
<1> DEFINE G == [x \in Field |-> c \odot F[x]]
<1>1. PICK a : HasCoefficients(F, a, L)
  BY DEF PolyFun
<1>2. F \in [Field -> Field] /\ a \in [1..L -> Field]
  BY <1>1 DEF PolyFun, HasCoefficients
<1> DEFINE b == [n \in 1..L |-> c \odot a[n]]
<1>3. b \in [1..L -> Field]
  BY <1>2, FieldLaws
<1>4. G \in [Field -> Field]
  BY <1>2, FieldLaws
<1>5. ASSUME NEW x \in Field PROVE G[x] = Tot(Terms(b, L, x), 1..L)
  <2>1. \A n \in 1..L : Terms(a, L, x)[n] \in Field /\ Terms(b, L, x)[n] = c \odot Terms(a, L, x)[n]
    <3>1. ASSUME NEW n \in 1..L
          PROVE  Terms(a, L, x)[n] \in Field /\ Terms(b, L, x)[n] = c \odot Terms(a, L, x)[n]
      <4>1. /\ Terms(a, L, x)[n] = a[n] \odot Power[x][n - 1] /\ Terms(a, L, x)[n] \in Field
            /\ Terms(b, L, x)[n] = b[n] \odot Power[x][n - 1]
            /\ Power[x][n - 1] \in Field /\ a[n] \in Field /\ b[n] = c \odot a[n]
        BY <1>2, <1>3, TermsType
      <4> HIDE DEF b
      <4> DEFINE q == Power[x][n - 1]
                 e == a[n]
      <4> HIDE DEF q, e
      <4>2. e \in Field /\ q \in Field
        BY <4>1 DEF q, e
      <4>3. (c \odot e) \odot q = c \odot (e \odot q)
        BY <4>2, ProductLaws
      <4> QED BY <4>1, <4>3 DEF q, e
    <3> QED BY <3>1
  <2>2. Tot(Terms(b, L, x), 1..L) = c \odot Tot(Terms(a, L, x), 1..L)
    <3>1. IsFiniteSet(1..L)
      BY FS_Interval
    <3> HIDE DEF b
    <3> QED BY <2>1, <3>1, TotScale
  <2> QED BY <1>1, <2>2 DEF HasCoefficients
<1> HIDE DEF b, G
<1> QED BY <1>3, <1>4, <1>5 DEF PolyFun, HasCoefficients, G

\* Two polynomials added.
LEMMA PolyFunPlus ==
  ASSUME NEW L \in Nat, L <= P, NEW F \in PolyFun(L), NEW G \in PolyFun(L)
  PROVE  [x \in Field |-> F[x] \uplus G[x]] \in PolyFun(L)
<1> DEFINE H == [x \in Field |-> F[x] \uplus G[x]]
<1>1. PICK a : HasCoefficients(F, a, L)
  BY DEF PolyFun
<1>2. PICK b : HasCoefficients(G, b, L)
  BY DEF PolyFun
<1>3. /\ F \in [Field -> Field] /\ a \in [1..L -> Field]
      /\ G \in [Field -> Field] /\ b \in [1..L -> Field]
  BY <1>1, <1>2 DEF PolyFun, HasCoefficients
<1> DEFINE c == [n \in 1..L |-> a[n] \uplus b[n]]
<1>4. c \in [1..L -> Field] /\ H \in [Field -> Field]
  BY <1>3, FieldLaws
<1>5. ASSUME NEW x \in Field PROVE H[x] = Tot(Terms(c, L, x), 1..L)
  <2>1. ASSUME NEW n \in 1..L
        PROVE  /\ Terms(a, L, x)[n] \in Field /\ Terms(b, L, x)[n] \in Field
               /\ Terms(c, L, x)[n] = Terms(a, L, x)[n] \uplus Terms(b, L, x)[n]
    <3>1. /\ Terms(a, L, x)[n] = a[n] \odot Power[x][n - 1] /\ Terms(a, L, x)[n] \in Field
          /\ Terms(b, L, x)[n] = b[n] \odot Power[x][n - 1] /\ Terms(b, L, x)[n] \in Field
          /\ Terms(c, L, x)[n] = c[n] \odot Power[x][n - 1]
          /\ Power[x][n - 1] \in Field /\ a[n] \in Field /\ b[n] \in Field /\ c[n] \in Field
          /\ c[n] = a[n] \uplus b[n]
      BY <1>3, <1>4, TermsType, ZenonT(40)
    <3> DEFINE q == Power[x][n - 1]
               e == a[n]
               f == b[n]
    <3> HIDE DEF c, q, e, f
    <3>2. e \in Field /\ f \in Field /\ q \in Field
      BY <3>1 DEF q, e, f
    <3>3. (e \uplus f) \odot q = (e \odot q) \uplus (f \odot q)
      BY <3>2, DistributiveLaws
    <3> QED BY <3>1, <3>3 DEF q, e, f
  <2>2. Tot(Terms(c, L, x), 1..L) = Tot(Terms(a, L, x), 1..L) \uplus Tot(Terms(b, L, x), 1..L)
    <3>1. IsFiniteSet(1..L)
      BY FS_Interval
    <3> HIDE DEF c
    <3> QED BY <2>1, <3>1, TotPlus
  <2> QED BY <1>1, <1>2, <2>2 DEF HasCoefficients
<1> HIDE DEF c, H
<1> QED BY <1>4, <1>5 DEF PolyFun, HasCoefficients, H

\* Two polynomials subtracted.
LEMMA PolyFunMinus ==
  ASSUME NEW L \in Nat, L <= P, NEW F \in PolyFun(L), NEW G \in PolyFun(L)
  PROVE  [x \in Field |-> Minus(F[x], G[x])] \in PolyFun(L)
<1> DEFINE c == Minus(0, 1)
           K == [x \in Field |-> c \odot G[x]]
           H == [x \in Field |-> F[x] \uplus K[x]]
<1>1. 0 \in Field /\ 1 \in Field /\ F \in [Field -> Field] /\ G \in [Field -> Field]
  BY FieldPrime DEF Field, PolyFun
<1>2. c \in Field /\ c \uplus 1 = 0
  BY <1>1, DifferenceLaws
<1> HIDE DEF c
<1>3. K \in PolyFun(L)
  BY <1>2, PolyFunScale
<1>4. ASSUME NEW x \in Field PROVE H[x] = Minus(F[x], G[x])
  <2> DEFINE f == F[x]
             g == G[x]
             k == c \odot g
  <2>1. f \in Field /\ g \in Field /\ k \in Field
    BY <1>1, <1>2, FieldLaws
  <2>2. k \uplus g = 0
    <3>1. g \odot (c \uplus 1) = (g \odot c) \uplus (g \odot 1) /\ g \odot 1 = g /\ g \odot c = k
      BY <1>1, <1>2, <2>1, FieldLaws
    <3>2. g \odot 0 = 0
      BY <2>1, FieldLaws
    <3> QED BY <1>2, <3>1, <3>2
  <2> HIDE DEF f, g, k
  <2>3. (f \uplus k) \uplus g = f \uplus (k \uplus g) /\ f \uplus k \in Field /\ f \uplus 0 = f
    BY <2>1, FieldLaws
  <2>4. f \uplus k = Minus(f, g)
    BY <2>1, <2>2, <2>3, DifferenceLaws
  <2> QED BY <2>4 DEF f, g, k
<1>5. H = [x \in Field |-> Minus(F[x], G[x])]
  BY <1>4
<1>6. H \in PolyFun(L)
  <2> HIDE DEF K
  <2> QED BY <1>3, PolyFunPlus
<1> QED BY <1>5, <1>6

\* A polynomial times a power of the variable, with room for more coefficients.
LEMMA PolyFunShift ==
  ASSUME NEW L \in Nat, NEW k \in Nat, NEW K \in Nat, L + k <= K, K <= P, NEW F \in PolyFun(L)
  PROVE  [x \in Field |-> Power[x][k] \odot F[x]] \in PolyFun(K)
<1> DEFINE G == [x \in Field |-> Power[x][k] \odot F[x]]
<1>1. PICK a : HasCoefficients(F, a, L)
  BY DEF PolyFun
<1>2. F \in [Field -> Field] /\ a \in [1..L -> Field] /\ L <= P /\ k <= P /\ P \in Nat
  BY <1>1, FieldPrime DEF PolyFun, HasCoefficients
<1> DEFINE c == [n \in 1..K |-> IF n - k \in 1..L THEN a[n - k] ELSE 0]
           Part == {n \in 1..K : n - k \in 1..L}
<1>3. c \in [1..K -> Field]
  BY <1>2, FieldPrime DEF Field
<1>4. G \in [Field -> Field]
  <2>1. \A x \in Field : Power[x][k] \in Field
    BY <1>2, PowerValue
  <2> QED BY <1>2, <2>1, FieldLaws
<1>5. ASSUME NEW x \in Field PROVE G[x] = Tot(Terms(c, K, x), 1..K)
  <2> DEFINE p == Power[x][k]
             h == [n \in 1..L |-> p \odot Terms(a, L, x)[n]]
             b == [n \in 1..L |-> n + k]
  <2>1. p \in Field
    BY <1>2, PowerValue
  <2>2. IsFiniteSet(1..L) /\ IsFiniteSet(1..K) /\ IsFiniteSet(Part)
    BY FS_Interval, FS_Subset
  <2>3. \A n \in 1..K : Terms(c, K, x)[n] \in Field /\ Terms(c, K, x)[n] = c[n] \odot Power[x][n - 1] /\ Power[x][n - 1] \in Field
    BY <1>3, TermsType
  <2>4. \A n \in 1..L : Terms(a, L, x)[n] \in Field /\ Terms(a, L, x)[n] = a[n] \odot Power[x][n - 1] /\ Power[x][n - 1] \in Field
    BY <1>2, TermsType
  <2>5. Tot(Terms(c, K, x), Part) = Tot(Terms(c, K, x), 1..K)
    <3>1. \A n \in (1..K) \ Part : Terms(c, K, x)[n] = 0
      BY <2>3, FieldLaws
    <3>2. Part \in SUBSET (1..K)
      OBVIOUS
    <3> HIDE DEF c, Part
    <3> QED BY <2>2, <2>3, <3>1, <3>2, TotOfPart
  <2>6. OneToOne(b, 1..L, Part)
    <3>1. \A n \in Part : n - k \in 1..L /\ b[n - k] = n
      OBVIOUS
    <3>2. b \in [1..L -> Part] /\ \A m, n \in 1..L : b[m] = b[n] => m = n
      OBVIOUS
    <3> HIDE DEF b, Part
    <3> QED BY <3>1, <3>2 DEF OneToOne
  <2>7. ASSUME NEW n \in 1..L PROVE h[n] = Terms(c, K, x)[b[n]]
    <3> DEFINE q == Power[x][n - 1]
               r == Power[x][(n + k) - 1]
    <3>1. b[n] = n + k /\ n + k \in 1..K /\ c[n + k] = a[n]
      OBVIOUS
    <3>2. r = p \odot q
      <4>1. k + (n - 1) = (n + k) - 1 /\ k + (n - 1) <= P /\ n - 1 \in Nat
        BY <1>2
      <4>2. Power[x][k + (n - 1)] = Power[x][k] \odot Power[x][n - 1]
        BY <4>1, PowerLaws
      <4> QED BY <4>1, <4>2
    <3>3. q \in Field /\ a[n] \in Field
      BY <1>2, <2>4
    <3>4. Terms(c, K, x)[n + k] = a[n] \odot r
      BY <2>3, <3>1
    <3>5. h[n] = p \odot (a[n] \odot q)
      BY <2>4
    <3> HIDE DEF q, r, p
    <3>6. p \odot (a[n] \odot q) = a[n] \odot (p \odot q)
      <4> DEFINE e == a[n]
      <4> HIDE DEF e
      <4>1. e \in Field /\ p \in Field
        BY <3>3, <2>1 DEF e, p
      <4>2. p \odot (e \odot q) = e \odot (p \odot q)
        BY <3>3, <4>1, ProductLaws
      <4> QED BY <4>2 DEF e
    <3> QED BY <3>1, <3>2, <3>4, <3>5, <3>6
  <2>8. Tot(h, 1..L) = p \odot Tot(Terms(a, L, x), 1..L)
    <3>1. \A n \in 1..L : h[n] = p \odot Terms(a, L, x)[n]
      OBVIOUS
    <3> HIDE DEF h, p
    <3> QED BY <2>1, <2>2, <2>4, <3>1, TotScale
  <2>9. Tot(h, 1..L) = Tot(Terms(c, K, x), Part)
    <3>1. \A n \in Part : Terms(c, K, x)[n] \in Field
      BY <2>3
    <3> HIDE DEF h, b, c, Part
    <3> QED BY <2>2, <2>6, <2>7, <3>1, TotReindexed
  <2> QED BY <1>1, <2>5, <2>8, <2>9 DEF HasCoefficients
<1> HIDE DEF c, G
<1> QED BY <1>3, <1>4, <1>5 DEF PolyFun, HasCoefficients, G

\* Room for more coefficients.
LEMMA PolyFunWiden ==
  ASSUME NEW L \in Nat, NEW K \in Nat, L <= K, K <= P, NEW F \in PolyFun(L)
  PROVE  F \in PolyFun(K)
<1> DEFINE G == [x \in Field |-> Power[x][0] \odot F[x]]
<1>1. G \in PolyFun(K)
  <2>1. 0 \in Nat /\ L + 0 <= K
    OBVIOUS
  <2> QED BY <2>1, PolyFunShift
<1>2. F \in [Field -> Field]
  BY DEF PolyFun
<1>3. \A x \in Field : G[x] = F[x]
  <2>1. \A x \in Field : Power[x][0] = 1 /\ 0 \in Nat
    BY FieldPrime, PowerLaws
  <2> QED BY <1>2, <2>1, FieldLaws
<1>4. G = F
  BY <1>2, <1>3
<1> QED BY <1>1, <1>4

\* Two polynomials multiplied.
LEMMA PolyFunTimes ==
  ASSUME NEW L \in Nat, NEW M \in Nat, L + M <= P, NEW F \in PolyFun(L), NEW G \in PolyFun(M)
  PROVE  [x \in Field |-> F[x] \odot G[x]] \in PolyFun(L + M)
<1>1. PICK d : HasCoefficients(G, d, M)
  BY DEF PolyFun
<1>2. /\ F \in [Field -> Field] /\ G \in [Field -> Field] /\ d \in [1..M -> Field]
      /\ M <= P /\ P \in Nat /\ L + M \in Nat /\ IsFiniteSet(1..M)
  <2>1. F \in [Field -> Field] /\ G \in [Field -> Field] /\ d \in [1..M -> Field]
    BY <1>1 DEF PolyFun, HasCoefficients
  <2>2. M <= P /\ P \in Nat /\ L + M \in Nat
    BY FieldPrime
  <2> QED BY <2>1, <2>2, FS_Interval
<1> DEFINE Shifted(m) == [x \in Field |-> Power[x][m - 1] \odot F[x]]
           part == [m \in 1..M |-> [x \in Field |-> d[m] \odot Shifted(m)[x]]]
           H == [x \in Field |-> Tot([m \in 1..M |-> part[m][x]], 1..M)]
<1>3. ASSUME NEW m \in 1..M PROVE part[m] \in PolyFun(L + M)
  <2>1. m - 1 \in Nat /\ L + (m - 1) <= L + M
    OBVIOUS
  <2>2. Shifted(m) \in PolyFun(L + M)
    BY <1>2, <2>1, PolyFunShift
  <2>3. d[m] \in Field
    BY <1>2
  <2>4. part[m] = [x \in Field |-> d[m] \odot Shifted(m)[x]]
    OBVIOUS
  <2> HIDE DEF Shifted, part
  <2> QED BY <1>2, <2>2, <2>3, <2>4, PolyFunScale
<1>4. H \in PolyFun(L + M)
  <2> HIDE DEF part
  <2> QED BY <1>2, <1>3, PolyFunSum
<1>5. ASSUME NEW x \in Field PROVE H[x] = F[x] \odot G[x]
  <2> DEFINE h == [m \in 1..M |-> part[m][x]]
             t == Terms(d, M, x)
  <2>1. F[x] \in Field /\ G[x] = Tot(t, 1..M) /\ H[x] = Tot(h, 1..M)
    BY <1>1, <1>2 DEF HasCoefficients
  <2>2. ASSUME NEW m \in 1..M PROVE t[m] \in Field /\ h[m] = F[x] \odot t[m]
    <3> DEFINE q == Power[x][m - 1]
               f == F[x]
               e == d[m]
    <3>1. t[m] \in Field /\ t[m] = e \odot q /\ q \in Field /\ e \in Field
      BY <1>2, TermsType
    <3>2. h[m] = e \odot (q \odot f)
      OBVIOUS
    <3> HIDE DEF q, f, e, t, h
    <3>3. f \in Field
      BY <2>1 DEF f
    <3>4. e \odot (q \odot f) = (e \odot q) \odot f
      BY <3>1, <3>3, FieldLaws
    <3>5. (e \odot q) \odot f = f \odot (e \odot q)
      BY <3>1, <3>3, FieldLaws
    <3> QED BY <3>1, <3>2, <3>4, <3>5 DEF f
  <2> HIDE DEF h, t, H
  <2>3. Tot(h, 1..M) = F[x] \odot Tot(t, 1..M)
    BY <1>2, <2>1, <2>2, TotScale, ZenonT(40)
  <2> QED BY <2>1, <2>3
<1>6. H = [x \in Field |-> F[x] \odot G[x]]
  BY <1>5
<1> QED BY <1>4, <1>6

-----------------------------------------------------------------------------
(***************************************************************************)
(* The inverse transform interpolates.                                     *)
(***************************************************************************)
\* A power of the root of unity of a domain, for every exponent.
RootPower(d, m) == Res(P, Pow(RootOfUnity(d.order))[m])

\* The powers of a root of unity, and of its inverse, are field elements.
LEMMA RootPowerLaws ==
  ASSUME NEW d, Domain(d), NEW m \in Nat, NEW n \in Nat
  PROVE  /\ RootPower(d, m) \in Field /\ RootPower(d, m) # 0
         /\ RootPower(d, m + n) = RootPower(d, m) \odot RootPower(d, n)
         /\ m % d.order = n % d.order => RootPower(d, m) = RootPower(d, n)
<1> USE FieldPrime
<1> DEFINE w == RootOfUnity(d.order)
           a == Pow(w)[m]
           b == Pow(w)[n]
<1>1. w \in Nat /\ HasOrder(P, w, d.order)
  BY RootValue DEF Domain
<1> HIDE DEF w
<1>2. a \in Nat /\ b \in Nat /\ Pow(w)[m + n] = a ** b
  BY <1>1, PowType, PowPlus
<1>3. Res(P, w) # 0
  BY <1>1, OrderPower
<1>4. Res(P, a) # 0
  BY <1>1, <1>3, PowNotZero
<1>5. m % d.order = n % d.order => Res(P, a) = Res(P, b)
  BY <1>1, PowersRepeat
<1> HIDE DEF a, b
<1>6. Res(P, a) \in Nat /\ Res(P, b) \in Nat /\ Res(P, Res(P, a)) = Res(P, a) /\ Res(P, Res(P, b)) = Res(P, b)
  BY <1>2, ResType, ResRes
<1>7. Res(P, Res(P, a) ** Res(P, b)) = Res(P, a ** b)
  BY <1>2, <1>6, ResTimesBoth
<1>8. Res(P, a) \in Field
  BY <1>2, FieldRes
<1>9. RootPower(d, m) = Res(P, a) /\ RootPower(d, n) = Res(P, b) /\ RootPower(d, m + n) = Res(P, a ** b)
  BY <1>2 DEF RootPower, w, a, b
<1> QED BY <1>4, <1>5, <1>7, <1>8, <1>9 DEF \odot

\* The elements of a domain, and the powers in its inverse transform.
LEMMA RootPowerValue ==
  ASSUME NEW d, Domain(d), NEW i \in 0..(d.order - 1)
  PROVE  /\ ElementByIndex(d, i) = d.shift \odot RootPower(d, i)
         /\ \A j \in 0..P : Power[Power[RootOfUnity(d.order)][i]][j] = RootPower(d, i * j)
<1> USE FieldPrime
<1> DEFINE w == RootOfUnity(d.order)
           N == d.order
           v == Power[w][i]
<1>1. w \in Nat /\ w \in Field /\ HasOrder(P, w, N) /\ N \in Nat \ {0} /\ N < P
  BY RootValue, DivisorQuotient DEF Domain
<1>2. d.shift \in Field /\ d.shift \in Nat
  BY FieldType DEF Domain
<1> HIDE DEF w, N
<1>3. i \in Nat /\ i \in 0..P
  BY <1>1 DEF N
<1>4. v = Res(P, Pow(w)[i]) /\ v \in Field /\ v \in Nat /\ Pow(w)[i] \in Nat
  BY <1>1, <1>3, PowerValue, PowType
<1>5. ElementByIndex(d, i) = d.shift \odot RootPower(d, i)
  BY <1>4 DEF ElementByIndex, RootPower, w, \odot, **, Res
<1>6. ASSUME NEW j \in 0..P PROVE Power[v][j] = RootPower(d, i * j)
  <2>1. j \in Nat
    OBVIOUS
  <2>2. Power[v][j] = Res(P, Pow(v)[j])
    BY <1>4, PowerValue
  <2>3. Res(P, v) = Res(P, Pow(w)[i])
    BY <1>4, FieldType
  <2>4. Res(P, Pow(v)[j]) = Res(P, Pow(Pow(w)[i])[j])
    BY <1>4, <2>1, <2>3, ResPow
  <2>5. Pow(Pow(w)[i])[j] = Pow(w)[i * j]
    BY <1>1, <1>3, <2>1, PowPow
  <2> QED BY <2>2, <2>4, <2>5 DEF RootPower, w
<1> QED BY <1>5, <1>6 DEF v, w

\* The powers of a power of the root of unity cancel out, or there are as many as elements.
LEMMA RootPowerSum ==
  ASSUME NEW d, Domain(d), NEW r \in Nat, NEW f, \A n \in 1..d.order : f[n] = RootPower(d, r * (n - 1))
  PROVE  Tot(f, 1..d.order) = IF r % d.order = 0 THEN d.order ELSE 0
<1> USE FieldPrime
<1> DEFINE N == d.order
           w == RootOfUnity(N)
           g == [k \in 0..(N - 1) |-> RootPower(d, r * k)]
           b == [n \in 1..N |-> n - 1]
<1>1. w \in Nat /\ HasOrder(P, w, N) /\ N \in Nat \ {0} /\ N < P /\ N \in Nat
  BY RootValue, DivisorQuotient DEF Domain
<1> HIDE DEF N
<1>2. \A k \in 0..(N - 1) : g[k] = RootPower(d, r * k) /\ g[k] \in Field
  BY <1>1, RootPowerLaws
<1>3. OneToOne(b, 1..N, 0..(N - 1))
  <2>1. \A k \in 0..(N - 1) : k + 1 \in 1..N /\ b[k + 1] = k
    BY <1>1
  <2>2. b \in [1..N -> 0..(N - 1)] /\ \A m, n \in 1..N : b[m] = b[n] => m = n
    BY <1>1
  <2> HIDE DEF b
  <2> QED BY <2>1, <2>2 DEF OneToOne
<1>4. \A n \in 1..N : f[n] = g[b[n]]
  BY <1>1 DEF N
<1>5. IsFiniteSet(1..N) /\ IsFiniteSet(0..(N - 1))
  BY <1>1, FS_Interval
<1> HIDE DEF b, g
<1>6. Tot(f, 1..N) = Tot(g, 0..(N - 1))
  <2> DEFINE S == 1..N
             T == 0..(N - 1)
  <2>1. /\ \A y \in T : g[y] \in Field
        /\ \A x \in S : f[x] = g[b[x]]
        /\ IsFiniteSet(S) /\ IsFiniteSet(T) /\ OneToOne(b, S, T)
    BY <1>2, <1>3, <1>4, <1>5
  <2> HIDE DEF S, T
  <2>2. Tot(f, S) = Tot(g, T)
    BY <2>1, TotReindexed
  <2> QED BY <2>2 DEF S, T
<1>7. \A k \in 0..(N - 1) : g[k] \in Nat /\ Res(P, g[k]) = Res(P, Pow(w)[r * k])
  <2>1. ASSUME NEW k \in 0..(N - 1) PROVE g[k] \in Nat /\ Res(P, g[k]) = Res(P, Pow(w)[r * k])
    <3>1. g[k] \in Field
      BY <1>2
    <3>2. g[k] \in Nat /\ Res(P, g[k]) = g[k]
      BY <3>1, FieldType
    <3>3. g[k] = Res(P, Pow(w)[r * k])
      BY <1>2 DEF RootPower, N
    <3> QED BY <3>2, <3>3
  <2> QED BY <2>1
<1> HIDE DEF w
<1>8. Tot(g, 0..(N - 1)) = IF r % N = 0 THEN Res(P, N) ELSE 0
  <2>1. IsPrime(P) /\ HasOrder(P, w, N)
    BY <1>1
  <2>2. Res(P, Sum(g, 0..(N - 1))) = IF r % N = 0 THEN Res(P, N) ELSE 0
    BY <1>7, <2>1, RootSum
  <2> QED BY <2>2 DEF Tot
<1>9. Res(P, N) = N
  BY <1>1, ResSmall
<1> QED BY <1>6, <1>8, <1>9 DEF N

\* Powers of a product.
LEMMA PowerOfProduct ==
  ASSUME NEW x \in Field, NEW y \in Field, NEW n \in 0..P
  PROVE  Power[x \odot y][n] = Power[x][n] \odot Power[y][n]
<1> USE FieldPrime
<1> DEFINE z == x \odot y
           a == Pow(x)[n]
           b == Pow(y)[n]
           pa == Power[x][n]
           pb == Power[y][n]
<1>1. x \in Nat /\ y \in Nat /\ n \in Nat /\ x ** y \in Nat
  BY FieldType, NatProduct
<1>2. z \in Field /\ z \in Nat /\ Res(P, z) = Res(P, x ** y)
  BY <1>1, FieldRes, FieldType DEF \odot
<1>3. Power[z][n] = Res(P, Pow(z)[n]) /\ pa = Res(P, a) /\ pb = Res(P, b)
  BY <1>2, PowerValue
<1>4. a \in Nat /\ b \in Nat
  BY <1>1, PowType
<1> HIDE DEF z, pa, pb
<1>5. Res(P, Pow(z)[n]) = Res(P, Pow(x ** y)[n])
  BY <1>1, <1>2, ResPow
<1>6. Pow(x ** y)[n] = a ** b
  BY <1>1, PowTimes
<1> HIDE DEF a, b
<1>7. pa \in Nat /\ pb \in Nat /\ Res(P, pa) = Res(P, a) /\ Res(P, pb) = Res(P, b)
  BY <1>3, <1>4, ResType, ResRes
<1>8. Res(P, pa ** pb) = Res(P, a ** b)
  BY <1>4, <1>7, ResTimesBoth
<1> QED BY <1>3, <1>5, <1>6, <1>8 DEF \odot, z, pa, pb

\* No power of an element other than zero is zero, and its inverse is a field element.
LEMMA InverseOfPower ==
  ASSUME NEW x \in Field \ {0}, NEW n \in 0..P
  PROVE  /\ Power[x][n] \in Field \ {0} /\ Inverted[Power[x][n]] \in Field
         /\ Inverted[Power[x][n]] \odot Power[x][n] = 1
<1> USE FieldPrime
<1>1. x \in Field /\ x \in Nat /\ n \in Nat /\ Res(P, x) # 0
  BY FieldType
<1>2. Power[x][n] = Res(P, Pow(x)[n]) /\ Power[x][n] \in Field
  BY <1>1, PowerValue
<1>3. Power[x][n] # 0
  BY <1>1, <1>2, PowNotZero
<1> QED BY <1>2, <1>3, InvertedValue DEF \odot

\* What the inverse transform multiplies a value with, times the power of an element.
LEMMA BasisValue ==
  ASSUME NEW d, Domain(d), NEW k \in 0..(d.order - 1), NEW i \in 0..(d.order - 1), NEW j \in 0..(d.order - 1),
         NEW X, X = Power[ElementByIndex(d, k)][j],
         NEW J, J = Inverted[Power[Power[RootOfUnity(d.order)][i]][j]],
         NEW B, B = Inverted[(d.order * Power[d.shift][j]) % P],
         NEW r, r = (k + d.order) - i
  PROVE  /\ X \in Field /\ J \in Field /\ B \in Field /\ d.order \in Field
         /\ d.order \odot (B \odot (J \odot X)) = RootPower(d, r * j)
<1> USE FieldPrime
<1> DEFINE N == d.order
           h == d.shift
           w == RootOfUnity(N)
           H == Power[h][j]
           K == RootPower(d, k * j)
           I == RootPower(d, i * j)
           E == RootPower(d, r * j)
<1>1. /\ N \in Nat \ {0} /\ N < P /\ N \in Field /\ h \in Field \ {0} /\ h \in Field
      /\ w \in Field /\ w \in Nat
  BY RootValue, DivisorQuotient DEF Domain, Field
<1>2. j \in 0..P /\ i \in 0..P /\ j \in Nat /\ i \in Nat /\ k \in Nat
  BY <1>1
<1>3. k * j \in Nat /\ i * j \in Nat /\ r * j \in Nat
  <2>1. r \in Nat
    BY <1>1, <1>2
  <2> QED BY <1>2, <2>1
<1>4. K \in Field /\ I \in Field /\ E \in Field /\ I # 0
  BY <1>3, RootPowerLaws
<1>5. H \in Field /\ H # 0
  BY <1>1, <1>2, InverseOfPower
<1>6. X = H \odot K
  <2>1. ElementByIndex(d, k) = h \odot RootPower(d, k) /\ RootPower(d, k) = Power[w][k]
    <3>1. RootPower(d, k) = Res(P, Pow(w)[k]) /\ k \in 0..P
      BY <1>1, <1>2 DEF RootPower
    <3>2. Power[w][k] = Res(P, Pow(w)[k])
      BY <1>1, <3>1, PowerValue
    <3> QED BY <3>1, <3>2, RootPowerValue
  <2>2. RootPower(d, k) \in Field
    BY <1>2, RootPowerLaws
  <2>3. Power[h \odot RootPower(d, k)][j] = Power[h][j] \odot Power[RootPower(d, k)][j]
    BY <1>1, <1>2, <2>2, PowerOfProduct
  <2>4. Power[Power[w][k]][j] = K
    BY <1>2, RootPowerValue
  <2> QED BY <2>1, <2>3, <2>4
<1>7. J \in Field /\ J \odot I = 1
  <2>1. Power[Power[w][i]][j] = I
    BY <1>2, RootPowerValue
  <2>2. J = Inverted[I]
    BY <2>1
  <2> QED BY <1>4, <2>2, InvertedValue DEF \odot
<1>8. B \in Field /\ B \odot (N \odot H) = 1
  <2>1. (N * H) % P = N \odot H
    BY DEF \odot, **, Res
  <2>2. N \odot H \in Field
    BY <1>1, <1>5, FieldLaws
  <2>3. N \odot H # 0
    <3>1. N \in Nat /\ H \in Nat /\ Res(P, N) = N /\ Res(P, H) = H
      BY <1>1, <1>5, FieldType
    <3>2. Res(P, N) # 0 /\ Res(P, H) # 0
      BY <1>1, <1>5, <3>1
    <3> HIDE DEF N, H
    <3> QED BY <3>1, <3>2, PrimeProduct DEF \odot
  <2> QED BY <2>1, <2>2, <2>3, InvertedValue DEF \odot
<1>9. K = I \odot E
  <2>1. K = RootPower(d, (i * j) + (r * j))
    <3> DEFINE m == k * j
               n == (i * j) + (r * j)
    <3>1. r \in Nat /\ i + r = k + N
      BY <1>1, <1>2
    <3>2. n = (i + r) * j
      BY <1>2, <3>1
    <3>3. n = (k + N) * j
      BY <3>1, <3>2
    <3>4. n = (N * j) + m /\ m \in Nat /\ n \in Nat
      BY <1>1, <1>2, <3>3
    <3> HIDE DEF n, m
    <3>5. n % N = m % N
      <4> DEFINE q == m \div N
                 s == m % N
      <4>1. q \in Nat /\ s \in 0..(N - 1) /\ m = (N * q) + s
        BY <1>1, <3>4, DivisionType
      <4> HIDE DEF q, s
      <4>2. n = (N * (j + q)) + s /\ j + q \in Int
        BY <1>1, <1>2, <3>4, <4>1
      <4> HIDE DEF N
      <4>3. n % N = s
        BY <1>1, <4>1, <4>2, ModUnique
      <4> QED BY <4>3 DEF s
    <3>6. RootPower(d, n) = RootPower(d, m)
      BY <3>4, <3>5, RootPowerLaws
    <3> QED BY <3>6 DEF n, m
  <2> QED BY <1>3, <2>1, RootPowerLaws
<1>10. X \in Field
  BY <1>4, <1>5, <1>6, FieldLaws
<1>11. N \odot (B \odot (J \odot X)) = E
  <2> HIDE DEF N, H, K, I, E
  <2>1. J \odot X = H \odot (J \odot K)
    BY <1>4, <1>5, <1>6, <1>7, ProductLaws
  <2>2. J \odot K = E
    <3>1. J \odot (I \odot E) = (J \odot I) \odot E
      BY <1>4, <1>7, ProductLaws
    <3> QED BY <1>4, <1>7, <1>9, <3>1, FieldLaws
  <2>3. B \odot (J \odot X) = B \odot (H \odot E)
    BY <2>1, <2>2
  <2>4. N \odot (B \odot (H \odot E)) = B \odot (N \odot (H \odot E))
    <3>1. H \odot E \in Field
      BY <1>4, <1>5, ProductLaws
    <3> QED BY <1>1, <1>8, <3>1, ProductLaws DEF N
  <2>5. N \odot (H \odot E) = (N \odot H) \odot E /\ N \odot H \in Field
    <3>1. N \in Field
      BY <1>1
    <3> QED BY <1>4, <1>5, <3>1, ProductLaws
  <2>6. B \odot ((N \odot H) \odot E) = (B \odot (N \odot H)) \odot E
    BY <1>4, <1>8, <2>5, ProductLaws
  <2>7. (B \odot (N \odot H)) \odot E = E
    BY <1>4, <1>8, FieldLaws
  <2> QED BY <2>3, <2>4, <2>5, <2>6, <2>7
<1> QED BY <1>1, <1>7, <1>8, <1>10, <1>11

\* What a coefficient of the inverse transform multiplies one value with.
Basis(d, i, n) ==
  Inverted[(d.order * Power[d.shift][n - 1]) % P]
    \odot Inverted[Power[Power[RootOfUnity(d.order)][i]][n - 1]]

\* The factors of the i-th value at the k-th element of the domain, coefficient by coefficient.
BasisRow(f, d, i, k) ==
  \A n \in 1..d.order : f[n] = Basis(d, i, n) \odot Power[ElementByIndex(d, k)][n - 1]

\* What these factors are together.
BasisSum(f, d, i, k) ==
  /\ \A n \in 1..d.order : Basis(d, i, n) \in Field /\ f[n] \in Field /\ Power[ElementByIndex(d, k)][n - 1] \in Field
  /\ Tot(f, 1..d.order) = IF i = k THEN 1 ELSE 0

\* At an element of the domain, these factors are together 1 for the value there, 0 for others.
LEMMA BasisTotal ==
  ASSUME NEW d, Domain(d), NEW k \in 0..(d.order - 1), NEW i \in 0..(d.order - 1),
         NEW f, BasisRow(f, d, i, k)
  PROVE  BasisSum(f, d, i, k)
<1> USE FieldPrime
<1> DEFINE N == d.order
           r == (k + N) - i
           g == [n \in 1..N |-> RootPower(d, r * (n - 1))]
<1>1. N \in Nat \ {0} /\ N < P /\ N \in Field /\ N # 0 /\ N \in Nat
  BY DivisorQuotient DEF Domain, Field
<1>2. r \in Nat /\ (r % N = 0 <=> i = k)
  <2>1. r \in Nat /\ r > 0 /\ r < 2 * N /\ (r = N <=> i = k)
    BY <1>1
  <2> HIDE DEF r, N
  <2>2. CASE r = N
    <3>1. r = (N * 1) + 0 /\ 0 \in 0..(N - 1) /\ 1 \in Int
      BY <1>1, <2>2
    <3>2. r % N = 0
      BY <1>1, <3>1, ModUnique
    <3> QED BY <2>1, <2>2, <3>2
  <2>3. CASE r < N
    <3>1. r % N = r
      BY <1>1, <2>1, <2>3, ModSmall
    <3> QED BY <2>1, <2>3, <3>1
  <2>4. CASE r > N
    <3> DEFINE e == r - N
    <3>1. r = (N * 1) + e /\ e \in 0..(N - 1) /\ 1 \in Int /\ e # 0
      BY <1>1, <2>1, <2>4
    <3> HIDE DEF e
    <3>2. r % N = e
      BY <1>1, <3>1, ModUnique
    <3> QED BY <2>1, <2>4, <3>1, <3>2
  <2> QED BY <1>1, <2>1, <2>2, <2>3, <2>4
<1>3. ASSUME NEW n \in 1..N
      PROVE  /\ Basis(d, i, n) \in Field /\ f[n] \in Field /\ Power[ElementByIndex(d, k)][n - 1] \in Field
             /\ g[n] = N \odot f[n]
  <2> DEFINE j == n - 1
             X == Power[ElementByIndex(d, k)][j]
             J == Inverted[Power[Power[RootOfUnity(N)][i]][j]]
             B == Inverted[(N * Power[d.shift][j]) % P]
  <2>1. j \in 0..(N - 1) /\ r = (k + d.order) - i
    BY <1>1
  <2>2. f[n] = (B \odot J) \odot X /\ Basis(d, i, n) = B \odot J /\ g[n] = RootPower(d, r * j)
    BY DEF Basis, BasisRow
  <2>3. X = Power[ElementByIndex(d, k)][j] /\ J = Inverted[Power[Power[RootOfUnity(N)][i]][j]] /\ B = Inverted[(N * Power[d.shift][j]) % P]
    OBVIOUS
  <2> HIDE DEF j, X, J, B, g, r
  <2>4. X \in Field /\ J \in Field /\ B \in Field /\ N \odot (B \odot (J \odot X)) = RootPower(d, r * j)
    BY <2>1, <2>3, BasisValue
  <2>5. B \odot (J \odot X) = (B \odot J) \odot X /\ B \odot J \in Field /\ B \odot (J \odot X) \in Field
    BY <2>4, ProductLaws
  <2> QED BY <2>2, <2>4, <2>5 DEF X, j
<1>4. Tot(g, 1..N) = IF i = k THEN N ELSE 0
  <2>1. \A n \in 1..N : g[n] = RootPower(d, r * (n - 1))
    OBVIOUS
  <2> HIDE DEF g, r
  <2>2. Tot(g, 1..N) = IF r % N = 0 THEN N ELSE 0
    BY <1>2, <2>1, RootPowerSum DEF N
  <2> QED BY <1>2, <2>2
<1> HIDE DEF g, r
<1>5. IsFiniteSet(1..N)
  <2>1. 1 \in Int /\ N \in Int
    BY <1>1
  <2> HIDE DEF N
  <2> QED BY <2>1, FS_Interval
<1>6. Tot(g, 1..N) = N \odot Tot(f, 1..N)
  <2>1. \A n \in 1..N : f[n] \in Field /\ g[n] = N \odot f[n]
    BY <1>3
  <2> HIDE DEF N
  <2> QED BY <1>1, <1>5, <2>1, TotScale
<1>7. Tot(f, 1..N) \in Field
  BY <1>3, <1>5, TotEqual
<1> DEFINE t == Tot(f, 1..N)
           V == Inverted[N]
<1>8. t = IF i = k THEN 1 ELSE 0
  <2>1. V \in Field /\ V \odot N = 1
    BY <1>1, InvertedValue DEF \odot
  <2> HIDE DEF V, t
  <2>2. t \in Field
    BY <1>7 DEF t
  <2>3. N \odot t = IF i = k THEN N ELSE 0
    BY <1>4, <1>6 DEF t
  <2>4. V \odot (N \odot t) = (V \odot N) \odot t
    BY <1>1, <2>1, <2>2, ProductLaws
  <2>5. (V \odot N) \odot t = t
    BY <2>1, <2>2, FieldLaws
  <2>6. V \odot 0 = 0
    BY <2>1, FieldLaws
  <2> QED BY <2>1, <2>3, <2>4, <2>5, <2>6
<1> QED BY <1>3, <1>8 DEF BasisSum

\* The coefficients have the values that they were made from.
Vector(v, d) == v \in [Places(d.order) -> Field]

\* The inverse transform gives a polynomial that has the given values.
LEMMA Interpolated ==
  ASSUME NEW d, Domain(d), NEW v, Vector(v, d),
         NEW c, c = CoefficientsFrom(v, d), NEW k \in Places(d.order)
  PROVE  /\ c \in [1..d.order -> Field]
         /\ Tot(Terms(c, d.order, ElementByIndex(d, k)), 1..d.order) = v[k]
<1> USE FieldPrime
<1>0. v \in [0..(d.order - 1) -> Field] /\ k \in 0..(d.order - 1)
  BY DEF Vector, Places
<1> DEFINE N == d.order
           S == 0..(N - 1)
           T == 1..N
           x == ElementByIndex(d, k)
           m == [n \in T |-> [i \in S |-> v[i] \odot (Basis(d, i, n) \odot Power[x][n - 1])]]
           e == [i \in S |-> [n \in T |-> Basis(d, i, n) \odot Power[x][n - 1]]]
           u == [i \in S |-> v[i] \odot (IF i = k THEN 1 ELSE 0)]
<1>1. N \in Nat \ {0} /\ N < P /\ N \in Field /\ N \in Nat /\ x \in Field
  BY <1>0, DivisorQuotient, ElementValue DEF Domain, Field
<1>2. IsFiniteSet(S) /\ IsFiniteSet(T) /\ v \in [S -> Field]
  <2>1. 0 \in Int /\ 1 \in Int /\ N \in Int /\ N - 1 \in Int /\ v \in [S -> Field]
    BY <1>0, <1>1
  <2> HIDE DEF N
  <2> QED BY <2>1, FS_Interval
<1>3. ASSUME NEW i \in S
      PROVE  /\ \A n \in T : Basis(d, i, n) \in Field /\ e[i][n] \in Field /\ Power[x][n - 1] \in Field
             /\ Tot(e[i], T) = IF i = k THEN 1 ELSE 0
  <2> DEFINE f == e[i]
  <2>1. BasisRow(f, d, i, k) /\ i \in 0..(d.order - 1)
    BY DEF BasisRow
  <2> HIDE DEF f, N, S, T, x, m, e, u
  <2>2. BasisSum(f, d, i, k)
    BY <1>0, <2>1, BasisTotal
  <2> QED BY <2>2 DEF f, BasisSum, N, T, S, x
<1>4. ASSUME NEW n \in T
      PROVE  c[n] \in Field /\ Terms(c, N, x)[n] = Tot(m[n], S)
  <2> DEFINE B == Inverted[(N * Power[d.shift][n - 1]) % P]
             J(i) == Inverted[Power[Power[RootOfUnity(N)][i]][n - 1]]
             p == Power[x][n - 1]
             f == [i \in S |-> v[i] * J(i)]
             g == [i \in S |-> v[i] \odot J(i)]
             s == Tot(g, S)
  <2>1. B \in Field /\ p \in Field /\ \A i \in S : J(i) \in Field
    <3>1. n - 1 \in 0..(N - 1) /\ n - 1 \in 0..(d.order - 1) /\ 0 \in S
      BY <1>1
    <3>2. \A i \in S : J(i) \in Field /\ B \in Field /\ p \in Field
      BY <1>0, <3>1, BasisValue
    <3> QED BY <3>1, <3>2
  <2>2. c[n] = (B * Total(f)) % P
    <3>1. DOMAIN v = S
      BY <1>2
    <3> QED BY <3>1, ZenonT(40) DEF CoefficientsFrom
  <2>3. Total(f) \in Field /\ s = Total(f)
    <3>1. DOMAIN f = S /\ \A i \in S : v[i] \in Field /\ f[i] = v[i] * J(i) /\ g[i] = v[i] \odot J(i)
      BY <1>2
    <3> DEFINE jj == [i \in S |-> J(i)]
    <3>2. DOMAIN f = S /\ \A i \in S : v[i] \in Field /\ jj[i] \in Field /\ f[i] = v[i] * jj[i] /\ g[i] = v[i] \odot jj[i]
      BY <2>1, <3>1, ZenonT(40)
    <3>3. IsFiniteSet(S)
      BY <1>2
    <3> HIDE DEF f, g, S, jj, J
    <3>4. Total(f) = Tot(g, S) /\ Tot(g, S) \in Field
      <5>1. Products(f, g, v, jj, S)
        BY <3>2 DEF Products
      <5> QED BY <5>1, <3>3, TotalOfProducts
    <3> QED BY <3>4
  <2>4. c[n] = B \odot s
    BY <2>2, <2>3, ZenonT(40) DEF \odot, **, Res
  <2>5. \A i \in S : g[i] \in Field
    <3>1. ASSUME NEW i \in S PROVE g[i] \in Field
      <4> DEFINE a == v[i]
                 b == J(i)
      <4>1. a \in Field /\ b \in Field /\ g[i] = a \odot b
        BY <1>2, <2>1
      <4> HIDE DEF a, b, g
      <4> QED BY <4>1, FieldLaws
    <3> QED BY <3>1
  <2>6. s \in Field
    <3> HIDE DEF g, S
    <3> QED BY <1>2, <2>5, TotEqual
  <2>7. ASSUME NEW i \in S PROVE m[n][i] = (B \odot p) \odot g[i]
    <3> DEFINE a == v[i]
               b == J(i)
    <3>1. a \in Field /\ b \in Field /\ m[n][i] = a \odot ((B \odot b) \odot p) /\ g[i] = a \odot b
      BY <1>2, <2>1, ZenonT(40) DEF Basis
    <3> HIDE DEF a, b, B, p, m, g, J, S
    <3>2. (B \odot b) \odot p = B \odot (b \odot p) /\ b \odot p = p \odot b /\ B \odot (p \odot b) = (B \odot p) \odot b
          /\ B \odot p \in Field
      BY <2>1, <3>1, ProductLaws
    <3>3. a \odot ((B \odot p) \odot b) = (B \odot p) \odot (a \odot b)
      BY <3>1, <3>2, ProductLaws
    <3> QED BY <3>1, <3>2, <3>3
  <2>8. Tot(m[n], S) = (B \odot p) \odot s
    <3>1. B \odot p \in Field
      BY <2>1, FieldLaws
    <3>2. \A i \in S : g[i] \in Field /\ m[n][i] = (B \odot p) \odot g[i]
      BY <2>5, <2>7
    <3> DEFINE q == B \odot p
               h == m[n]
    <3>3. q \in Field /\ \A i \in S : g[i] \in Field /\ h[i] = q \odot g[i]
      BY <3>1, <3>2, ZenonT(40)
    <3> HIDE DEF q, h, g, S
    <3>4. Tot(h, S) = q \odot Tot(g, S)
      BY <1>2, <3>3, TotScale
    <3> QED BY <3>4 DEF q, h
  <2>9. (B \odot p) \odot s = (B \odot s) \odot p /\ B \odot s \in Field
    <3> HIDE DEF B, p, s
    <3>1. (B \odot p) \odot s = s \odot (B \odot p) /\ s \odot (B \odot p) = B \odot (s \odot p)
          /\ B \odot (s \odot p) = (B \odot s) \odot p
      <4>1. B \odot p \in Field
        BY <2>1, ProductLaws
      <4> QED BY <2>1, <2>6, <4>1, ProductLaws
    <3> QED BY <2>1, <2>6, <3>1, ProductLaws
  <2>10. Terms(c, N, x)[n] = c[n] \odot p
    BY DEF Terms
  <2> QED BY <2>4, <2>8, <2>9, <2>10, ZenonT(40)
<1>5. c \in [1..d.order -> Field]
  <2>1. c = [n \in T |-> c[n]]
    BY ZenonT(40) DEF CoefficientsFrom
  <2> QED BY <1>4, <2>1
<1>6. Table(m, T, S)
  <2>1. ASSUME NEW n \in T, NEW i \in S PROVE m[n][i] \in Field
    <3>1. v[i] \in Field /\ e[i][n] \in Field /\ m[n][i] = v[i] \odot e[i][n]
      BY <1>2, <1>3
    <3> DEFINE a == v[i]
               b == e[i][n]
    <3> HIDE DEF e, m, a, b
    <3>2. a \in Field /\ b \in Field /\ m[n][i] = a \odot b
      BY <3>1 DEF a, b
    <3> QED BY <3>2, FieldLaws
  <2> QED BY <2>1 DEF Table
<1>7. RowTotals(Terms(c, N, x), m, T, S)
  BY <1>4 DEF RowTotals
<1>8. ColumnTotals(u, m, T, S)
  <2>1. ASSUME NEW i \in S PROVE u[i] = Tot([n \in T |-> m[n][i]], T)
    <3> DEFINE a == v[i]
               f == e[i]
               h == [n \in T |-> m[n][i]]
    <3>1. a \in Field /\ \A n \in T : f[n] \in Field /\ h[n] = a \odot f[n]
      BY <1>2, <1>3
    <3>2. Tot(f, T) = IF i = k THEN 1 ELSE 0
      BY <1>3
    <3>3. u[i] = a \odot (IF i = k THEN 1 ELSE 0)
      OBVIOUS
    <3> HIDE DEF a, f, h, T, u
    <3>4. Tot(h, T) = a \odot Tot(f, T)
      BY <1>2, <3>1, TotScale
    <3> QED BY <3>2, <3>3, <3>4 DEF h
  <2> QED BY <2>1 DEF ColumnTotals
<1>9. Tot(u, S) = v[k]
  <2>1. k \in S /\ {k} \in SUBSET S
    BY <1>0
  <2>2. \A i \in S : u[i] \in Field /\ (i # k => u[i] = 0) /\ u[k] = v[k] /\ v[k] \in Field
    <3>1. \A i \in S : v[i] \in Field
      BY <1>2
    <3>2. \A a \in Field : a \odot 0 = 0 /\ a \odot 1 = a /\ 0 \in Field
      BY FieldLaws, FieldPrime DEF Field
    <3> QED BY <2>1, <3>1, <3>2
  <2> HIDE DEF u, S
  <2>3. Tot(u, {k}) = Tot(u, S)
    BY <1>2, <2>1, <2>2, TotOfPart
  <2>4. u[k] \in Field /\ u[k] = v[k]
    BY <2>1, <2>2
  <2>5. u[k] \in Nat /\ Res(P, u[k]) = u[k]
    BY <2>4, FieldType
  <2>6. Tot(u, {k}) = u[k]
    BY <2>5, SumOne DEF Tot
  <2> QED BY <2>3, <2>4, <2>6
<1>10. Tot(Terms(c, N, x), T) = Tot(u, S)
  <2> DEFINE tt == Terms(c, N, x)
  <2> HIDE DEF tt, m, u, S, T
  <2>1. RowTotals(tt, m, T, S)
    BY <1>7 DEF tt
  <2>2. Tot(tt, T) = Tot(u, S)
    BY <1>2, <1>6, <1>8, <2>1, TotExchange
  <2> QED BY <2>2 DEF tt
<1> QED BY <1>5, <1>9, <1>10

ValuesOn(F, d)  == [k \in Places(d.order) |-> F[ElementByIndex(d, k)]]
Extension(v, d) == [x \in Field |-> Evaluation(CoefficientsFrom(v, d), x)]

\* Coefficients, and the value of the polynomial that has them.
LEMMA EvaluationOfTerms ==
  ASSUME NEW L \in Nat, L <= P, NEW c \in [1..L -> Field], NEW x \in Field
  PROVE  /\ Evaluation(c, x) = Tot(Terms(c, L, x), 1..L)
         /\ Evaluation(c, x) \in Field
         /\ c \in Seq(Field) /\ Len(c) = L /\ Polynomial(c, L) /\ Polynomial(c, P)
<1> DEFINE f == [n \in DOMAIN c |-> c[n] * Power[x][n - 1]]
           p == [n \in 1..L |-> Power[x][n - 1]]
           g == Terms(c, L, x)
           S == 1..L
<1>1. Evaluation(c, x) = Total(f)
  BY DEF Evaluation
<1>2. Products(f, g, c, p, S)
  <2>1. ASSUME NEW n \in 1..L
        PROVE  c[n] \in Field /\ p[n] \in Field /\ f[n] = c[n] * p[n] /\ g[n] = c[n] \odot p[n]
    <3>1. Power[x][n - 1] \in Field /\ g[n] = c[n] \odot Power[x][n - 1]
      BY TermsType
    <3> QED BY <3>1
  <2>2. DOMAIN f = S
    OBVIOUS
  <2> HIDE DEF f, g, p
  <2> QED BY <2>1, <2>2 DEF Products
<1>3. IsFiniteSet(S)
  BY FS_Interval
<1> HIDE DEF f, g, p, S
<1>4. Total(f) = Tot(g, S) /\ Tot(g, S) \in Field
  BY <1>2, <1>3, TotalOfProducts
<1>5. c \in Seq(Field) /\ Len(c) = L
  BY FunctionIsSeq
<1> QED BY <1>1, <1>4, <1>5, FieldPrime DEF g, S, Polynomial

\* Zeros behind the coefficients do not matter.
LEMMA PaddedSame ==
  ASSUME NEW L \in Nat, NEW k \in Nat, L <= k, k <= P, NEW c \in [1..L -> Field],
         NEW a \in [1..k -> Field], \A n \in 1..k : a[n] = IF n <= L THEN c[n] ELSE 0,
         NEW x \in Field
  PROVE  Evaluation(a, x) = Evaluation(c, x)
<1>1. Padded(c, L, a, k)
  <2>1. \A n \in 1..L : c[n] = a[n]
    <3>1. ASSUME NEW n \in 1..L PROVE n \in 1..k /\ n <= L
      OBVIOUS
    <3> QED BY <3>1
  <2>2. \A n \in 1..k : n > L => a[n] = 0
    OBVIOUS
  <2>3. c \in Seq(Field) /\ Len(c) = L
    BY FunctionIsSeq
  <2> QED BY <2>1, <2>2, <2>3 DEF Padded
<1>2. Evaluation(c, x) = Total([n \in 1..k |-> a[n] * Power[x][n - 1]])
  BY <1>1, FieldPrime, PaddedValue, SMTT(25)
<1>3. Evaluation(a, x) = Total([n \in 1..k |-> a[n] * Power[x][n - 1]])
  BY DEF Evaluation
<1> QED BY <1>2, <1>3

\* a is what the inverse transform makes of the values of F, cut to k coefficients.
CoefficientsOf(a, F, L, k, d) ==
  /\ Domain(d) /\ L \in Nat /\ k \in Nat /\ L <= k /\ k <= d.order /\ F \in PolyFun(L)
  /\ a = SubSeq(CoefficientsFrom(ValuesOn(F, d), d), 1, k)

\* A polynomial is found again from its values on a domain.
LEMMA Recovered ==
  ASSUME NEW a, NEW F, NEW L, NEW k, NEW d, CoefficientsOf(a, F, L, k, d)
  PROVE  a \in [1..k -> Field] /\ \A x \in Field : Evaluation(a, x) = F[x]
<1> DEFINE v == ValuesOn(F, d)
<1>1. /\ Domain(d) /\ F \in PolyFun(L) /\ a = SubSeq(CoefficientsFrom(v, d), 1, k)
      /\ d.order \in Nat /\ d.order < P /\ P \in Nat /\ L \in Nat /\ k \in Nat /\ L <= k /\ k <= d.order
  BY DivisorQuotient, FieldPrime DEF Domain, CoefficientsOf
<1>2. PICK c : HasCoefficients(F, c, L)
  BY <1>1 DEF PolyFun
<1>3. c \in [1..L -> Field] /\ \A x \in Field : F[x] = Tot(Terms(c, L, x), 1..L)
  BY <1>2 DEF HasCoefficients
<1>4. /\ c \in Seq(Field) /\ Len(c) = L /\ Polynomial(c, P) /\ Polynomial(c, L)
      /\ \A x \in Field : Evaluation(c, x) = F[x]
  <2>1. 0 \in Field /\ L <= P
    BY <1>1 DEF Field
  <2> QED BY <1>1, <1>3, <2>1, EvaluationOfTerms
<1>5. v = EvaluatedOver(c, d)
  <2>1. \A i \in 0..(d.order - 1) : F[ElementByIndex(d, i)] = Evaluation(c, ElementByIndex(d, i))
    BY <1>1, <1>4, ElementValue
  <2> QED BY <2>1 DEF ValuesOn, EvaluatedOver, Places
<1> DEFINE N == d.order
           C == [n \in 1..N |-> IF n <= L THEN c[n] ELSE 0]
<1>6. CoefficientsFrom(v, d) = C
  <2>1. Polynomial(c, d.order)
    BY <1>1, <1>4 DEF Polynomial
  <2> QED BY <1>1, <1>4, <1>5, <2>1, CoefficientsValue
<1>7. N \in Nat /\ k <= N /\ N < P /\ 0 \in Field /\ L \in Nat /\ k \in Nat /\ L <= k
  BY <1>1 DEF Field
<1> HIDE DEF N, v
<1>8. C \in [1..N -> Field] /\ \A n \in 1..N : C[n] = IF n <= L THEN c[n] ELSE 0
  <2>1. ASSUME NEW n \in 1..N PROVE C[n] \in Field /\ C[n] = IF n <= L THEN c[n] ELSE 0
    <3>1. n <= L => n \in 1..L
      BY <1>7
    <3>2. n <= L => c[n] \in Field
      BY <1>3, <3>1
    <3>3. C[n] = IF n <= L THEN c[n] ELSE 0
      OBVIOUS
    <3> QED BY <1>7, <3>2, <3>3
  <2> QED BY <2>1
<1> HIDE DEF C
<1>9. a \in [1..k -> Field] /\ \A n \in 1..k : a[n] = IF n <= L THEN c[n] ELSE 0
  <2>1. C \in Seq(Field) /\ Len(C) = N
    BY <1>7, <1>8, FunctionIsSeq
  <2>2. SubSeq(C, 0 + 1, 0 + k) = [i \in 1..k |-> C[0 + i]]
    BY <1>7, <2>1, CutType
  <2>3. a = [i \in 1..k |-> C[0 + i]]
    BY <1>1, <1>6, <2>2
  <2>4. ASSUME NEW n \in 1..k PROVE a[n] = C[n] /\ n \in 1..N
    BY <1>7, <2>3
  <2>5. ASSUME NEW n \in 1..k PROVE a[n] \in Field /\ a[n] = IF n <= L THEN c[n] ELSE 0
    BY <1>8, <2>4
  <2>6. a = [n \in 1..k |-> a[n]]
    BY <2>3
  <2> QED BY <2>5, <2>6
<1>10. ASSUME NEW x \in Field PROVE Evaluation(a, x) = F[x]
  <2>1. k <= P
    BY <1>7, FieldPrime
  <2>2. Evaluation(a, x) = Evaluation(c, x)
    BY <1>3, <1>7, <1>9, <2>1, PaddedSame
  <2> QED BY <1>4, <2>2
<1> QED BY <1>9, <1>10

\* The polynomial through given values.
LEMMA ExtensionLaws ==
  ASSUME NEW d, Domain(d), NEW v, Vector(v, d)
  PROVE  /\ Extension(v, d) \in PolyFun(d.order)
         /\ \A k \in Places(d.order) : Extension(v, d)[ElementByIndex(d, k)] = v[k]
         /\ \A F \in PolyFun(d.order) :
              (\A k \in Places(d.order) : F[ElementByIndex(d, k)] = v[k]) => F = Extension(v, d)
<1> DEFINE c == CoefficientsFrom(v, d)
           E == Extension(v, d)
<1>1. d.order \in Nat /\ d.order <= P /\ d.order \in Nat \ {0}
  BY DivisorQuotient, FieldPrime DEF Domain
<1>2. c \in [1..d.order -> Field] /\ \A k \in Places(d.order) : Tot(Terms(c, d.order, ElementByIndex(d, k)), 1..d.order) = v[k]
  <2>1. 0 \in Places(d.order) /\ c = CoefficientsFrom(v, d)
    BY <1>1 DEF Places
  <2> HIDE DEF c
  <2>2. ASSUME NEW k \in Places(d.order)
        PROVE  c \in [1..d.order -> Field] /\ Tot(Terms(c, d.order, ElementByIndex(d, k)), 1..d.order) = v[k]
    BY <2>1, Interpolated
  <2> QED BY <2>1, <2>2
<1>3. \A x \in Field : E[x] = Evaluation(c, x)
  BY DEF Extension
<1> HIDE DEF c
<1>4. \A x \in Field : E[x] = Tot(Terms(c, d.order, x), 1..d.order) /\ E[x] \in Field
  BY <1>1, <1>2, <1>3, EvaluationOfTerms
<1>5. E \in [Field -> Field]
  BY <1>4 DEF Extension
<1>6. E \in PolyFun(d.order)
  BY <1>2, <1>4, <1>5 DEF PolyFun, HasCoefficients
<1>7. \A k \in Places(d.order) : E[ElementByIndex(d, k)] = v[k]
  BY <1>2, <1>4, ElementValue DEF Places
<1>8. ASSUME NEW F \in PolyFun(d.order), \A k \in Places(d.order) : F[ElementByIndex(d, k)] = v[k]
      PROVE  F = E
  <2>1. v = ValuesOn(F, d)
    <3>1. v = [k \in Places(d.order) |-> v[k]]
      BY DEF Vector
    <3>2. v = [k \in Places(d.order) |-> F[ElementByIndex(d, k)]]
      BY <1>8, <3>1
    <3> QED BY <3>2 DEF ValuesOn
  <2> DEFINE a == SubSeq(CoefficientsFrom(v, d), 1, d.order)
  <2>2. \A x \in Field : Evaluation(a, x) = F[x]
    <3>1. a = SubSeq(CoefficientsFrom(v, d), 1, d.order)
      OBVIOUS
    <3>2. CoefficientsOf(a, F, d.order, d.order, d)
      BY <1>1, <2>1, <3>1 DEF CoefficientsOf
    <3> HIDE DEF a
    <3> QED BY <3>2, Recovered
  <2>3. a = c
    <3>1. c \in Seq(Field) /\ Len(c) = d.order
      BY <1>1, <1>2, FunctionIsSeq
    <3>2. SubSeq(c, 1, d.order) = c
      BY <1>1, <1>2, <3>1
    <3> QED BY <3>2 DEF c
  <2> HIDE DEF a
  <2>4. F \in [Field -> Field] /\ \A x \in Field : F[x] = E[x]
    BY <1>3, <2>2, <2>3 DEF PolyFun
  <2> QED BY <1>5, <2>4
<1> QED BY <1>6, <1>7, <1>8 DEF E

-----------------------------------------------------------------------------
(***************************************************************************)
(* A vector cut into rows.                                                 *)
(***************************************************************************)
\* The kth place of the ith row of size N.
PlaceIn(N, i, k) == (i - 1) * N + k

\* Where a place of a row is in the vector, and back.
LEMMA PlaceInRow ==
  ASSUME NEW N \in Nat \ {0}, NEW V \in Nat, NEW i \in 1..V, NEW k \in Places(N)
  PROVE  /\ PlaceIn(N, i, k) \in Places(V * N)
         /\ PlaceIn(N, i, k) % N = k /\ PlaceIn(N, i, k) \div N = i - 1
<1> DEFINE q == i - 1
           n == PlaceIn(N, i, k)
<1>1. q \in Nat /\ q + 1 <= V /\ k \in 0..(N - 1) /\ n = (q ** N) ++ k
  BY DEF Places, PlaceIn, ++, **
<1>2. n = q * N + k
  BY DEF PlaceIn
<1> HIDE DEF q, n
<1>3. n \div N = q /\ n % N = k
  BY <1>1, QuotientUnique
<1>4. (q + 1) * N <= V * N
  <2> DEFINE e == V - (q + 1)
  <2>1. e \in Nat /\ V = (q + 1) + e
    BY <1>1
  <2> HIDE DEF e
  <2>2. V * N = (q + 1) * N + e * N /\ e * N \in Nat /\ (q + 1) * N \in Nat
    BY <1>1, <2>1
  <2> DEFINE u == e * N
             t == (q + 1) * N
  <2> HIDE DEF u, t
  <2>3. V * N = t + u /\ u \in Nat /\ t \in Nat
    BY <2>2 DEF u, t
  <2>4. t <= V * N
    BY <2>3
  <2> QED BY <2>4 DEF t
<1>5. n \in 0..(V * N - 1)
  <2>1. (q + 1) * N = q * N + N /\ q * N \in Nat /\ V * N \in Nat
    BY <1>1
  <2> DEFINE t == q * N
             u == V * N
  <2> HIDE DEF t, u
  <2>2. t \in Nat /\ u \in Nat /\ t + N <= u /\ n = t + k
    BY <1>2, <1>4, <2>1 DEF t, u
  <2>3. n \in 0..(u - 1)
    BY <1>1, <2>2
  <2> QED BY <2>3 DEF u
<1> QED BY <1>3, <1>5 DEF Places, n, q

\* The places that leave the same remainder, row after row.
LEMMA PlacesOfColumn ==
  ASSUME NEW N \in Nat \ {0}, NEW V \in Nat, NEW k \in Places(N), NEW T, T = {n \in Places(V * N) : n % N = k},
         NEW b, b = [i \in 1..V |-> PlaceIn(N, i, k)]
  PROVE  OneToOne(b, 1..V, T)
<1>1. b \in [1..V -> T]
  BY PlaceInRow
<1>2. ASSUME NEW i \in 1..V, NEW j \in 1..V, b[i] = b[j] PROVE i = j
  <2>1. b[i] \div N = i - 1 /\ b[j] \div N = j - 1
    BY PlaceInRow
  <2> DEFINE q == b[i] \div N
  <2> HIDE DEF q
  <2>2. q = i - 1 /\ q = j - 1
    BY <1>2, <2>1 DEF q
  <2> QED BY <2>2
<1>3. ASSUME NEW n \in T PROVE \E i \in 1..V : b[i] = n
  <2> DEFINE q == n \div N
             M == V * N
             e == N * q
  <2>1. n \in Nat /\ n % N = k /\ M \in Nat /\ n < M
    BY DEF Places
  <2>2. q \in Nat /\ n = e + k /\ k \in Nat /\ e \in Nat
    <3>1. q \in Nat /\ n = (N * q) + (n % N)
      BY <2>1, DivisionType
    <3>2. k \in Nat
      BY DEF Places
    <3> HIDE DEF q
    <3>3. N * q \in Nat
      BY <3>1
    <3>4. n = (N * q) + k
      BY <2>1, <3>1
    <3> QED BY <3>1, <3>2, <3>3, <3>4
  <2>3. q < V
    <3> SUFFICES ASSUME ~(q < V) PROVE FALSE
      OBVIOUS
    <3> DEFINE u == q - V
    <3>1. u \in Nat /\ q = V + u
      BY <2>2
    <3> HIDE DEF u, q
    <3>2. e = M + N * u /\ N * u \in Nat
      BY <3>1
    <3> DEFINE t == N * u
    <3> HIDE DEF e, M, t
    <3>3. e = M + t /\ t \in Nat
      BY <3>2 DEF t
    <3> QED BY <2>1, <2>2, <3>3
  <2>4. PlaceIn(N, q + 1, k) = n
    <3>1. (q + 1) - 1 = q /\ q * N = e
      BY <2>2
    <3> QED BY <2>2, <3>1 DEF PlaceIn
  <2>5. q + 1 \in 1..V
    BY <2>2, <2>3
  <2> HIDE DEF q
  <2> QED BY <2>4, <2>5
<1> QED BY <1>1, <1>2, <1>3 DEF OneToOne

\* A total is that of the totals of the columns.
ColumnsOf(g, f, N, V) ==
  /\ \A n \in Places(V * N) : f[n] \in Field
  /\ \A k \in Places(N) : g[k] = Tot([i \in 1..V |-> f[PlaceIn(N, i, k)]], 1..V)

\* The total of a vector is that of the totals of its columns.
LEMMA TotOfColumns ==
  ASSUME NEW N \in Nat \ {0}, NEW V \in Nat, NEW f, NEW g, ColumnsOf(g, f, N, V)
  PROVE  Tot(g, Places(N)) = Tot(f, Places(V * N))
<1> DEFINE S == Places(V * N)
           I == Places(N)
           F == [k \in I |-> {n \in S : n % N = k}]
           h == [k \in I |-> Sum(f, F[k])]
<1>1. IsFiniteSet(S) /\ IsFiniteSet(I) /\ IsFiniteSet(1..V)
  <2>1. V * N \in Nat
    OBVIOUS
  <2> DEFINE M == V * N
  <2> HIDE DEF M
  <2>2. 0 \in Int /\ M - 1 \in Int /\ N - 1 \in Int /\ 1 \in Int /\ V \in Int
    BY <2>1 DEF M
  <2>3. IsFiniteSet(0..(M - 1)) /\ IsFiniteSet(0..(N - 1)) /\ IsFiniteSet(1..V)
    BY <2>2, FS_Interval
  <2> QED BY <2>3 DEF Places, M
<1>2. \A n \in S : f[n] \in Field /\ f[n] \in Nat
  BY FieldType DEF ColumnsOf
<1>3. ASSUME NEW k \in I PROVE F[k] \in SUBSET S /\ IsFiniteSet(F[k]) /\ h[k] \in Nat /\ g[k] = Res(P, h[k])
  <2> DEFINE b == [i \in 1..V |-> PlaceIn(N, i, k)]
             T == F[k]
             u == [i \in 1..V |-> f[PlaceIn(N, i, k)]]
  <2>1. T = {n \in S : n % N = k} /\ T \in SUBSET S
    OBVIOUS
  <2>2. OneToOne(b, 1..V, T)
    <3>1. b = [i \in 1..V |-> PlaceIn(N, i, k)]
      OBVIOUS
    <3> HIDE DEF b, T
    <3> QED BY <2>1, <3>1, PlacesOfColumn
  <2>3. IsFiniteSet(T)
    BY <1>1, <2>1, FS_Subset
  <2>4. \A i \in 1..V : u[i] = f[b[i]]
    OBVIOUS
  <2>5. g[k] = Tot(u, 1..V)
    BY DEF ColumnsOf
  <2>6. h[k] = Sum(f, T)
    OBVIOUS
  <2> HIDE DEF T, u, b, h, S
  <2>7. Tot(u, 1..V) = Tot(f, T)
    BY <1>1, <1>2, <2>1, <2>2, <2>3, <2>4, TotReindexed
  <2>8. Sum(f, T) \in Nat
    BY <1>2, <2>1, <2>3, SumType
  <2> QED BY <2>1, <2>3, <2>5, <2>6, <2>7, <2>8 DEF Tot, T
<1>4. Sum(h, I) = Sum(f, S)
  <2>1. F \in [I -> SUBSET S]
    OBVIOUS
  <2>2. \A i, j \in I : i # j => F[i] \intersect F[j] = {}
    OBVIOUS
  <2>3. \A n \in S : \E k \in I : n \in F[k]
    <3>1. \A n \in S : n \in Nat /\ n % N \in I
      <4>1. \A n \in S : n \in Nat
        BY DEF Places
      <4> HIDE DEF S
      <4> QED BY <4>1, DivisionType DEF Places
    <3> QED BY <3>1
  <2>4. \A k \in I : h[k] = Sum(f, F[k])
    OBVIOUS
  <2> HIDE DEF S, I, F, h
  <2>5. S \in SUBSET S /\ \A n \in S : n \in S <=> \E k \in I : n \in F[k]
    BY <2>3
  <2> QED BY <1>1, <1>2, <2>1, <2>2, <2>4, <2>5, SumFamily
<1>5. Tot(g, I) = Tot(h, I)
  <2>1. \A k \in I : h[k] \in Nat /\ g[k] = Res(P, h[k])
    BY <1>3
  <2> HIDE DEF I, h
  <2> QED BY <1>1, <2>1, TotLaws
<1> QED BY <1>4, <1>5 DEF Tot

-----------------------------------------------------------------------------
(***************************************************************************)
(* The configuration of Ligero.                                            *)
(***************************************************************************)
\* What defines the powers of two.
Doubles(f) == f = [n \in Nat |-> IF n = 0 THEN 1 ELSE 2 * f[n - 1]]

\* The equation of TwoTo.
LEMMA TwoToEquation == TwoTo[0] = 1 /\ \A n \in Nat : TwoTo[n + 1] = 2 * TwoTo[n]
<1>1. Doubles(Pow(2))
  <2> DEFINE g == Pow(2)
             h == [n \in Nat |-> IF n = 0 THEN 1 ELSE 2 * g[n - 1]]
  <2>1. g \in [Nat -> Nat] /\ g[0] = 1 /\ \A n \in Nat : g[n + 1] = g[n] ** 2
    <3>1. 2 \in Nat
      OBVIOUS
    <3>2. \E f : f \in [Nat -> Nat] /\ StepwiseOn(1, Times(2), f)
      <4>1. Times(2) \in [Nat -> [Nat -> Nat]]
        BY <3>1, NatProduct DEF Times
      <4>2. \E f \in [Nat -> Nat] : StepwiseOn(1, Times(2), f)
        BY <4>1, NatRecursionExists
      <4> QED BY <4>2
    <3>3. g \in [Nat -> Nat]
      BY <3>2, Zenon DEF Pow
    <3> QED BY <3>1, <3>3, PowEquation
  <2> HIDE DEF g
  <2>2. ASSUME NEW n \in Nat PROVE g[n] = h[n]
    <3>1. CASE n = 0
      BY <2>1, <3>1
    <3>2. CASE n # 0
      <4> DEFINE m == n - 1
      <4>1. m \in Nat /\ n = m + 1 /\ h[n] = 2 * g[m]
        BY <3>2
      <4> HIDE DEF m, h
      <4>2. g[n] = g[m] ** 2 /\ g[m] \in Nat
        BY <2>1, <4>1
      <4> QED BY <4>1, <4>2 DEF **
    <3> QED BY <3>1, <3>2
  <2>3. h = [n \in Nat |-> h[n]] /\ g = [n \in Nat |-> g[n]]
    BY <2>1
  <2>4. g = h
    BY <2>2, <2>3
  <2> QED BY <2>4 DEF Doubles, g
<1>2. TwoTo = CHOOSE f : Doubles(f)
  BY Zenon DEF TwoTo, Doubles
<1>3. Doubles(TwoTo)
  BY <1>1, <1>2
<1>4. \A n \in Nat : TwoTo[n] = IF n = 0 THEN 1 ELSE 2 * TwoTo[n - 1]
  BY <1>3, Zenon DEF Doubles
<1>5. TwoTo[0] = 1
  BY <1>4
<1>6. ASSUME NEW n \in Nat PROVE TwoTo[n + 1] = 2 * TwoTo[n]
  <2> DEFINE m == n + 1
  <2>1. m \in Nat /\ m # 0 /\ m - 1 = n
    OBVIOUS
  <2> HIDE DEF m
  <2>2. TwoTo[m] = 2 * TwoTo[n]
    BY <1>4, <2>1
  <2> QED BY <2>2 DEF m
<1> QED BY <1>5, <1>6

\* Powers of two grow, and every sum of exponents is a product.
LEMMA TwoToLaws ==
  ASSUME NEW m \in Nat, NEW n \in Nat
  PROVE  TwoTo[n] \in Nat \ {0} /\ n < TwoTo[n] /\ TwoTo[m + n] = TwoTo[m] * TwoTo[n]
<1> DEFINE Q == {k \in Nat : TwoTo[k] \in Nat /\ k < TwoTo[k]}
           R == {k \in Nat : TwoTo[m + k] = TwoTo[m] * TwoTo[k]}
<1>1. 0 \in Q
  BY TwoToEquation
<1>2. ASSUME NEW k \in Nat, k \in Q PROVE k + 1 \in Q
  <2>1. TwoTo[k] \in Nat /\ k < TwoTo[k] /\ TwoTo[k + 1] = 2 * TwoTo[k]
    BY <1>2, TwoToEquation
  <2> QED BY <2>1
<1> HIDE DEF Q
<1>3. Nat \subseteq Q
  BY <1>1, <1>2, NatSetInduction
<1>4. \A k \in Nat : TwoTo[k] \in Nat /\ k < TwoTo[k]
  BY <1>3 DEF Q
<1>5. 0 \in R
  <2>1. TwoTo[m] * 1 = TwoTo[m] /\ m + 0 = m
    BY <1>4
  <2> QED BY <2>1, TwoToEquation
<1>6. ASSUME NEW k \in Nat, k \in R PROVE k + 1 \in R
  <2> DEFINE a == TwoTo[m]
             b == TwoTo[k]
             c == TwoTo[m + k]
  <2>1. c = a * b /\ a \in Nat /\ b \in Nat
    BY <1>4, <1>6
  <2>2. TwoTo[k + 1] = 2 * b /\ TwoTo[(m + k) + 1] = 2 * c /\ m + (k + 1) = (m + k) + 1
    BY TwoToEquation
  <2>3. TwoTo[m + (k + 1)] = 2 * c
    BY <2>2
  <2> HIDE DEF a, b, c
  <2>4. 2 * c = a * (2 * b)
    BY <2>1
  <2> QED BY <2>2, <2>3, <2>4 DEF a
<1> HIDE DEF R
<1>7. Nat \subseteq R
  BY <1>5, <1>6, NatSetInduction
<1>8. TwoTo[m + n] = TwoTo[m] * TwoTo[n]
  BY <1>7 DEF R
<1>9. TwoTo[n] \in Nat /\ n < TwoTo[n]
  BY <1>4
<1> QED BY <1>8, <1>9

\* There is a smallest dimension that is large enough.
LEMMA DimensionType ==
  ASSUME NEW num_vars \in Nat
  PROVE  SystematicDomainDim(num_vars) \in Nat
<1> DEFINE n == num_vars * InverseRatio
           Enough(d) == TwoTo[2 * d] >= n
           K == {k \in Nat \ {0} : Enough(k - 1)}
<1>1. n \in Nat
  BY LigeroAssumption
<1> HIDE DEF n
<1>2. n + 1 \in K
  <2>1. 2 * n \in Nat /\ (n + 1) - 1 = n
    BY <1>1
  <2>2. 2 * n < TwoTo[2 * n] /\ TwoTo[2 * n] \in Nat
    BY <2>1, TwoToLaws
  <2>3. Enough(n)
    BY <1>1, <2>1, <2>2
  <2> QED BY <1>1, <2>1, <2>3
<1>3. PICK k \in K : \A j \in K : k <= j
  <2>1. K \in SUBSET (Nat \ {0})
    OBVIOUS
  <2> HIDE DEF K
  <2> QED BY <1>2, <2>1, LeastExists
<1> DEFINE d == k - 1
<1>4. d \in 0..n /\ Enough(d) /\ k \in Nat
  <2>1. k \in Nat \ {0} /\ Enough(k - 1)
    OBVIOUS
  <2>2. k <= n + 1
    <3> HIDE DEF K
    <3> QED BY <1>2, <1>3
  <2> QED BY <1>1, <2>1, <2>2
<1>5. \A e \in 0..(d - 1) : TwoTo[2 * e] < n
  <2> SUFFICES ASSUME NEW e \in 0..(d - 1), ~(TwoTo[2 * e] < n) PROVE FALSE
    OBVIOUS
  <2>1. e \in Nat /\ 2 * e \in Nat /\ e + 1 < k /\ (e + 1) - 1 = e
    BY <1>3, <1>4
  <2>2. TwoTo[2 * e] \in Nat
    BY <2>1, TwoToLaws
  <2>3. e + 1 \in K
    BY <1>1, <2>1, <2>2
  <2>4. k <= e + 1
    <3> HIDE DEF K
    <3> QED BY <1>3, <2>3
  <2> QED BY <1>4, <2>1, <2>4
<1> HIDE DEF d, K
<1>6. \E x \in 0..n : TwoTo[2 * x] >= n /\ \A e \in 0..(x - 1) : TwoTo[2 * e] < n
  BY <1>4, <1>5
<1>7. SystematicDomainDim(num_vars) \in 0..n
  BY <1>6 DEF SystematicDomainDim, n
<1> QED BY <1>1, <1>7

\* So many rows hold a vector.
LEMMA RowsSuffice ==
  ASSUME NEW m \in Nat, NEW n \in Nat \ {0}
  PROVE  CeilDiv(m, n) \in Nat /\ m <= CeilDiv(m, n) * n
<1> DEFINE x == (m + n) - 1
           q == x \div n
           r == x % n
<1>1. x \in Nat
  OBVIOUS
<1>2. q \in Nat /\ r \in 0..(n - 1) /\ x = (n * q) + r
  BY <1>1, DivisionType
<1> HIDE DEF q, r
<1>3. n * q \in Nat /\ q * n = n * q
  BY <1>2
<1> DEFINE t == n * q
<1> HIDE DEF t
<1>4. m <= t
  <2>1. t \in Nat /\ (m + n) - 1 = t + r /\ r <= n - 1 /\ r \in Nat
    BY <1>2, <1>3 DEF t
  <2> QED BY <2>1
<1>5. CeilDiv(m, n) = q
  BY DEF CeilDiv, q
<1> QED BY <1>2, <1>3, <1>4, <1>5 DEF t

\* The members of ligero_iop for a setup.
RowSize(s)    == Configured(s.circuit).systematic_domain_size
InputRows(s)  == Configured(s.circuit).num_oracles_input
VectorRows(s) == Configured(s.circuit).num_oracles_vectors
Variables(s)  == Configured(s.circuit).num_vars
Systematic(s) == Configured(s.circuit).systematic_domain
Extended(s)   == Configured(s.circuit).extended_systematic_domain
CodeDomain(s) == Configured(s.circuit).codeword_domain
Width(s)      == InputRows(s) * RowSize(s)
Height(s)     == VectorRows(s) * RowSize(s)

\* What the files say, as it is parsed.
LEMMA ParsedType ==
  ASSUME NEW s \in Setups
  PROVE  /\ IsCircuit(s.circuit) /\ IsWitness(s.circuit, s.witness)
         /\ s.circuit.wires \in Nat \ {0} /\ Variables(s) = s.circuit.wires + 1
         /\ PrimaryInputSize(s.circuit) \in Nat /\ PrimaryInputSize(s.circuit) + 1 <= s.circuit.wires
         /\ Len(s.circuit.constraints) \in Nat
<1>1. IsCircuit(s.circuit) /\ IsWitness(s.circuit, s.witness)
  BY LigeroAssumption
<1>2. /\ s.circuit.wires \in Nat \ {0}
      /\ PrimaryInputSize(s.circuit) \in Nat /\ PrimaryInputSize(s.circuit) + 1 <= s.circuit.wires
      /\ Len(s.circuit.constraints) \in Nat
  BY <1>1 DEF IsCircuit, PrimaryInputSize
<1>3. Variables(s) = num_variables(s.circuit) + 1
  BY DEF Variables, Configured
<1>4. num_variables(s.circuit) = s.circuit.wires
  BY <1>2 DEF num_variables, AuxiliaryInputSize
<1> QED BY <1>1, <1>2, <1>3, <1>4

\* The rows hold the variables and the constraints.
LEMMA RowsHold ==
  ASSUME NEW s \in Setups
  PROVE  /\ RowSize(s) \in Nat \ {0} /\ InputRows(s) \in Nat /\ VectorRows(s) \in Nat
         /\ Variables(s) \in Nat /\ Variables(s) <= Width(s)
         /\ Len(s.circuit.constraints) <= Height(s)
         /\ Width(s) \in Nat /\ Height(s) \in Nat
<1> DEFINE n == num_variables(s.circuit) + 1
           dim == SystematicDomainDim(n)
<1>1. n = Variables(s) /\ n \in Nat
  <2>1. n = Variables(s)
    BY DEF Variables, Configured
  <2> QED BY <2>1, ParsedType
<1>2. /\ RowSize(s) = TwoTo[dim] /\ InputRows(s) = CeilDiv(n, TwoTo[dim])
      /\ VectorRows(s) = CeilDiv(num_constraints(s.circuit), TwoTo[dim])
  BY DEF RowSize, InputRows, VectorRows, Configured
<1> HIDE DEF n
<1>3. dim \in Nat
  BY <1>1, DimensionType
<1> HIDE DEF dim
<1>4. TwoTo[dim] \in Nat \ {0}
  BY <1>3, TwoToLaws
<1>5. CeilDiv(n, TwoTo[dim]) \in Nat /\ n <= CeilDiv(n, TwoTo[dim]) * TwoTo[dim]
  BY <1>1, <1>4, RowsSuffice
<1>6. Len(s.circuit.constraints) \in Nat /\ num_constraints(s.circuit) = Len(s.circuit.constraints)
  BY ParsedType DEF num_constraints
<1> DEFINE m == num_constraints(s.circuit)
<1>7. m \in Nat
  BY <1>6
<1> HIDE DEF m
<1>8. CeilDiv(m, TwoTo[dim]) \in Nat /\ m <= CeilDiv(m, TwoTo[dim]) * TwoTo[dim]
  BY <1>4, <1>7, RowsSuffice
<1>9. RowSize(s) \in Nat \ {0} /\ InputRows(s) \in Nat /\ VectorRows(s) \in Nat
  BY <1>2, <1>4, <1>5, <1>8 DEF m
<1>10. Width(s) \in Nat /\ Height(s) \in Nat
  BY <1>9 DEF Width, Height
<1>11. n <= Width(s)
  BY <1>2, <1>5 DEF Width
<1>12. m <= Height(s)
  BY <1>2, <1>8 DEF Height, m
<1> QED BY <1>1, <1>6, <1>9, <1>10, <1>11, <1>12 DEF m

\* The domains: the systematic one is every second element of the extended one.
LEMMA DomainsOfSetup ==
  ASSUME NEW s \in Setups
  PROVE  /\ Systematic(s) = [order |-> RowSize(s), shift |-> Generator]
         /\ Extended(s) = [order |-> 2 * RowSize(s), shift |-> Generator]
         /\ Domain(Systematic(s)) /\ Domain(Extended(s)) /\ Domain(CodeDomain(s))
         /\ 2 * RowSize(s) <= CodeDomain(s).order /\ CodeDomain(s).order < P
<1> DEFINE n == num_variables(s.circuit) + 1
           dim == SystematicDomainDim(n)
           N == TwoTo[dim]
           T == 2 * N
           K == TwoTo[dim + RS_extra_dimensions]
<1>1. /\ RowSize(s) = N
      /\ Systematic(s) = [order |-> N, shift |-> Generator]
      /\ Extended(s) = [order |-> T, shift |-> Generator]
      /\ CodeDomain(s) = [order |-> K, shift |-> 1]
  BY DEF RowSize, Systematic, Extended, CodeDomain, Configured
<1>2. dim \in Nat /\ RS_extra_dimensions \in Nat \ {0} /\ (P - 1) % K = 0
  <2>1. n = Variables(s)
    BY DEF Variables, Configured
  <2>2. n \in Nat
    BY <2>1, RowsHold
  <2>3. (P - 1) % CodeDomain(s).order = 0
    BY LigeroAssumption DEF CodeDomain
  <2>4. dim \in Nat
    <3> HIDE DEF n
    <3> QED BY <2>2, DimensionType
  <2> QED BY <1>1, <2>3, <2>4, LigeroAssumption
<1> DEFINE r == RS_extra_dimensions - 1
           R == TwoTo[r]
<1>3. N \in Nat \ {0} /\ R \in Nat \ {0} /\ K \in Nat \ {0} /\ K = T * R
  <2>1. r \in Nat /\ dim + 1 \in Nat /\ dim + RS_extra_dimensions = (dim + 1) + r
    BY <1>2
  <2> HIDE DEF dim, r
  <2>2. TwoTo[(dim + 1) + r] = TwoTo[dim + 1] * TwoTo[r] /\ TwoTo[r] \in Nat \ {0}
    BY <2>1, TwoToLaws
  <2>3. TwoTo[dim + 1] = 2 * TwoTo[dim] /\ TwoTo[dim] \in Nat \ {0}
    BY <1>2, TwoToLaws, TwoToEquation
  <2>4. K = (2 * TwoTo[dim]) * TwoTo[r]
    BY <2>1, <2>2, <2>3
  <2>5. K \in Nat \ {0}
    <3>1. TwoTo[(dim + 1) + r] \in Nat \ {0}
      <4>1. (dim + 1) + r \in Nat
        BY <2>1
      <4> QED BY <4>1, TwoToLaws
    <3> QED BY <2>1, <3>1
  <2> QED BY <2>2, <2>3, <2>4, <2>5
<1>4. Divisor(K)
  BY <1>2, <1>3 DEF Divisor
<1> HIDE DEF N, K, R, dim
<1>5. T \in Nat \ {0} /\ K % T = 0
  <2>1. T \in Nat \ {0}
    BY <1>3
  <2> HIDE DEF T
  <2>2. K \in Nat /\ K = (T * R) + 0
    BY <1>3, <2>1
  <2>3. K = (R ** T) ++ 0 /\ 0 \in 0..(T - 1) /\ R \in Nat
    <3>1. T * R = R * T
      BY <1>3, <2>1
    <3> QED BY <1>3, <2>1, <2>2, <3>1 DEF ++, **
  <2>4. K % T = 0
    BY <2>1, <2>2, <2>3, QuotientUnique
  <2> QED BY <2>1, <2>4
<1> HIDE DEF T
<1>6. Divisor(T) /\ T <= K
  <2> DEFINE M == K \div T
  <2>1. M = K \div T
    OBVIOUS
  <2> HIDE DEF M
  <2> QED BY <1>4, <1>5, <2>1, PartsOf
<1>7. T % N = 0 /\ T \div N = 2
  <2>1. T = (2 ** N) ++ 0 /\ 0 \in 0..(N - 1) /\ 2 \in Nat /\ T \in Nat
    BY <1>3 DEF T, ++, **
  <2> QED BY <1>3, <2>1, QuotientUnique
<1>8. Divisor(N)
  <2> DEFINE M == T \div N
  <2>1. M = T \div N
    OBVIOUS
  <2> HIDE DEF M
  <2> QED BY <1>3, <1>6, <1>7, <2>1, PartsOf
<1>9. K < P
  BY <1>4, DivisorQuotient
<1>10. Generator \in Field \ {0} /\ 1 \in Field \ {0}
  <2>1. Generator \in Field /\ Generator \in 1..(P - 1)
    BY FieldGenerator DEF IsGenerator
  <2> QED BY <2>1, FieldPrime DEF Field
<1> QED BY <1>1, <1>4, <1>6, <1>8, <1>9, <1>10 DEF Domain, T

\* The systematic domain is every second element of the extended one.
LEMMA SystematicElements ==
  ASSUME NEW s \in Setups, NEW k \in Places(RowSize(s))
  PROVE  /\ 2 * k \in Places(Extended(s).order) /\ k \in Places(Systematic(s).order)
         /\ ElementByIndex(Extended(s), 2 * k) = ElementByIndex(Systematic(s), k)
         /\ ElementByIndex(Systematic(s), k) \in Field
<1> USE FieldPrime
<1> DEFINE N == RowSize(s)
           T == 2 * N
           R == RootOfUnity(T)
           r == RootOfUnity(N)
<1>1. /\ Systematic(s).order = N /\ Systematic(s).shift = Generator /\ Domain(Systematic(s))
      /\ Extended(s).order = T /\ Extended(s).shift = Generator /\ Domain(Extended(s))
      /\ N \in Nat \ {0}
  BY DomainsOfSetup, RowsHold
<1>2. k \in 0..(N - 1) /\ k \in Nat /\ 2 * k \in 0..(T - 1) /\ 2 * k \in Nat /\ T \in Nat \ {0}
  BY <1>1 DEF Places
<1>3. Res(P, r) = Res(P, Pow(R)[2])
  <2>1. T % N = 0 /\ T \div N = 2
    <3>1. T = (2 ** N) ++ 0 /\ 0 \in 0..(N - 1) /\ 2 \in Nat /\ T \in Nat
      BY <1>1 DEF ++, **
    <3> HIDE DEF T, N
    <3> QED BY <1>1, <3>1, QuotientUnique
  <2>2. Divisor(T)
    BY <1>1 DEF Domain
  <2> HIDE DEF T, N
  <2>3. \A M : M = T \div N => Res(P, RootOfUnity(N)) = Res(P, Pow(RootOfUnity(T))[M])
    BY <1>1, <2>1, <2>2, RootOfPart
  <2> QED BY <2>1, <2>3
<1>4. R \in Nat /\ r \in Nat /\ Pow(R)[2] \in Nat
  BY <1>1, RootValue, PowType DEF Domain
<1> HIDE DEF R, r
<1>5. Res(P, Pow(r)[k]) = Res(P, Pow(R)[2 * k])
  <2>1. Res(P, Pow(r)[k]) = Res(P, Pow(Pow(R)[2])[k])
    BY <1>2, <1>3, <1>4, ResPow
  <2>2. Pow(Pow(R)[2])[k] = Pow(R)[2 * k]
    BY <1>2, <1>4, PowPow
  <2> QED BY <2>1, <2>2
<1>6. RootPower(Systematic(s), k) = Res(P, Pow(r)[k]) /\ RootPower(Extended(s), 2 * k) = Res(P, Pow(R)[2 * k])
  BY <1>1 DEF RootPower, r, R
<1>7. ElementByIndex(Systematic(s), k) = Systematic(s).shift \odot RootPower(Systematic(s), k)
  BY <1>1, <1>2, RootPowerValue
<1>8. ElementByIndex(Extended(s), 2 * k) = Extended(s).shift \odot RootPower(Extended(s), 2 * k)
  BY <1>1, <1>2, RootPowerValue
<1>9. ElementByIndex(Systematic(s), k) \in Field
  BY <1>1, <1>2, ElementValue
<1> QED BY <1>1, <1>2, <1>5, <1>6, <1>7, <1>8, <1>9 DEF Places

-----------------------------------------------------------------------------
(***************************************************************************)
(* Rows and their codewords.                                               *)
(***************************************************************************)
RowOf(s, v, i) == [k \in Places(RowSize(s)) |-> v[(i - 1) * RowSize(s) + k]]
Coded(s, row)  == EvaluatedOver(CoefficientsFrom(row, Systematic(s)), CodeDomain(s))

\* The polynomial of a row, the elements of the systematic and of the codeword domain.
Curve(s, row)  == Extension(row, Systematic(s))
Column(s, k)   == ElementByIndex(Systematic(s), k)
At(s, a)       == ElementByIndex(CodeDomain(s), a)

IsRow(s, row)  == row \in [Places(RowSize(s)) -> Field]

\* f holds, at each position, the values of F, of degree less than L.
Codeword(s, f, F, L) ==
  F \in PolyFun(L) /\ \A a \in Places(CodeDomain(s).order) : f[a] = F[At(s, a)]

\* The curve of a row goes through it, is the only one of its degree that does, and gives the codeword.
LEMMA CurveLaws ==
  ASSUME NEW s \in Setups, NEW row, IsRow(s, row)
  PROVE  /\ Curve(s, row) \in PolyFun(RowSize(s))
         /\ Curve(s, row) \in [Field -> Field]
         /\ \A k \in Places(RowSize(s)) : Curve(s, row)[Column(s, k)] = row[k]
         /\ \A F \in PolyFun(RowSize(s)) :
              (\A k \in Places(RowSize(s)) : F[Column(s, k)] = row[k]) => F = Curve(s, row)
         /\ Codeword(s, Coded(s, row), Curve(s, row), RowSize(s))
<1>1. Systematic(s).order = RowSize(s) /\ Domain(Systematic(s)) /\ Domain(CodeDomain(s))
  BY DomainsOfSetup
<1>2. Vector(row, Systematic(s))
  BY <1>1 DEF Vector, IsRow
<1>3. /\ Curve(s, row) \in PolyFun(RowSize(s))
      /\ \A k \in Places(RowSize(s)) : Curve(s, row)[Column(s, k)] = row[k]
      /\ \A F \in PolyFun(RowSize(s)) :
           (\A k \in Places(RowSize(s)) : F[Column(s, k)] = row[k]) => F = Curve(s, row)
  <2>1. /\ Extension(row, Systematic(s)) \in PolyFun(Systematic(s).order)
        /\ \A k \in Places(Systematic(s).order) : Extension(row, Systematic(s))[ElementByIndex(Systematic(s), k)] = row[k]
        /\ \A F \in PolyFun(Systematic(s).order) :
             (\A k \in Places(Systematic(s).order) : F[ElementByIndex(Systematic(s), k)] = row[k]) => F = Extension(row, Systematic(s))
    BY <1>1, <1>2, ExtensionLaws
  <2> QED BY <1>1, <2>1, Zenon DEF Curve, Column
<1>4. ASSUME NEW a \in Places(CodeDomain(s).order) PROVE Coded(s, row)[a] = Curve(s, row)[At(s, a)]
  <2>1. a \in 0..(CodeDomain(s).order - 1) /\ At(s, a) \in Field
    BY <1>1, ElementValue DEF Places, At
  <2>2. Coded(s, row)[a] = Evaluation(CoefficientsFrom(row, Systematic(s)), At(s, a))
    BY <2>1, EvaluatedType DEF Coded, At
  <2> QED BY <2>1, <2>2 DEF Curve, Extension
<1> QED BY <1>3, <1>4 DEF Codeword, PolyFun

\* Rows that are added have polynomials that are added.
LEMMA CurvePlus ==
  ASSUME NEW s \in Setups, NEW u, NEW v, NEW w, IsRow(s, u), IsRow(s, v), IsRow(s, w),
         \A k \in Places(RowSize(s)) : w[k] = u[k] \uplus v[k]
  PROVE  \A x \in Field : Curve(s, w)[x] = Curve(s, u)[x] \uplus Curve(s, v)[x]
<1> DEFINE F == [x \in Field |-> Curve(s, u)[x] \uplus Curve(s, v)[x]]
<1>1. RowSize(s) \in Nat /\ RowSize(s) <= P
  <2>1. 2 * RowSize(s) <= CodeDomain(s).order /\ CodeDomain(s).order < P /\ RowSize(s) \in Nat \ {0}
        /\ CodeDomain(s).order \in Nat
    BY DomainsOfSetup, RowsHold, DivisorQuotient DEF Domain
  <2> QED BY <2>1, FieldPrime
<1>2. F \in PolyFun(RowSize(s))
  BY <1>1, CurveLaws, PolyFunPlus
<1>3. ASSUME NEW k \in Places(RowSize(s)) PROVE F[Column(s, k)] = w[k]
  <2>1. Column(s, k) \in Field
    BY SystematicElements DEF Column
  <2>2. Curve(s, u)[Column(s, k)] = u[k] /\ Curve(s, v)[Column(s, k)] = v[k]
    BY CurveLaws
  <2> QED BY <2>1, <2>2
<1>4. F = Curve(s, w)
  <2> HIDE DEF F
  <2> QED BY <1>2, <1>3, CurveLaws
<1> QED BY <1>4

\* Vectors of n rows, and the sum of the products of the polynomials of their rows.
IsLong(s, v, n) == \A m \in Places(n * RowSize(s)) : v[m] \in Field
Inner(s, u, v, n) ==
  [x \in Field |-> Tot([i \in 1..n |-> Curve(s, RowOf(s, u, i))[x] \odot Curve(s, RowOf(s, v, i))[x]], 1..n)]

\* The sizes of a row, of a response and of the codeword domain fit each other and the field.
LEMMA SizesFit ==
  ASSUME NEW s \in Setups
  PROVE  /\ RowSize(s) \in Nat \ {0} /\ RowSize(s) <= P /\ 2 * RowSize(s) \in Nat /\ 2 * RowSize(s) <= P
         /\ RowSize(s) + RowSize(s) = 2 * RowSize(s) /\ RowSize(s) + RowSize(s) <= P
         /\ RowSize(s) <= 2 * RowSize(s) /\ IsFiniteSet(Places(RowSize(s)))
         /\ CodeDomain(s).order \in Nat \ {0} /\ 2 * RowSize(s) <= CodeDomain(s).order
         /\ RowSize(s) <= CodeDomain(s).order
<1>1. 2 * RowSize(s) <= CodeDomain(s).order /\ CodeDomain(s).order < P /\ RowSize(s) \in Nat \ {0}
      /\ CodeDomain(s).order \in Nat \ {0} /\ P \in Nat
  BY DomainsOfSetup, RowsHold, DivisorQuotient, FieldPrime DEF Domain
<1>2. 0 \in Int /\ RowSize(s) - 1 \in Int
  BY <1>1
<1>3. IsFiniteSet(0..(RowSize(s) - 1))
  BY <1>2, FS_Interval
<1> QED BY <1>1, <1>3 DEF Places

\* The rows of a vector of field elements.
LEMMA RowOfLong ==
  ASSUME NEW s \in Setups, NEW n \in Nat, NEW v, IsLong(s, v, n), NEW i \in 1..n
  PROVE  /\ IsRow(s, RowOf(s, v, i))
         /\ \A k \in Places(RowSize(s)) : /\ RowOf(s, v, i)[k] = v[PlaceIn(RowSize(s), i, k)]
                                          /\ PlaceIn(RowSize(s), i, k) \in Places(n * RowSize(s))
<1>1. RowSize(s) \in Nat \ {0}
  BY RowsHold
<1>2. ASSUME NEW k \in Places(RowSize(s))
      PROVE  /\ RowOf(s, v, i)[k] = v[PlaceIn(RowSize(s), i, k)]
             /\ PlaceIn(RowSize(s), i, k) \in Places(n * RowSize(s))
  BY <1>1, PlaceInRow DEF RowOf, PlaceIn
<1>3. \A k \in Places(RowSize(s)) : RowOf(s, v, i)[k] \in Field
  BY <1>2 DEF IsLong
<1>4. RowOf(s, v, i) = [k \in Places(RowSize(s)) |-> RowOf(s, v, i)[k]]
  BY DEF RowOf
<1> QED BY <1>2, <1>3, <1>4 DEF IsRow

\* The terms of an inner product.
LEMMA InnerTerms ==
  ASSUME NEW s \in Setups, NEW n \in Nat, NEW u, NEW v, IsLong(s, u, n), IsLong(s, v, n), NEW i \in 1..n
  PROVE  /\ [x \in Field |-> Curve(s, RowOf(s, u, i))[x] \odot Curve(s, RowOf(s, v, i))[x]] \in PolyFun(2 * RowSize(s))
         /\ \A x \in Field : /\ Curve(s, RowOf(s, u, i))[x] \in Field /\ Curve(s, RowOf(s, v, i))[x] \in Field
                             /\ Curve(s, RowOf(s, u, i))[x] \odot Curve(s, RowOf(s, v, i))[x] \in Field
<1> DEFINE F == Curve(s, RowOf(s, u, i))
           G == Curve(s, RowOf(s, v, i))
<1>1. F \in PolyFun(RowSize(s)) /\ G \in PolyFun(RowSize(s)) /\ F \in [Field -> Field] /\ G \in [Field -> Field]
  BY RowOfLong, CurveLaws
<1> HIDE DEF F, G
<1>2. [x \in Field |-> F[x] \odot G[x]] \in PolyFun(RowSize(s) + RowSize(s))
  BY <1>1, SizesFit, PolyFunTimes
<1>3. [x \in Field |-> F[x] \odot G[x]] \in PolyFun(2 * RowSize(s))
  BY <1>2, SizesFit
<1>4. \A x \in Field : F[x] \in Field /\ G[x] \in Field /\ F[x] \odot G[x] \in Field
  <2>1. ASSUME NEW x \in Field PROVE F[x] \in Field /\ G[x] \in Field /\ F[x] \odot G[x] \in Field
    BY <1>1, FieldLaws
  <2> QED BY <2>1
<1> QED BY <1>3, <1>4 DEF F, G

\* An inner product is a polynomial; its values on the systematic domain are those of the
\* columns, and add up to the product of the vectors.
LEMMA InnerLaws ==
  ASSUME NEW s \in Setups, NEW n \in Nat, NEW u, NEW v, IsLong(s, u, n), IsLong(s, v, n)
  PROVE  /\ Inner(s, u, v, n) \in PolyFun(2 * RowSize(s))
         /\ \A k \in Places(RowSize(s)) :
              Inner(s, u, v, n)[Column(s, k)]
                = Tot([i \in 1..n |-> u[PlaceIn(RowSize(s), i, k)] \odot v[PlaceIn(RowSize(s), i, k)]], 1..n)
         /\ Tot([k \in Places(RowSize(s)) |-> Inner(s, u, v, n)[Column(s, k)]], Places(RowSize(s)))
              = Tot([m \in Places(n * RowSize(s)) |-> u[m] \odot v[m]], Places(n * RowSize(s)))
<1> DEFINE N == RowSize(s)
           F == Inner(s, u, v, n)
           G == [i \in 1..n |-> [x \in Field |-> Curve(s, RowOf(s, u, i))[x] \odot Curve(s, RowOf(s, v, i))[x]]]
           f == [m \in Places(n * N) |-> u[m] \odot v[m]]
           g == [k \in Places(N) |-> F[Column(s, k)]]
<1>1. N \in Nat \ {0} /\ 2 * N \in Nat /\ 2 * N <= P /\ IsFiniteSet(1..n)
  BY SizesFit, FS_Interval
<1>2. F \in PolyFun(2 * N)
  <2>1. \A i \in 1..n : G[i] \in PolyFun(2 * N)
    BY InnerTerms
  <2>2. F = [x \in Field |-> Tot([i \in 1..n |-> G[i][x]], 1..n)]
    <3>1. ASSUME NEW x \in Field
          PROVE  [i \in 1..n |-> G[i][x]]
                   = [i \in 1..n |-> Curve(s, RowOf(s, u, i))[x] \odot Curve(s, RowOf(s, v, i))[x]]
      OBVIOUS
    <3> HIDE DEF G
    <3> QED BY <3>1 DEF Inner
  <2> HIDE DEF G, F, N
  <2> QED BY <1>1, <2>1, <2>2, PolyFunSum
<1>3. ASSUME NEW k \in Places(N)
      PROVE  F[Column(s, k)] = Tot([i \in 1..n |-> u[PlaceIn(N, i, k)] \odot v[PlaceIn(N, i, k)]], 1..n)
  <2>1. Column(s, k) \in Field
    BY SystematicElements DEF Column
  <2>2. ASSUME NEW i \in 1..n
        PROVE  /\ Curve(s, RowOf(s, u, i))[Column(s, k)] = u[PlaceIn(N, i, k)]
               /\ Curve(s, RowOf(s, v, i))[Column(s, k)] = v[PlaceIn(N, i, k)]
    BY RowOfLong, CurveLaws
  <2>3. [i \in 1..n |-> Curve(s, RowOf(s, u, i))[Column(s, k)] \odot Curve(s, RowOf(s, v, i))[Column(s, k)]]
          = [i \in 1..n |-> u[PlaceIn(N, i, k)] \odot v[PlaceIn(N, i, k)]]
    BY <2>2
  <2> QED BY <2>1, <2>3 DEF Inner
<1>4. ColumnsOf(g, f, N, n)
  <2>1. ASSUME NEW m \in Places(n * N) PROVE f[m] \in Field
    <3>1. u[m] \in Field /\ v[m] \in Field /\ f[m] = u[m] \odot v[m]
      BY DEF IsLong
    <3> HIDE DEF f
    <3> QED BY <3>1, FieldLaws, ZenonT(40)
  <2>2. ASSUME NEW k \in Places(N) PROVE g[k] = Tot([i \in 1..n |-> f[PlaceIn(N, i, k)]], 1..n)
    <3>1. ASSUME NEW i \in 1..n PROVE PlaceIn(N, i, k) \in Places(n * N)
      BY <1>1, PlaceInRow
    <3>2. [i \in 1..n |-> f[PlaceIn(N, i, k)]] = [i \in 1..n |-> u[PlaceIn(N, i, k)] \odot v[PlaceIn(N, i, k)]]
      BY <3>1
    <3>3. g[k] = F[Column(s, k)]
      OBVIOUS
    <3> HIDE DEF f, g
    <3> QED BY <1>3, <3>2, <3>3
  <2> HIDE DEF f, g
  <2> QED BY <2>1, <2>2 DEF ColumnsOf
<1> HIDE DEF f, g
<1>5. Tot(g, Places(N)) = Tot(f, Places(n * N))
  BY <1>1, <1>4, TotOfColumns
<1> QED BY <1>2, <1>3, <1>5 DEF f, g

\* z is v and w added up.
Adds(s, z, v, w, n) ==
  /\ IsLong(s, v, n) /\ IsLong(s, w, n) /\ IsLong(s, z, n)
  /\ \A m \in Places(n * RowSize(s)) : z[m] = v[m] \uplus w[m]

\* The curve of a sum of vectors, row by row.
LEMMA CurvesPlus ==
  ASSUME NEW s \in Setups, NEW n \in Nat, NEW z, NEW v, NEW w, Adds(s, z, v, w, n), NEW i \in 1..n,
         NEW x \in Field
  PROVE  Curve(s, RowOf(s, z, i))[x] = Curve(s, RowOf(s, v, i))[x] \uplus Curve(s, RowOf(s, w, i))[x]
<1>1. IsRow(s, RowOf(s, v, i)) /\ IsRow(s, RowOf(s, w, i)) /\ IsRow(s, RowOf(s, z, i))
  BY RowOfLong DEF Adds
<1>2. ASSUME NEW k \in Places(RowSize(s))
      PROVE  RowOf(s, z, i)[k] = RowOf(s, v, i)[k] \uplus RowOf(s, w, i)[k]
  <2>1. PlaceIn(RowSize(s), i, k) \in Places(n * RowSize(s)) /\ RowOf(s, z, i)[k] = z[PlaceIn(RowSize(s), i, k)]
        /\ RowOf(s, v, i)[k] = v[PlaceIn(RowSize(s), i, k)] /\ RowOf(s, w, i)[k] = w[PlaceIn(RowSize(s), i, k)]
    BY RowOfLong DEF Adds
  <2> QED BY <2>1 DEF Adds
<1> QED BY <1>1, <1>2, CurvePlus

\* An inner product distributes over a sum of vectors.
LEMMA InnerPlus ==
  ASSUME NEW s \in Setups, NEW n \in Nat, NEW u, IsLong(s, u, n), NEW z, NEW v, NEW w, Adds(s, z, v, w, n),
         NEW x \in Field
  PROVE  Inner(s, u, z, n)[x] = Inner(s, u, v, n)[x] \uplus Inner(s, u, w, n)[x]
<1> DEFINE a == [i \in 1..n |-> Curve(s, RowOf(s, u, i))[x]]
           f == [i \in 1..n |-> Curve(s, RowOf(s, v, i))[x]]
           g == [i \in 1..n |-> Curve(s, RowOf(s, w, i))[x]]
           h == [i \in 1..n |-> Curve(s, RowOf(s, z, i))[x]]
           F == [i \in 1..n |-> Curve(s, RowOf(s, u, i))[x] \odot Curve(s, RowOf(s, v, i))[x]]
           G == [i \in 1..n |-> Curve(s, RowOf(s, u, i))[x] \odot Curve(s, RowOf(s, w, i))[x]]
           H == [i \in 1..n |-> Curve(s, RowOf(s, u, i))[x] \odot Curve(s, RowOf(s, z, i))[x]]
<1>1. ASSUME NEW i \in 1..n PROVE a[i] \in Field /\ f[i] \in Field /\ g[i] \in Field
  BY InnerTerms DEF Adds
<1>2. ASSUME NEW i \in 1..n PROVE h[i] = f[i] \uplus g[i]
  BY CurvesPlus
<1>3. ASSUME NEW i \in 1..n PROVE F[i] = a[i] \odot f[i] /\ G[i] = a[i] \odot g[i] /\ H[i] = a[i] \odot h[i]
  OBVIOUS
<1>4. /\ Inner(s, u, v, n)[x] = Tot(F, 1..n) /\ Inner(s, u, w, n)[x] = Tot(G, 1..n)
      /\ Inner(s, u, z, n)[x] = Tot(H, 1..n)
  BY DEF Inner
<1> HIDE DEF a, f, g, h, F, G, H
<1>6. ASSUME NEW i \in 1..n PROVE F[i] \in Field /\ G[i] \in Field /\ H[i] = F[i] \uplus G[i]
  <2> DEFINE b == a[i]
             c == f[i]
             d == g[i]
  <2>1. b \in Field /\ c \in Field /\ d \in Field
    BY <1>1
  <2>2. F[i] = b \odot c /\ G[i] = b \odot d /\ H[i] = b \odot (c \uplus d)
    BY <1>2, <1>3
  <2> HIDE DEF b, c, d
  <2>3. b \odot c \in Field /\ b \odot d \in Field
    BY <2>1, ProductLaws
  <2>4. b \odot (c \uplus d) = (b \odot c) \uplus (b \odot d)
    BY <2>1, DistributiveLaws
  <2> QED BY <2>2, <2>3, <2>4
<1>7. IsFiniteSet(1..n)
  BY FS_Interval
<1>8. Tot(H, 1..n) = Tot(F, 1..n) \uplus Tot(G, 1..n)
  BY <1>6, <1>7, TotPlus
<1> QED BY <1>4, <1>8

-----------------------------------------------------------------------------
(***************************************************************************)
(* The circuit and its witness.                                            *)
(***************************************************************************)
Own(s)     == PrimaryInput(s.circuit, s.witness)
Others(s)  == AuxiliaryInput(s.circuit, s.witness)
Rows(s, M) == Configured(s.circuit).matrices[M]

\* A primary input behind the constant, and the extended witness.
Given(s, primary) ==
  [x \in Places(Width(s)) |-> IF x = 0 THEN 1 ELSE IF x <= Len(primary) THEN primary[x] ELSE 0]
Witnessed(s) ==
  [x \in Places(Width(s)) |->
     IF x < Variables(s) /\ x > Len(Own(s)) THEN Others(s)[x - Len(Own(s))] ELSE Given(s, Own(s))[x]]

\* The rows of a matrix are maps from variables to coefficients.
LEMMA MatrixRows ==
  ASSUME NEW s \in Setups, NEW M \in Matrices
  PROVE  /\ DOMAIN Rows(s, M) = Places(Height(s))
         /\ \A n \in Places(Height(s)) :
              /\ DOMAIN Rows(s, M)[n] \subseteq Places(Variables(s))
              /\ DOMAIN Rows(s, M)[n] \subseteq Places(Width(s))
              /\ \A x \in DOMAIN Rows(s, M)[n] : Rows(s, M)[n][x] \in Field
              /\ n < Len(s.circuit.constraints)
                   => Rows(s, M)[n] = ParsedCombination(s.circuit.constraints[n + 1][M])
              /\ ~(n < Len(s.circuit.constraints)) => Rows(s, M)[n] = << >>
<1> DEFINE c == s.circuit.constraints
           w == s.circuit.wires
<1>1. /\ w \in Nat \ {0} /\ Variables(s) = w + 1 /\ Len(c) \in Nat /\ DOMAIN c = 1..Len(c)
      /\ \A n \in DOMAIN c : /\ DOMAIN c[n][M] \subseteq 0..(w - 1)
                             /\ \A wire \in DOMAIN c[n][M] : c[n][M][wire] \in Field
  BY ParsedType DEF IsCircuit
<1>2. Rows(s, M) = Matrix(ParsedConstraints(s.circuit), M, Height(s))
  BY DEF Rows, Configured, Height, VectorRows, RowSize
<1>3. /\ DOMAIN ParsedConstraints(s.circuit) = 1..Len(c)
      /\ \A n \in 1..Len(c) : ParsedConstraints(s.circuit)[n][M] = ParsedCombination(c[n][M])
  BY <1>1 DEF ParsedConstraints
<1>4. Len(ParsedConstraints(s.circuit)) = Len(c)
  <2> DEFINE h == ParsedConstraints(s.circuit)
  <2>1. h = [n \in 1..Len(c) |-> h[n]]
    BY <1>1 DEF ParsedConstraints
  <2>2. h \in [1..Len(c) -> {h[n] : n \in 1..Len(c)}]
    <3> HIDE DEF h, c
    <3> QED BY <2>1
  <2> HIDE DEF h, c
  <2>3. Len(h) = Len(c)
    BY <1>1, <2>2, FunctionIsSeq
  <2> QED BY <2>3 DEF h
<1>5. /\ Rows(s, M) = [n \in 0..(Height(s) - 1) |-> IF n < Len(c) THEN ParsedConstraints(s.circuit)[n + 1][M] ELSE << >>]
  BY <1>2, <1>4 DEF Matrix
<1>6. w - 1 \in Int /\ Variables(s) <= Width(s) /\ Variables(s) \in Nat /\ Width(s) \in Nat /\ Height(s) \in Nat
  BY <1>1, RowsHold
<1> HIDE DEF c, w
<1>7. ASSUME NEW n \in Places(Height(s))
      PROVE  /\ n < Len(c) => Rows(s, M)[n] = ParsedCombination(c[n + 1][M])
             /\ ~(n < Len(c)) => Rows(s, M)[n] = << >>
  <2>1. n \in 0..(Height(s) - 1) /\ n \in Nat
    BY DEF Places
  <2>2. n < Len(c) => n + 1 \in 1..Len(c)
    BY <1>1, <2>1
  <2> QED BY <1>3, <1>5, <2>1, <2>2
<1>8. ASSUME NEW n \in Places(Height(s))
      PROVE  /\ DOMAIN Rows(s, M)[n] \subseteq Places(Variables(s))
             /\ \A x \in DOMAIN Rows(s, M)[n] : Rows(s, M)[n][x] \in Field
  <2>1. CASE ~(n < Len(c))
    <3>1. DOMAIN << >> = {}
      OBVIOUS
    <3> QED BY <1>7, <2>1, <3>1
  <2>2. CASE n < Len(c)
    <3> DEFINE t == c[n + 1][M]
    <3>1. n + 1 \in DOMAIN c
      BY <1>1, <2>2 DEF Places
    <3>2. DOMAIN t \subseteq 0..(w - 1) /\ \A wire \in DOMAIN t : t[wire] \in Field
      BY <1>1, <3>1
    <3>3. Rows(s, M)[n] = ParsedCombination(t)
      BY <1>7, <2>2
    <3> HIDE DEF t
    <3>4. CASE DOMAIN t = {}
      <4>1. Rows(s, M)[n] = [x \in {0} |-> 0]
        BY <3>3, <3>4 DEF ParsedCombination
      <4>2. 0 \in Places(Variables(s)) /\ 0 \in Field
        BY <1>1, FieldPrime DEF Places, Field
      <4> QED BY <4>1, <4>2
    <3>5. CASE DOMAIN t # {}
      <4>1. Rows(s, M)[n] = t
        BY <3>3, <3>5 DEF ParsedCombination
      <4>2. 0..(w - 1) \subseteq Places(Variables(s))
        BY <1>1 DEF Places
      <4> QED BY <3>2, <4>1, <4>2
    <3> QED BY <3>4, <3>5
  <2> QED BY <2>1, <2>2
<1>9. Places(Variables(s)) \subseteq Places(Width(s))
  BY <1>6 DEF Places
<1>10. DOMAIN Rows(s, M) = Places(Height(s))
  BY <1>5 DEF Places
<1> QED BY <1>7, <1>8, <1>9, <1>10 DEF c

\* The primary and the auxiliary input, and the vectors that hold them.
LEMMA InputsType ==
  ASSUME NEW s \in Setups
  PROVE  /\ Own(s) \in Seq(Field) /\ Len(Own(s)) = PrimaryInputSize(s.circuit)
         /\ \A x \in 1..Len(Own(s)) : Own(s)[x] = s.witness[x + 1]
         /\ \A x \in Nat : x > Len(Own(s)) /\ x < Variables(s)
              => /\ Others(s)[x - Len(Own(s))] \in Field
                 /\ x < s.circuit.wires => Others(s)[x - Len(Own(s))] = s.witness[x + 1]
         /\ Others(s) \in Seq(Field) /\ Len(Others(s)) = s.circuit.wires - Len(Own(s))
         /\ Len(Own(s)) + 1 <= s.circuit.wires /\ Len(Own(s)) \in Nat
<1> DEFINE p == PrimaryInputSize(s.circuit)
           w == s.circuit.wires
           v == s.witness
<1>1. p \in Nat /\ w \in Nat \ {0} /\ p + 1 <= w /\ Variables(s) = w + 1
      /\ v \in Seq(Field) /\ Len(v) = w
  BY ParsedType DEF IsWitness
<1>2. Own(s) = SubSeq(v, 1 + 1, 1 + p)
  <2>1. 1 + 1 = 2 /\ 1 + p = p + 1
    BY <1>1
  <2> QED BY <2>1 DEF Own, PrimaryInput
<1>3. AuxiliaryInputSize(s.circuit) = w - p
  BY DEF AuxiliaryInputSize
<1>4. Others(s) = [n \in 1..(w - p) |-> IF p + 1 + n <= Len(v) THEN v[p + 1 + n] ELSE 0]
  BY <1>3 DEF Others, AuxiliaryInput
<1> HIDE DEF p, w, v
<1>5. Own(s) = [i \in 1..p |-> v[1 + i]] /\ Own(s) \in Seq(Field) /\ Len(Own(s)) = p
  <2>1. 1 \in Nat /\ 1 + p <= Len(v)
    BY <1>1
  <2> QED BY <1>1, <1>2, <2>1, CutType
<1>6. \A x \in 1..p : Own(s)[x] = v[x + 1]
  BY <1>1, <1>5
<1>7. \A n \in 1..w : v[n] \in Field
  BY <1>1
<1>8. 0 \in Field
  BY FieldPrime DEF Field
<1>9. ASSUME NEW n \in 1..(w - p)
      PROVE  /\ Others(s)[n] \in Field
             /\ p + 1 + n <= w => Others(s)[n] = v[p + 1 + n]
  <2>1. p + 1 + n <= w => p + 1 + n \in 1..w
    BY <1>1
  <2> QED BY <1>1, <1>4, <1>7, <1>8, <2>1
<1>10. Others(s) \in [1..(w - p) -> Field] /\ w - p \in Nat
  <2>1. \A n \in 1..(w - p) : Others(s)[n] \in Field
    BY <1>9
  <2>2. Others(s) = [n \in 1..(w - p) |-> Others(s)[n]]
    BY <1>4
  <2> QED BY <1>1, <2>1, <2>2
<1>11. Others(s) \in Seq(Field) /\ Len(Others(s)) = w - p
  BY <1>10, FunctionIsSeq
<1>12. ASSUME NEW x \in Nat, x > p, x < w + 1
       PROVE  /\ Others(s)[x - p] \in Field
              /\ x < w => Others(s)[x - p] = v[x + 1]
  <2> DEFINE n == x - p
  <2>1. n \in 1..(w - p) /\ p + 1 + n = x + 1
    BY <1>1, <1>12
  <2> HIDE DEF n
  <2>2. x < w => p + 1 + n <= w
    BY <1>1, <2>1
  <2> QED BY <1>9, <2>1, <2>2 DEF n
<1> QED BY <1>1, <1>5, <1>6, <1>11, <1>12 DEF p, w, v

\* A primary input behind the constant is a vector of field elements.
LEMMA GivenType ==
  ASSUME NEW s \in Setups, NEW primary \in Seq(Field)
  PROVE  /\ \A x \in Places(Width(s)) : Given(s, primary)[x] \in Field
         /\ IsLong(s, Given(s, primary), InputRows(s))
<1>1. ASSUME NEW x \in Places(Width(s)) PROVE Given(s, primary)[x] \in Field
  <2>1. 1 \in Field /\ 0 \in Field
    BY FieldPrime DEF Field
  <2>2. x \in Nat /\ Len(primary) \in Nat
    BY DEF Places
  <2>3. x # 0 /\ x <= Len(primary) => primary[x] \in Field
    BY <2>2
  <2> QED BY <2>1, <2>3 DEF Given
<1> QED BY <1>1 DEF IsLong, Width

\* The extended witness is a vector of field elements and starts with the witness as circom has it.
LEMMA WitnessedType ==
  ASSUME NEW s \in Setups
  PROVE  /\ \A x \in Places(Width(s)) : Witnessed(s)[x] \in Field
         /\ \A x \in Places(s.circuit.wires) : x \in Places(Width(s)) /\ Witnessed(s)[x] = s.witness[x + 1]
         /\ IsLong(s, Witnessed(s), InputRows(s))
<1>1. ASSUME NEW x \in Places(Width(s)) PROVE Witnessed(s)[x] \in Field
  <2>1. x \in Nat
    BY DEF Places
  <2>2. Given(s, Own(s))[x] \in Field
    BY InputsType, GivenType
  <2>3. Witnessed(s)[x] = IF x < Variables(s) /\ x > Len(Own(s)) THEN Others(s)[x - Len(Own(s))] ELSE Given(s, Own(s))[x]
    BY DEF Witnessed
  <2>4. x < Variables(s) /\ x > Len(Own(s)) => Others(s)[x - Len(Own(s))] \in Field
    BY <2>1, InputsType
  <2> QED BY <2>2, <2>3, <2>4
<1>2. ASSUME NEW x \in Places(s.circuit.wires) PROVE x \in Places(Width(s)) /\ Witnessed(s)[x] = s.witness[x + 1]
  <2> DEFINE p == Len(Own(s))
  <2>1. x \in Nat /\ x < s.circuit.wires /\ s.circuit.wires \in Nat /\ p \in Nat /\ x < Variables(s)
    BY ParsedType, InputsType DEF Places
  <2>2. x \in Places(Width(s))
    BY <2>1, RowsHold DEF Places
  <2>3. Witnessed(s)[x] = IF x < Variables(s) /\ x > p THEN Others(s)[x - p]
                          ELSE IF x = 0 THEN 1 ELSE IF x <= p THEN Own(s)[x] ELSE 0
    BY <2>2 DEF Witnessed, Given
  <2>4. x > p => Others(s)[x - p] = s.witness[x + 1]
    BY <2>1, InputsType
  <2>5. x # 0 /\ x <= p => Own(s)[x] = s.witness[x + 1]
    <3>1. x # 0 /\ x <= p => x \in 1..p
      BY <2>1
    <3> QED BY <3>1, InputsType
  <2>6. x = 0 => s.witness[x + 1] = 1
    BY ParsedType DEF IsWitness
  <2> HIDE DEF p
  <2> QED BY <2>1, <2>2, <2>3, <2>4, <2>5, <2>6
<1> QED BY <1>1, <1>2 DEF IsLong, Width

\* What a combination of wires is worth, and the results, A z, B z and C z.
Claimed(s, n, M) ==
  Total([wire \in DOMAIN s.circuit.constraints[n][M] |->
           s.circuit.constraints[n][M][wire] * s.witness[wire + 1]])
ResultOf(s, M) ==
  [n \in Places(Height(s)) |->
     Total([x \in DOMAIN Rows(s, M)[n] |-> Rows(s, M)[n][x] * Witnessed(s)[x]])]

\* An empty total is zero.
LEMMA TotalOfNothing ==
  ASSUME NEW f, DOMAIN f = {}
  PROVE  Total(f) = 0
<1>1. Total(f) = Res(P, Sum(f, {}))
  BY TotalValue
<1>2. Sum(f, {}) = 0
  BY FS_EmptySet, SumEquation
<1> QED BY <1>1, <1>2, FieldPrime, ResSmall

\* A total of one zero is zero.
LEMMA TotalOfZero ==
  ASSUME NEW f, DOMAIN f = {0}, f[0] = 0
  PROVE  Total(f) = 0
<1>1. Total(f) = Res(P, Sum(f, {0}))
  BY TotalValue
<1>2. Sum(f, {0}) = 0
  BY FS_Singleton, SumZeros
<1> QED BY <1>1, <1>2, FieldPrime, ResSmall

\* Rows and places are finite.
LEMMA RowSubset ==
  ASSUME NEW s \in Setups, NEW M \in Matrices, NEW n \in Places(Height(s))
  PROVE  /\ IsFiniteSet(Places(Width(s))) /\ IsFiniteSet(DOMAIN Rows(s, M)[n])
         /\ DOMAIN Rows(s, M)[n] \in SUBSET Places(Width(s))
         /\ IsFiniteSet(Places(Height(s)))
<1>1. 0 \in Int /\ Width(s) - 1 \in Int /\ Height(s) - 1 \in Int
  BY RowsHold
<1>2. IsFiniteSet(Places(Width(s))) /\ IsFiniteSet(Places(Height(s)))
  BY <1>1, FS_Interval DEF Places
<1>3. DOMAIN Rows(s, M)[n] \in SUBSET Places(Width(s))
  BY MatrixRows
<1> QED BY <1>2, <1>3, FS_Subset

\* The values of the constraints, as they are parsed and in the vectors, are those of the circuit.
LEMMA ConstraintValues ==
  ASSUME NEW s \in Setups, NEW M \in Matrices, NEW n \in 1..Len(s.circuit.constraints)
  PROVE  /\ Evaluated(ParsedConstraints(s.circuit)[n][M], Own(s) \o Others(s)) = Claimed(s, n, M)
         /\ n - 1 \in Places(Height(s)) /\ ResultOf(s, M)[n - 1] = Claimed(s, n, M)
         /\ Claimed(s, n, M) \in Field
<1> DEFINE t == s.circuit.constraints[n][M]
           w == s.circuit.wires
           a == Own(s) \o Others(s)
           u == ParsedCombination(t)
           f == [wire \in DOMAIN t |-> t[wire] * s.witness[wire + 1]]
           g == [x \in DOMAIN u |-> (IF x = 0 THEN 1 ELSE a[x]) * u[x]]
           h == [x \in DOMAIN u |-> u[x] * Witnessed(s)[x]]
<1>1. /\ Len(s.circuit.constraints) \in Nat /\ n \in DOMAIN s.circuit.constraints
      /\ DOMAIN t \subseteq 0..(w - 1) /\ \A wire \in DOMAIN t : t[wire] \in Field
      /\ w \in Nat \ {0}
  BY ParsedType DEF IsCircuit
<1>2. ParsedConstraints(s.circuit)[n][M] = u
  BY <1>1 DEF ParsedConstraints
<1>3. n - 1 \in Places(Height(s)) /\ Rows(s, M)[n - 1] = u
  <2>1. n - 1 \in Places(Height(s)) /\ n - 1 < Len(s.circuit.constraints) /\ (n - 1) + 1 = n
    BY <1>1, RowsHold, SMTT(25) DEF Places
  <2> QED BY <2>1, MatrixRows
<1>4. ASSUME NEW x \in 0..(w - 1)
      PROVE  /\ Witnessed(s)[x] = s.witness[x + 1] /\ s.witness[x + 1] \in Field
             /\ (IF x = 0 THEN 1 ELSE a[x]) = s.witness[x + 1]
  <2>1. Witnessed(s)[x] = s.witness[x + 1]
    BY WitnessedType DEF Places
  <2>2. s.witness[x + 1] \in Field /\ s.witness[1] = 1
    <3>1. s.witness \in Seq(Field) /\ Len(s.witness) = w /\ s.witness[1] = 1
      BY ParsedType DEF IsWitness
    <3> HIDE DEF w
    <3>2. x + 1 \in 1..w
      BY <1>1
    <3> QED BY <3>1, <3>2
  <2>3. x # 0 => a[x] = s.witness[x + 1]
    <3> SUFFICES ASSUME x # 0 PROVE a[x] = s.witness[x + 1]
      OBVIOUS
    <3> DEFINE p == Len(Own(s))
    <3>1. /\ Own(s) \in Seq(Field) /\ Others(s) \in Seq(Field) /\ p \in Nat /\ p + 1 <= w
          /\ Len(Others(s)) = w - p /\ x \in Nat /\ x < w
      BY <1>1, InputsType
    <3>2. CASE x <= p
      <4>1. x \in 1..p
        BY <3>1, <3>2
      <4>2. a[x] = Own(s)[x]
        BY <3>1, <4>1, ConcatType
      <4> QED BY <4>1, <4>2, InputsType
    <3>3. CASE ~(x <= p)
      <4> DEFINE i == x - p
      <4>1. i \in 1..Len(Others(s)) /\ p + i = x
        <5>1. w \in Int /\ p \in Int /\ x \in Int /\ x < w /\ p < x /\ Len(Others(s)) = w - p
          BY <1>1, <3>1, <3>3
        <5> HIDE DEF w, p
        <5>2. i \in 1..(w - p) /\ p + i = x
          BY <5>1
        <5> QED BY <5>1, <5>2
      <4> HIDE DEF i
      <4>2. a[p + i] = Others(s)[i]
        BY <3>1, <4>1, ConcatType
      <4>3. Others(s)[x - p] = s.witness[x + 1]
        <5>1. x > p /\ x < Variables(s)
          BY <3>1, <3>3, ParsedType, SMTT(25)
        <5> QED BY <3>1, <5>1, InputsType
      <4> QED BY <4>1, <4>2, <4>3 DEF i
    <3> QED BY <3>2, <3>3
  <2> DEFINE b == a[x]
             y == s.witness[x + 1]
  <2>4. (IF x = 0 THEN 1 ELSE b) = y
    <3>1. CASE x = 0
      <4>1. y = 1
        <5>1. x + 1 = 1
          BY <3>1
        <5> QED BY <2>2, <5>1
      <4> QED BY <3>1, <4>1
    <3>2. CASE x # 0
      <4>1. b = y
        BY <2>3, <3>2
      <4> HIDE DEF b, y
      <4> QED BY <3>2, <4>1
    <3> QED BY <3>1, <3>2
  <2> QED BY <2>1, <2>2, <2>4
<1>5. Evaluated(u, a) = Total(g) /\ ResultOf(s, M)[n - 1] = Total(h) /\ Claimed(s, n, M) = Total(f)
  BY <1>3 DEF Evaluated, ResultOf, Claimed
<1> HIDE DEF t, a, w
<1>6. CASE DOMAIN t = {}
  <2>1. u = [x \in {0} |-> 0]
    BY <1>6 DEF ParsedCombination
  <2>2. DOMAIN g = {0} /\ g[0] = 0
    BY <2>1
  <2>3. DOMAIN h = {0} /\ h[0] = 0
    <3>1. 0 \in 0..(w - 1)
      BY <1>1
    <3>2. Witnessed(s)[0] \in Field
      BY <1>4, <3>1
    <3>3. Witnessed(s)[0] \in Nat
      BY <3>2, FieldType
    <3> QED BY <2>1, <3>3
  <2>4. DOMAIN f = {}
    BY <1>6
  <2>5. Total(f) = 0 /\ Total(g) = 0 /\ Total(h) = 0 /\ 0 \in Field
    <3>1. 0 \in Field
      BY FieldPrime DEF Field
    <3> HIDE DEF f, g, h
    <3> QED BY <2>2, <2>3, <2>4, <3>1, TotalOfNothing, TotalOfZero
  <2> QED BY <1>2, <1>3, <1>5, <2>5 DEF a
<1>7. CASE DOMAIN t # {}
  <2>1. u = t
    BY <1>7 DEF ParsedCombination
  <2>2. ASSUME NEW x \in DOMAIN t
        PROVE  /\ f[x] = g[x] /\ f[x] = h[x] /\ f[x] \in Nat
    <3>1. x \in 0..(w - 1) /\ t[x] \in Field
      BY <1>1
    <3>2. Witnessed(s)[x] = s.witness[x + 1] /\ s.witness[x + 1] \in Field
          /\ (IF x = 0 THEN 1 ELSE a[x]) = s.witness[x + 1]
      BY <1>4, <3>1
    <3> DEFINE y == s.witness[x + 1]
               z == t[x]
    <3>3. f[x] = z * y /\ g[x] = y * z /\ h[x] = z * y
      BY <2>1, <3>2
    <3>4. y \in Nat /\ z \in Nat
      BY <3>1, <3>2, FieldType
    <3> HIDE DEF y, z, f, g, h
    <3> QED BY <3>3, <3>4
  <2>3. DOMAIN f = DOMAIN t /\ DOMAIN g = DOMAIN t /\ DOMAIN h = DOMAIN t
    BY <2>1
  <2>4. g = f /\ h = f
    <3>1. f = [x \in DOMAIN t |-> f[x]] /\ g = [x \in DOMAIN t |-> g[x]] /\ h = [x \in DOMAIN t |-> h[x]]
      BY <2>1
    <3> HIDE DEF f, g, h
    <3>2. [x \in DOMAIN t |-> f[x]] = [x \in DOMAIN t |-> g[x]] /\ [x \in DOMAIN t |-> f[x]] = [x \in DOMAIN t |-> h[x]]
      BY <2>2
    <3> QED BY <3>1, <3>2
  <2>5. Total(f) \in Field
    <3>1. IsFiniteSet(DOMAIN t)
      <4>1. 0 \in Int /\ w - 1 \in Int
        BY <1>1
      <4>2. IsFiniteSet(0..(w - 1))
        BY <4>1, FS_Interval
      <4> QED BY <1>1, <4>2, FS_Subset
    <3>2. \A x \in DOMAIN t : f[x] \in Nat
      BY <2>2
    <3> HIDE DEF f
    <3>3. Sum(f, DOMAIN t) \in Nat
      BY <3>1, <3>2, SumType
    <3>4. Total(f) = Res(P, Sum(f, DOMAIN t))
      BY <2>3, TotalValue
    <3> QED BY <3>3, <3>4, FieldRes
  <2> HIDE DEF f, g, h
  <2> QED BY <1>2, <1>3, <1>5, <2>4, <2>5 DEF a
<1> QED BY <1>6, <1>7

\* There is a result in each place, and 0 behind the constraints.
LEMMA ResultType ==
  ASSUME NEW s \in Setups, NEW M \in Matrices
  PROVE  /\ \A n \in Places(Height(s)) :
              /\ ResultOf(s, M)[n] \in Field
              /\ ~(n < Len(s.circuit.constraints)) => ResultOf(s, M)[n] = 0
         /\ IsLong(s, ResultOf(s, M), VectorRows(s))
<1>1. ASSUME NEW n \in Places(Height(s))
      PROVE  /\ ResultOf(s, M)[n] \in Field
             /\ ~(n < Len(s.circuit.constraints)) => ResultOf(s, M)[n] = 0
  <2>1. n \in Nat /\ Len(s.circuit.constraints) \in Nat /\ n + 1 - 1 = n
    BY ParsedType DEF Places
  <2>2. CASE n < Len(s.circuit.constraints)
    <3>1. n + 1 \in 1..Len(s.circuit.constraints)
      BY <2>1, <2>2
    <3>2. ResultOf(s, M)[(n + 1) - 1] \in Field
      BY <3>1, ConstraintValues
    <3> QED BY <2>1, <2>2, <3>2
  <2>3. CASE ~(n < Len(s.circuit.constraints))
    <3> DEFINE f == [x \in DOMAIN Rows(s, M)[n] |-> Rows(s, M)[n][x] * Witnessed(s)[x]]
    <3>1. DOMAIN f = {}
      <4>1. Rows(s, M)[n] = << >>
        BY <2>3, MatrixRows
      <4>2. DOMAIN << >> = {}
        OBVIOUS
      <4> QED BY <4>1, <4>2
    <3>2. ResultOf(s, M)[n] = Total(f)
      BY DEF ResultOf
    <3> HIDE DEF f
    <3>3. Total(f) = 0
      BY <3>1, TotalOfNothing
    <3>4. 0 \in Field
      BY FieldPrime DEF Field
    <3> QED BY <3>2, <3>3, <3>4
  <2> QED BY <2>2, <2>3
<1> QED BY <1>1 DEF IsLong, Height

\* The error of a constraint.
ErrorOf(s, n) ==
  IF n >= Len(s.circuit.constraints) THEN 0
  ELSE Minus((ResultOf(s, "A")[n] * ResultOf(s, "B")[n]) % P, ResultOf(s, "C")[n])

\* The system is satisfied as it is parsed exactly if the circuit is, and there are no errors then.
LEMMA SatisfiedCircuit ==
  ASSUME NEW s \in Setups
  PROVE  /\ is_satisfied(ParsedConstraints(s.circuit), Own(s), Others(s)) <=> CircuitHolds(s.circuit, s.witness)
         /\ CircuitHolds(s.circuit, s.witness) => \A n \in Places(Height(s)) : ErrorOf(s, n) = 0
<1> DEFINE L == Len(s.circuit.constraints)
<1>1. L \in Nat /\ DOMAIN s.circuit.constraints = 1..L /\ DOMAIN ParsedConstraints(s.circuit) = 1..L
  BY ParsedType DEF IsCircuit, ParsedConstraints
<1>2. "A" \in Matrices /\ "B" \in Matrices /\ "C" \in Matrices
  BY DEF Matrices
<1>3. CircuitHolds(s.circuit, s.witness)
        <=> \A n \in 1..L : (Claimed(s, n, "A") * Claimed(s, n, "B")) % P = Claimed(s, n, "C")
  BY <1>1, Zenon DEF CircuitHolds, Claimed
<1>4. is_satisfied(ParsedConstraints(s.circuit), Own(s), Others(s))
        <=> \A n \in 1..L : (Evaluated(ParsedConstraints(s.circuit)[n]["A"], Own(s) \o Others(s))
                              * Evaluated(ParsedConstraints(s.circuit)[n]["B"], Own(s) \o Others(s))) % P
                            = Evaluated(ParsedConstraints(s.circuit)[n]["C"], Own(s) \o Others(s))
  BY <1>1, Zenon DEF is_satisfied
<1>5. \A n \in 1..L, M \in Matrices :
        Evaluated(ParsedConstraints(s.circuit)[n][M], Own(s) \o Others(s)) = Claimed(s, n, M)
  BY ConstraintValues
<1>6. ASSUME CircuitHolds(s.circuit, s.witness), NEW n \in Places(Height(s)) PROVE ErrorOf(s, n) = 0
  <2>1. n \in Nat
    BY DEF Places
  <2>2. CASE n >= L
    BY <2>2 DEF ErrorOf
  <2>3. CASE ~(n >= L)
    <3> DEFINE m == n + 1
    <3>1. m \in 1..L /\ m - 1 = n
      BY <1>1, <2>1, <2>3
    <3> HIDE DEF m
    <3>2. \A M \in Matrices : ResultOf(s, M)[n] = Claimed(s, m, M) /\ Claimed(s, m, M) \in Field
      BY <3>1, ConstraintValues
    <3>3. (Claimed(s, m, "A") * Claimed(s, m, "B")) % P = Claimed(s, m, "C")
      BY <1>3, <1>6, <3>1
    <3>4. ErrorOf(s, n) = Minus((ResultOf(s, "A")[n] * ResultOf(s, "B")[n]) % P, ResultOf(s, "C")[n])
      BY <2>3 DEF ErrorOf
    <3>5. ErrorOf(s, n) = Minus(Claimed(s, m, "C"), Claimed(s, m, "C"))
      BY <1>2, <3>2, <3>3, <3>4
    <3> QED BY <1>2, <3>2, <3>5, DifferenceLaws
  <2> QED BY <2>2, <2>3
<1>7. is_satisfied(ParsedConstraints(s.circuit), Own(s), Others(s)) <=> CircuitHolds(s.circuit, s.witness)
  BY <1>2, <1>3, <1>4, <1>5
<1> QED BY <1>6, <1>7

\* r^T M
Randomized(s, M, r) ==
  [x \in Places(Width(s)) |->
     Total([n \in {n \in DOMAIN Rows(s, M) : x \in DOMAIN Rows(s, M)[n]} |-> r[n] * Rows(s, M)[n][x]])]

\* The products of an entry of the matrix.
Entry(s, M, r, z, n, x) ==
  IF x \in DOMAIN Rows(s, M)[n] THEN r[n] \odot (Rows(s, M)[n][x] \odot z[x]) ELSE 0

\* One row: r times what the matrix makes of z.
LEMMA RowProduct ==
  ASSUME NEW s \in Setups, NEW M \in Matrices, NEW r, IsLong(s, r, VectorRows(s)), NEW z,
         \A x \in Places(Width(s)) : z[x] \in Field, \A x \in Places(Variables(s)) : z[x] = Witnessed(s)[x],
         NEW n \in Places(Height(s))
  PROVE  /\ \A x \in Places(Width(s)) : Entry(s, M, r, z, n, x) \in Field
         /\ r[n] \odot ResultOf(s, M)[n] = Tot([x \in Places(Width(s)) |-> Entry(s, M, r, z, n, x)], Places(Width(s)))
<1> DEFINE D == DOMAIN Rows(s, M)[n]
           W == Places(Width(s))
           row == Rows(s, M)[n]
           f == [x \in D |-> row[x] * Witnessed(s)[x]]
           q == [x \in D |-> row[x] \odot z[x]]
           e == [x \in W |-> Entry(s, M, r, z, n, x)]
           c == r[n]
<1>1. /\ IsFiniteSet(W) /\ IsFiniteSet(D) /\ D \in SUBSET W
      /\ \A x \in D : x \in Places(Variables(s)) /\ row[x] \in Field
  BY RowSubset, MatrixRows
<1>2. c \in Field
  BY DEF IsLong, Height
<1>3. ResultOf(s, M)[n] = Total(f)
  BY DEF ResultOf
<1>4. Products(f, q, row, z, D)
  <2>1. ASSUME NEW x \in D
        PROVE  row[x] \in Field /\ z[x] \in Field /\ f[x] = row[x] * z[x] /\ q[x] = row[x] \odot z[x]
    BY <1>1
  <2>2. DOMAIN f = D
    OBVIOUS
  <2> HIDE DEF f, q, row, D
  <2> QED BY <2>1, <2>2 DEF Products
<1>5. ASSUME NEW x \in D PROVE e[x] = c \odot q[x] /\ q[x] \in Field /\ e[x] \in Field
  <2>1. x \in W /\ row[x] \in Field /\ z[x] \in Field
    BY <1>1
  <2>2. e[x] = c \odot q[x]
    BY <2>1 DEF Entry
  <2> DEFINE a == row[x]
             b == z[x]
  <2>3. q[x] = a \odot b /\ a \in Field /\ b \in Field
    BY <2>1
  <2> HIDE DEF a, b, e, q, c
  <2> QED BY <1>2, <2>2, <2>3, ProductLaws
<1>6. ASSUME NEW x \in W \ D PROVE e[x] = 0
  BY DEF Entry
<1>7. 0 \in Field
  BY FieldPrime DEF Field
<1> HIDE DEF f, q, row, D, c, W, e
<1>8. Total(f) = Tot(q, D) /\ Tot(q, D) \in Field
  BY <1>1, <1>4, TotalOfProducts
<1>9. Tot(e, D) = c \odot Tot(q, D)
  BY <1>1, <1>2, <1>5, TotScale
<1>10. \A x \in W : e[x] \in Field
  <2>1. ASSUME NEW x \in W PROVE e[x] \in Field
    BY <1>5, <1>6, <1>7
  <2> QED BY <2>1
<1>11. Tot(e, D) = Tot(e, W)
  BY <1>1, <1>6, <1>10, TotOfPart
<1> QED BY <1>3, <1>8, <1>9, <1>10, <1>11 DEF c, e, W

\* One column: z times what the combination makes of the matrix.
LEMMA ColumnProduct ==
  ASSUME NEW s \in Setups, NEW M \in Matrices, NEW r, IsLong(s, r, VectorRows(s)), NEW z,
         NEW x \in Places(Width(s)), z[x] \in Field
  PROVE  /\ Randomized(s, M, r)[x] \in Field
         /\ ~(x < Variables(s)) => Randomized(s, M, r)[x] = 0
         /\ Randomized(s, M, r)[x] \odot z[x]
              = Tot([n \in Places(Height(s)) |-> Entry(s, M, r, z, n, x)], Places(Height(s)))
<1> DEFINE H == Places(Height(s))
           D == {n \in H : x \in DOMAIN Rows(s, M)[n]}
           a == [n \in D |-> Rows(s, M)[n][x]]
           f == [n \in D |-> r[n] * Rows(s, M)[n][x]]
           q == [n \in D |-> r[n] \odot Rows(s, M)[n][x]]
           e == [n \in H |-> Entry(s, M, r, z, n, x)]
           c == z[x]
<1>1. /\ IsFiniteSet(H) /\ D \in SUBSET H
      /\ \A n \in D : Rows(s, M)[n][x] \in Field /\ r[n] \in Field /\ x \in Places(Variables(s))
  <2>1. IsFiniteSet(H)
    <3>1. 0 \in Int /\ Height(s) - 1 \in Int
      BY RowsHold
    <3> QED BY <3>1, FS_Interval DEF Places
  <2> QED BY <2>1, MatrixRows DEF IsLong, Height
<1>2. IsFiniteSet(D)
  BY <1>1, FS_Subset
<1>3. Randomized(s, M, r)[x] = Total(f)
  <2>1. DOMAIN Rows(s, M) = H
    BY MatrixRows
  <2> QED BY <2>1 DEF Randomized
<1>4. Products(f, q, r, a, D)
  <2>1. ASSUME NEW n \in D
        PROVE  r[n] \in Field /\ a[n] \in Field /\ f[n] = r[n] * a[n] /\ q[n] = r[n] \odot a[n]
    BY <1>1
  <2>2. DOMAIN f = D
    OBVIOUS
  <2> HIDE DEF f, q, a, D
  <2> QED BY <2>1, <2>2 DEF Products
<1>5. ASSUME NEW n \in D PROVE e[n] = c \odot q[n] /\ q[n] \in Field /\ e[n] \in Field
  <2> DEFINE u == r[n]
             v == Rows(s, M)[n][x]
  <2>1. n \in H /\ u \in Field /\ v \in Field /\ c \in Field
    BY <1>1
  <2>2. e[n] = u \odot (v \odot c) /\ q[n] = u \odot v
    BY <2>1 DEF Entry
  <2> HIDE DEF u, v, c, e, q
  <2>3. u \odot v \in Field /\ v \odot c = c \odot v /\ u \odot (c \odot v) = c \odot (u \odot v)
    BY <2>1, ProductLaws
  <2>4. c \odot (u \odot v) \in Field
    BY <2>1, ProductLaws
  <2> QED BY <2>2, <2>3, <2>4
<1>6. ASSUME NEW n \in H \ D PROVE e[n] = 0
  BY DEF Entry
<1>7. 0 \in Field
  BY FieldPrime DEF Field
<1>8. ~(x < Variables(s)) => D = {}
  <2>1. ~(x < Variables(s)) => x \notin Places(Variables(s))
    BY RowsHold DEF Places
  <2> QED BY <1>1, <2>1
<1>9. DOMAIN f = D
  OBVIOUS
<1> HIDE DEF f, q, a, D, c, H, e
<1>10. Total(f) = Tot(q, D) /\ Tot(q, D) \in Field
  BY <1>2, <1>4, TotalOfProducts
<1>11. c \in Field
  BY DEF c
<1>12. Tot(e, D) = c \odot Tot(q, D)
  BY <1>2, <1>5, <1>11, TotScale
<1>13. \A n \in H : e[n] \in Field
  <2>1. ASSUME NEW n \in H PROVE e[n] \in Field
    BY <1>5, <1>6, <1>7
  <2> QED BY <2>1
<1>14. Tot(e, D) = Tot(e, H)
  BY <1>1, <1>6, <1>13, TotOfPart
<1>15. c \odot Tot(q, D) = Tot(q, D) \odot c
  BY <1>10, <1>11, ProductLaws
<1>16. ~(x < Variables(s)) => Total(f) = 0
  BY <1>8, <1>9, TotalOfNothing
<1> QED BY <1>3, <1>10, <1>12, <1>14, <1>15, <1>16 DEF c, e, H

\* A combination of rows of a matrix is a vector that is zero behind the variables.
LEMMA RandomizedType ==
  ASSUME NEW s \in Setups, NEW M \in Matrices, NEW r, IsLong(s, r, VectorRows(s))
  PROVE  /\ IsLong(s, Randomized(s, M, r), InputRows(s))
         /\ \A x \in Places(Width(s)) : ~(x < Variables(s)) => Randomized(s, M, r)[x] = 0
<1> DEFINE z == [x \in Places(Width(s)) |-> 0]
<1>1. \A x \in Places(Width(s)) : z[x] \in Field
  BY FieldPrime DEF Field
<1> HIDE DEF z
<1>2. \A x \in Places(Width(s)) : /\ Randomized(s, M, r)[x] \in Field
                                  /\ ~(x < Variables(s)) => Randomized(s, M, r)[x] = 0
  BY <1>1, ColumnProduct
<1> QED BY <1>2 DEF IsLong, Width

\* r (M z) is (r^T M) z.
LEMMA ProductsAgree ==
  ASSUME NEW s \in Setups, NEW M \in Matrices, NEW r, IsLong(s, r, VectorRows(s)), NEW z,
         \A x \in Places(Width(s)) : z[x] \in Field, \A x \in Places(Variables(s)) : z[x] = Witnessed(s)[x]
  PROVE  Tot([n \in Places(Height(s)) |-> r[n] \odot ResultOf(s, M)[n]], Places(Height(s)))
           = Tot([x \in Places(Width(s)) |-> Randomized(s, M, r)[x] \odot z[x]], Places(Width(s)))
<1> DEFINE H == Places(Height(s))
           W == Places(Width(s))
           m == [n \in H |-> [x \in W |-> Entry(s, M, r, z, n, x)]]
           u == [n \in H |-> r[n] \odot ResultOf(s, M)[n]]
           v == [x \in W |-> Randomized(s, M, r)[x] \odot z[x]]
<1>1. IsFiniteSet(H) /\ IsFiniteSet(W)
  <2>1. 0 \in Int /\ Width(s) - 1 \in Int /\ Height(s) - 1 \in Int
    BY RowsHold
  <2> QED BY <2>1, FS_Interval DEF Places
<1>2. Table(m, H, W)
  BY RowProduct DEF Table
<1>3. RowTotals(u, m, H, W)
  BY RowProduct DEF RowTotals
<1>4. ColumnTotals(v, m, H, W)
  <2>1. ASSUME NEW x \in W PROVE v[x] = Tot([n \in H |-> m[n][x]], H)
    <3>1. v[x] = Tot([n \in H |-> Entry(s, M, r, z, n, x)], H)
      BY ColumnProduct
    <3>2. [n \in H |-> m[n][x]] = [n \in H |-> Entry(s, M, r, z, n, x)]
      OBVIOUS
    <3> HIDE DEF v, m, H
    <3> QED BY <3>1, <3>2
  <2> HIDE DEF v, m, W, H
  <2> QED BY <2>1 DEF ColumnTotals
<1> HIDE DEF m, u, v, H, W
<1>5. Tot(u, H) = Tot(v, W)
  BY <1>1, <1>2, <1>3, <1>4, TotExchange
<1> QED BY <1>5 DEF u, v, H, W

\* What is added to both sides can be left out.
LEMMA Cancelled ==
  ASSUME NEW x \in Field, NEW y \in Field, NEW c \in Field, x \uplus c = y \uplus c
  PROVE  x = y
<1> DEFINE t == x \uplus c
<1>1. t \in Field /\ x \uplus c = t /\ y \uplus c = t
  BY FieldLaws
<1> HIDE DEF t
<1>2. x = Minus(t, c)
  BY <1>1, DifferenceLaws
<1>3. y = Minus(t, c)
  BY <1>1, DifferenceLaws
<1> QED BY <1>2, <1>3

\* Subtracting a sum instead of its first part makes no difference exactly if the second is zero.
LEMMA DifferenceCancelled ==
  ASSUME NEW a \in Field, NEW b \in Field, NEW c \in Field, NEW e \in Field
  PROVE  Minus(a, b \uplus e) \uplus c = Minus(a, b) \uplus c <=> e = 0
<1> DEFINE d == b \uplus e
           x == Minus(a, b)
           y == Minus(a, d)
<1>1. d \in Field
  BY FieldLaws
<1> HIDE DEF d
<1>2. x \in Field /\ y \in Field /\ x \uplus b = a /\ y \uplus d = a
  BY <1>1, DifferenceLaws
<1> HIDE DEF x, y
<1>3. ASSUME e = 0 PROVE y \uplus c = x \uplus c
  <2>1. d = b
    BY <1>3, FieldLaws DEF d
  <2> QED BY <2>1 DEF x, y
<1>4. ASSUME y \uplus c = x \uplus c PROVE e = 0
  <2>1. y = x
    BY <1>2, <1>4, Cancelled
  <2>2. d \uplus y = a /\ b \uplus y = a
    <3>1. d \uplus y = y \uplus d
      BY <1>1, <1>2, FieldLaws
    <3>2. b \uplus y = y \uplus b
      BY <1>2, FieldLaws
    <3> QED BY <1>2, <2>1, <3>1, <3>2
  <2>3. d = b
    BY <1>1, <1>2, <2>2, Cancelled
  <2>4. e \uplus b = b \uplus e /\ 0 \uplus b = b
    BY FieldLaws
  <2>5. 0 \in Field
    BY FieldPrime DEF Field
  <2>6. e \uplus b = 0 \uplus b
    BY <2>3, <2>4 DEF d
  <2> QED BY <2>5, <2>6, Cancelled
<1> QED BY <1>3, <1>4 DEF d, x, y

\* Zero is a polynomial of every length.
LEMMA ZeroPolynomial ==
  ASSUME NEW L \in Nat, L <= P
  PROVE  [x \in Field |-> 0] \in PolyFun(L)
<1> DEFINE c == [n \in 1..L |-> 0]
           F == [x \in Field |-> 0]
<1>1. 0 \in Field
  BY FieldPrime DEF Field
<1>2. c \in [1..L -> Field] /\ F \in [Field -> Field]
  BY <1>1
<1>3. ASSUME NEW x \in Field PROVE F[x] = Tot(Terms(c, L, x), 1..L)
  <2>1. ASSUME NEW n \in 1..L PROVE Terms(c, L, x)[n] = 0
    <3>1. Power[x][n - 1] \in Field /\ Terms(c, L, x)[n] = c[n] \odot Power[x][n - 1]
      BY <1>2, TermsType
    <3>2. c[n] = 0
      OBVIOUS
    <3> DEFINE p == Power[x][n - 1]
    <3>3. p \in Field /\ Terms(c, L, x)[n] = 0 \odot p
      BY <3>1, <3>2
    <3> HIDE DEF p
    <3>4. 0 \odot p = 0
      BY <3>3, FieldLaws
    <3> QED BY <3>3, <3>4
  <2>2. IsFiniteSet(1..L) /\ \A n \in 1..L : Terms(c, L, x)[n] \in Nat
    <3>1. IsFiniteSet(1..L)
      BY FS_Interval
    <3> HIDE DEF c
    <3>2. \A n \in 1..L : Terms(c, L, x)[n] \in Nat
      BY <2>1
    <3> QED BY <3>1, <3>2
  <2>3. Tot(Terms(c, L, x), 1..L) = 0
    BY <2>1, <2>2, TotLaws
  <2> QED BY <2>3
<1> HIDE DEF c, F
<1>4. HasCoefficients(F, c, L)
  BY <1>2, <1>3 DEF HasCoefficients
<1>5. F \in PolyFun(L)
  BY <1>2, <1>4 DEF PolyFun
<1> QED BY <1>5 DEF F

\* Positions are elements of the codeword domain.
LEMMA AtType ==
  ASSUME NEW s \in Setups, NEW a \in Places(CodeDomain(s).order)
  PROVE  At(s, a) \in Field
BY DomainsOfSetup, ElementValue DEF Places, At

\* The model's totals of products of codewords are inner products.
CodedProducts(f, g, s, u, v, n, a) ==
  /\ DOMAIN f = 1..n /\ IsLong(s, u, n) /\ IsLong(s, v, n)
  /\ \A i \in 1..n : /\ g[i] = Curve(s, RowOf(s, v, i))[At(s, a)]
                      /\ f[i] = Coded(s, RowOf(s, u, i))[a] * g[i]

\* The model's total of products of codewords is the inner product at that element.
LEMMA InnerValue ==
  ASSUME NEW s \in Setups, NEW n \in Nat, NEW a \in Places(CodeDomain(s).order),
         NEW f, NEW g, NEW u, NEW v, CodedProducts(f, g, s, u, v, n, a)
  PROVE  Total(f) = Inner(s, u, v, n)[At(s, a)] /\ Total(f) \in Field
<1> DEFINE x == At(s, a)
           p == [i \in 1..n |-> Curve(s, RowOf(s, u, i))[x]]
           q == [i \in 1..n |-> Curve(s, RowOf(s, u, i))[x] \odot Curve(s, RowOf(s, v, i))[x]]
           S == 1..n
<1>1. x \in Field /\ IsLong(s, u, n) /\ IsLong(s, v, n) /\ DOMAIN f = S
  BY AtType DEF CodedProducts
<1>2. Products(f, q, p, g, S)
  <2>1. ASSUME NEW i \in 1..n
        PROVE  p[i] \in Field /\ g[i] \in Field /\ f[i] = p[i] * g[i] /\ q[i] = p[i] \odot g[i]
    <3>1. Curve(s, RowOf(s, u, i))[x] \in Field /\ Curve(s, RowOf(s, v, i))[x] \in Field
      BY <1>1, InnerTerms
    <3>2. Coded(s, RowOf(s, u, i))[a] = Curve(s, RowOf(s, u, i))[x]
      BY <1>1, RowOfLong, CurveLaws DEF Codeword
    <3> QED BY <3>1, <3>2 DEF CodedProducts
  <2> HIDE DEF p, q
  <2> QED BY <1>1, <2>1 DEF Products
<1>3. IsFiniteSet(S)
  BY FS_Interval
<1>4. Inner(s, u, v, n)[x] = Tot(q, S)
  BY <1>1 DEF Inner
<1> HIDE DEF p, q, S
<1>5. Total(f) = Tot(q, S) /\ Tot(q, S) \in Field
  BY <1>2, <1>3, TotalOfProducts
<1> QED BY <1>4, <1>5

-----------------------------------------------------------------------------
(***************************************************************************)
(* The lincheck.                                                           *)
(***************************************************************************)
\* auxiliary_only_witness, whatever follows it in memory; with a primary input added; and how the
\* primary inputs differ.
Auxiliary(s, aux) ==
  \A x \in Places(Width(s)) :
    /\ aux[x] \in Field
    /\ x < Variables(s) => aux[x] = IF x <= Len(Own(s)) THEN 0 ELSE Others(s)[x - Len(Own(s))]
Joined(s, aux, primary) == [x \in Places(Width(s)) |-> aux[x] \uplus Given(s, primary)[x]]
Differing(s, primary) == [x \in Places(Width(s)) |-> Minus(Given(s, primary)[x], Given(s, Own(s))[x])]

\* Inputs joined to the auxiliary witness: with another primary input, the difference is added.
LEMMA JoinedType ==
  ASSUME NEW s \in Setups, NEW aux, Auxiliary(s, aux), NEW primary \in Seq(Field)
  PROVE  /\ \A x \in Places(Width(s)) : Joined(s, aux, primary)[x] \in Field
         /\ IsLong(s, aux, InputRows(s)) /\ IsLong(s, Joined(s, aux, primary), InputRows(s))
         /\ IsLong(s, Differing(s, primary), InputRows(s))
         /\ \A x \in Places(Width(s)) :
              Joined(s, aux, primary)[x] = Joined(s, aux, Own(s))[x] \uplus Differing(s, primary)[x]
<1>1. ASSUME NEW x \in Places(Width(s))
      PROVE  /\ Joined(s, aux, primary)[x] \in Field /\ Differing(s, primary)[x] \in Field
             /\ Joined(s, aux, primary)[x] = Joined(s, aux, Own(s))[x] \uplus Differing(s, primary)[x]
  <2> DEFINE a == aux[x]
             b == Given(s, primary)[x]
             c == Given(s, Own(s))[x]
             d == Minus(b, c)
  <2>1. a \in Field /\ b \in Field /\ c \in Field
    BY InputsType, GivenType DEF Auxiliary
  <2>2. /\ Joined(s, aux, primary)[x] = a \uplus b /\ Joined(s, aux, Own(s))[x] = a \uplus c
        /\ Differing(s, primary)[x] = d
    BY DEF Joined, Differing
  <2> HIDE DEF a, b, c
  <2>3. d \in Field /\ d \uplus c = b
    BY <2>1, DifferenceLaws
  <2> HIDE DEF d
  <2>4. (a \uplus c) \uplus d = a \uplus (c \uplus d) /\ c \uplus d = d \uplus c /\ a \uplus b \in Field
    BY <2>1, <2>3, FieldLaws
  <2> QED BY <2>2, <2>3, <2>4
<1> QED BY <1>1 DEF IsLong, Width, Auxiliary

\* Joined with the own primary input, the auxiliary witness is the extended witness.
LEMMA JoinedIsWitness ==
  ASSUME NEW s \in Setups, NEW aux, Auxiliary(s, aux), NEW x \in Places(Variables(s))
  PROVE  Joined(s, aux, Own(s))[x] = Witnessed(s)[x]
<1> DEFINE p == Len(Own(s))
<1>1. x \in Nat /\ x < Variables(s) /\ x \in Places(Width(s)) /\ p \in Nat
  BY RowsHold, InputsType DEF Places
<1>2. Joined(s, aux, Own(s))[x] = aux[x] \uplus Given(s, Own(s))[x] /\ Given(s, Own(s))[x] \in Field
  BY <1>1, InputsType, GivenType DEF Joined
<1>3. aux[x] \in Field /\ aux[x] = IF x <= p THEN 0 ELSE Others(s)[x - p]
  BY <1>1 DEF Auxiliary
<1>4. Witnessed(s)[x] = IF x > p THEN Others(s)[x - p] ELSE Given(s, Own(s))[x]
  BY <1>1 DEF Witnessed
<1> DEFINE b == Given(s, Own(s))[x]
           a == aux[x]
<1>5. b \in Field /\ a \in Field
  BY <1>2, <1>3
<1>6. x > p => b = 0
  BY <1>1 DEF Given
<1> HIDE DEF a, b
<1>7. a \uplus 0 = a /\ 0 \uplus b = b
  BY <1>5, FieldLaws
<1>8. CASE x <= p
  <2>1. a = 0 /\ Witnessed(s)[x] = b
    BY <1>1, <1>3, <1>4, <1>8 DEF a, b
  <2> QED BY <1>2, <1>7, <2>1 DEF a, b
<1>9. CASE ~(x <= p)
  <2>1. x > p
    BY <1>1, <1>9
  <2>2. b = 0 /\ Witnessed(s)[x] = a
    BY <1>3, <1>4, <1>6, <1>9, <2>1 DEF a
  <2> QED BY <1>2, <1>7, <2>2 DEF a, b
<1> QED BY <1>8, <1>9

\* A polynomial that hides another: its values on the systematic domain add up to 0.
IsMask(s, B) ==
  /\ B \in PolyFun(2 * RowSize(s))
  /\ Tot([k \in Places(RowSize(s)) |-> B[Column(s, k)]], Places(RowSize(s))) = 0

\* r (M z) - (r^T M) z, with its mask.
LincheckCurve(s, M, r, z, B) ==
  [x \in Field |-> Minus(Inner(s, r, ResultOf(s, M), VectorRows(s))[x],
                         Inner(s, Randomized(s, M, r), z, InputRows(s))[x]) \uplus B[x]]

\* What a lincheck compares is a polynomial of the length of a response.
LEMMA LincheckCurveType ==
  ASSUME NEW s \in Setups, NEW M \in Matrices, NEW r, IsLong(s, r, VectorRows(s)), NEW z, IsLong(s, z, InputRows(s)),
         NEW B \in PolyFun(2 * RowSize(s))
  PROVE  /\ LincheckCurve(s, M, r, z, B) \in PolyFun(2 * RowSize(s))
         /\ \A x \in Field : /\ Inner(s, r, ResultOf(s, M), VectorRows(s))[x] \in Field
                             /\ Inner(s, Randomized(s, M, r), z, InputRows(s))[x] \in Field
                             /\ B[x] \in Field
<1> DEFINE L == 2 * RowSize(s)
           F == Inner(s, r, ResultOf(s, M), VectorRows(s))
           G == Inner(s, Randomized(s, M, r), z, InputRows(s))
           D == [x \in Field |-> Minus(F[x], G[x])]
           E == [x \in Field |-> D[x] \uplus B[x]]
<1>1. L \in Nat /\ L <= P
  BY SizesFit
<1>2. F \in PolyFun(L) /\ G \in PolyFun(L)
  <2>1. IsLong(s, ResultOf(s, M), VectorRows(s)) /\ IsLong(s, Randomized(s, M, r), InputRows(s))
        /\ VectorRows(s) \in Nat /\ InputRows(s) \in Nat
    BY ResultType, RandomizedType, RowsHold
  <2> QED BY <2>1, InnerLaws
<1> HIDE DEF F, G, L
<1>3. D \in PolyFun(L)
  BY <1>1, <1>2, PolyFunMinus
<1>4. B \in PolyFun(L)
  BY DEF L
<1>5. \A x \in Field : F[x] \in Field /\ G[x] \in Field /\ B[x] \in Field
  BY <1>2, <1>4 DEF PolyFun
<1> HIDE DEF D
<1>6. E \in PolyFun(L)
  BY <1>1, <1>3, <1>4, PolyFunPlus
<1>7. E = LincheckCurve(s, M, r, z, B)
  BY DEF D, F, G, LincheckCurve
<1> HIDE DEF E
<1> QED BY <1>5, <1>6, <1>7 DEF F, G, L

\* On the systematic domain a lincheck adds up to zero: r (M z) = (r^T M) z.
LEMMA LincheckTotal ==
  ASSUME NEW s \in Setups, NEW M \in Matrices, NEW r, IsLong(s, r, VectorRows(s)),
         NEW aux, Auxiliary(s, aux), NEW z, z = Joined(s, aux, Own(s)), NEW B, IsMask(s, B)
  PROVE  Tot([k \in Places(RowSize(s)) |-> LincheckCurve(s, M, r, z, B)[Column(s, k)]], Places(RowSize(s))) = 0
<1> DEFINE S == Places(RowSize(s))
           V == VectorRows(s)
           U == InputRows(s)
           y == ResultOf(s, M)
           q == Randomized(s, M, r)
           f == [k \in S |-> Inner(s, r, y, V)[Column(s, k)]]
           g == [k \in S |-> Inner(s, q, z, U)[Column(s, k)]]
           b == [k \in S |-> B[Column(s, k)]]
           d == [k \in S |-> Minus(f[k], g[k])]
           h == [k \in S |-> LincheckCurve(s, M, r, z, B)[Column(s, k)]]
<1>1. IsLong(s, z, U) /\ IsLong(s, y, V) /\ IsLong(s, q, U) /\ V \in Nat /\ U \in Nat /\ IsFiniteSet(S)
  BY InputsType, JoinedType, ResultType, RandomizedType, RowsHold, SizesFit
<1>2. \A k \in S : f[k] \in Field /\ g[k] \in Field /\ b[k] \in Field /\ h[k] = d[k] \uplus b[k]
  <2>1. ASSUME NEW k \in S
        PROVE  f[k] \in Field /\ g[k] \in Field /\ b[k] \in Field /\ h[k] = d[k] \uplus b[k]
    <3>1. Column(s, k) \in Field
      BY SystematicElements DEF Column
    <3>2. /\ Inner(s, r, y, V)[Column(s, k)] \in Field /\ Inner(s, q, z, U)[Column(s, k)] \in Field
          /\ B[Column(s, k)] \in Field
      BY <1>1, <3>1, LincheckCurveType DEF IsMask
    <3>3. LincheckCurve(s, M, r, z, B)[Column(s, k)]
            = Minus(Inner(s, r, y, V)[Column(s, k)], Inner(s, q, z, U)[Column(s, k)]) \uplus B[Column(s, k)]
      BY <3>1 DEF LincheckCurve
    <3> QED BY <3>2, <3>3
  <2> QED BY <2>1
<1>3. Tot(f, S) = Tot([m \in Places(V * RowSize(s)) |-> r[m] \odot y[m]], Places(V * RowSize(s)))
  BY <1>1, InnerLaws
<1>4. Tot(g, S) = Tot([m \in Places(U * RowSize(s)) |-> q[m] \odot z[m]], Places(U * RowSize(s)))
  BY <1>1, InnerLaws
<1>5. Tot(f, S) = Tot(g, S)
  <2>1. \A x \in Places(Width(s)) : z[x] \in Field
    BY InputsType, JoinedType
  <2>2. \A x \in Places(Variables(s)) : z[x] = Witnessed(s)[x]
    BY JoinedIsWitness
  <2> HIDE DEF f, g
  <2>3. Tot([n \in Places(Height(s)) |-> r[n] \odot y[n]], Places(Height(s)))
          = Tot([x \in Places(Width(s)) |-> q[x] \odot z[x]], Places(Width(s)))
    BY <2>1, <2>2, ProductsAgree
  <2> QED BY <1>3, <1>4, <2>3 DEF Width, Height
<1>6. Tot(b, S) = 0
  BY DEF IsMask
<1>7. \A k \in S : d[k] = Minus(f[k], g[k])
  OBVIOUS
<1> HIDE DEF f, g, b, d, h, S
<1>8. Tot(d, S) = Minus(Tot(f, S), Tot(g, S)) /\ \A k \in S : d[k] \in Field
  <2>1. \A k \in S : d[k] \in Field
    BY <1>2, <1>7, DifferenceLaws
  <2> QED BY <1>1, <1>2, <1>7, <2>1, TotMinus
<1>9. Tot(h, S) = Tot(d, S) \uplus Tot(b, S)
  BY <1>1, <1>2, <1>8, TotPlus
<1>10. Tot(f, S) \in Field
  <2>1. \A k \in S : f[k] \in Field /\ f[k] = f[k]
    BY <1>2
  <2> QED BY <1>1, <2>1, TotEqual
<1>11. Tot(d, S) = 0
  BY <1>5, <1>8, <1>10, DifferenceLaws
<1>12. 0 \in Field
  BY FieldPrime DEF Field
<1>13. Tot(h, S) = 0
  BY <1>6, <1>9, <1>11, <1>12, FieldLaws
<1> QED BY <1>13 DEF h, S

\* The oracles, as they were submitted: of the witness, of the results, and what hides a response.
WitnessFits(s, o, aux) ==
  Auxiliary(s, aux) /\ o.w = [i \in 1..InputRows(s) |-> Coded(s, RowOf(s, aux, i))]
ResultsFit(s, o) ==
  o.result = [M \in Matrices |-> [i \in 1..VectorRows(s) |-> Coded(s, RowOf(s, ResultOf(s, M), i))]]
BlindAt(s, o, name, h, a) == IF s.make_zk THEN o.blinding[name][h][a] ELSE 0
HiddenBy(s, o, name, h, B) ==
  /\ IsMask(s, B)
  /\ name = "rowcheck" => \A k \in Places(RowSize(s)) : B[Column(s, k)] = 0
  /\ \A a \in Places(CodeDomain(s).order) : BlindAt(s, o, name, h, a) = B[At(s, a)]

LincheckValues(s, o, M, h, r, primary) ==
  [a \in Places(CodeDomain(s).order) |->
     (Minus(Total([i \in 1..VectorRows(s) |-> Coded(s, RowOf(s, r, i))[a] * o.result[M][i][a]]),
            Total([i \in 1..InputRows(s) |->
                     Coded(s, RowOf(s, Randomized(s, M, r), i))[a]
                       * SumOfRows(o.w[i], Coded(s, RowOf(s, Given(s, primary), i)))[a]]))
        + BlindAt(s, o, M, h, a)) % P]

\* The model's sum is the field's.
LEMMA SumIsField ==
  ASSUME NEW x \in Field, NEW y \in Field
  PROVE  (x + y) % P = x \uplus y
BY DEF \uplus, ++, Res

\* A codeword of a row holds the values of the row's curve.
LEMMA CodedValue ==
  ASSUME NEW s \in Setups, NEW n \in Nat, NEW v, IsLong(s, v, n), NEW i \in 1..n,
         NEW a \in Places(CodeDomain(s).order)
  PROVE  /\ Coded(s, RowOf(s, v, i))[a] = Curve(s, RowOf(s, v, i))[At(s, a)]
         /\ Curve(s, RowOf(s, v, i))[At(s, a)] \in Field
         /\ DOMAIN Coded(s, RowOf(s, v, i)) = Places(CodeDomain(s).order)
<1>1. IsRow(s, RowOf(s, v, i))
  BY RowOfLong
<1>2. /\ Codeword(s, Coded(s, RowOf(s, v, i)), Curve(s, RowOf(s, v, i)), RowSize(s))
      /\ Curve(s, RowOf(s, v, i)) \in [Field -> Field]
  BY <1>1, CurveLaws
<1>3. DOMAIN Coded(s, RowOf(s, v, i)) = Places(CodeDomain(s).order)
  BY DEF Coded, EvaluatedOver, Places
<1> QED BY <1>2, <1>3, AtType DEF Codeword

\* The row of the witness with a primary input, as the verifier adds it up.
LEMMA JoinedValue ==
  ASSUME NEW s \in Setups, NEW aux, Auxiliary(s, aux), NEW primary \in Seq(Field),
         NEW i \in 1..InputRows(s), NEW a \in Places(CodeDomain(s).order)
  PROVE  SumOfRows(Coded(s, RowOf(s, aux, i)), Coded(s, RowOf(s, Given(s, primary), i)))[a]
           = Curve(s, RowOf(s, Joined(s, aux, primary), i))[At(s, a)]
<1> DEFINE z == Joined(s, aux, primary)
           v == Given(s, primary)
           n == InputRows(s)
           f == Coded(s, RowOf(s, aux, i))
           g == Coded(s, RowOf(s, v, i))
           x == Curve(s, RowOf(s, aux, i))[At(s, a)]
           y == Curve(s, RowOf(s, v, i))[At(s, a)]
<1>1. IsLong(s, aux, n) /\ IsLong(s, v, n) /\ IsLong(s, z, n) /\ n \in Nat
  BY JoinedType, GivenType, RowsHold
<1>2. Adds(s, z, aux, v, n)
  <2>1. \A m \in Places(n * RowSize(s)) : z[m] = aux[m] \uplus v[m]
    BY DEF Joined, Width
  <2> HIDE DEF z, v, n
  <2> QED BY <1>1, <2>1 DEF Adds
<1>3. f[a] = x /\ g[a] = y /\ x \in Field /\ y \in Field /\ DOMAIN f = Places(CodeDomain(s).order)
  BY <1>1, CodedValue
<1>4. Curve(s, RowOf(s, z, i))[At(s, a)] = x \uplus y
  <2>1. At(s, a) \in Field
    BY AtType
  <2> HIDE DEF z, v, n
  <2> QED BY <1>1, <1>2, <2>1, CurvesPlus DEF n
<1> HIDE DEF x, y, z, f, g
<1>5. SumOfRows(f, g)[a] = (x + y) % P
  BY <1>3 DEF SumOfRows
<1>6. (x + y) % P = x \uplus y
  BY <1>3, SumIsField
<1> QED BY <1>4, <1>5, <1>6 DEF f, g, z

\* The evaluations of a lincheck are those of its polynomial.
LEMMA LincheckValue ==
  ASSUME NEW s \in Setups, NEW o, NEW aux, WitnessFits(s, o, aux), ResultsFit(s, o),
         NEW M \in Matrices, NEW h, NEW B, HiddenBy(s, o, M, h, B),
         NEW r, IsLong(s, r, VectorRows(s)), NEW primary \in Seq(Field), NEW a \in Places(CodeDomain(s).order)
  PROVE  LincheckValues(s, o, M, h, r, primary)[a]
           = LincheckCurve(s, M, r, Joined(s, aux, primary), B)[At(s, a)]
<1> DEFINE V == VectorRows(s)
           U == InputRows(s)
           x == At(s, a)
           y == ResultOf(s, M)
           q == Randomized(s, M, r)
           z == Joined(s, aux, primary)
           f == [i \in 1..V |-> Coded(s, RowOf(s, r, i))[a] * o.result[M][i][a]]
           g == [i \in 1..U |-> Coded(s, RowOf(s, q, i))[a]
                                  * SumOfRows(o.w[i], Coded(s, RowOf(s, Given(s, primary), i)))[a]]
           p == [i \in 1..V |-> o.result[M][i][a]]
           t == [i \in 1..U |-> SumOfRows(o.w[i], Coded(s, RowOf(s, Given(s, primary), i)))[a]]
<1>1. /\ IsLong(s, z, U) /\ IsLong(s, y, V) /\ IsLong(s, q, U) /\ V \in Nat /\ U \in Nat /\ x \in Field
  BY JoinedType, ResultType, RandomizedType, RowsHold, AtType DEF WitnessFits
<1>2. Total(f) = Inner(s, r, y, V)[x]
  <2>1. ASSUME NEW i \in 1..V
        PROVE  p[i] = Curve(s, RowOf(s, y, i))[x] /\ f[i] = Coded(s, RowOf(s, r, i))[a] * p[i]
    <3>1. o.result[M][i] = Coded(s, RowOf(s, y, i))
      BY DEF ResultsFit
    <3> QED BY <1>1, <3>1, CodedValue
  <2>2. DOMAIN f = 1..V
    OBVIOUS
  <2> HIDE DEF f, p, y, V, x
  <2>3. CodedProducts(f, p, s, r, y, V, a)
    BY <1>1, <2>1, <2>2 DEF CodedProducts, x, V
  <2> QED BY <1>1, <2>3, InnerValue DEF x
<1>3. Total(g) = Inner(s, q, z, U)[x]
  <2>1. ASSUME NEW i \in 1..U
        PROVE  t[i] = Curve(s, RowOf(s, z, i))[x] /\ g[i] = Coded(s, RowOf(s, q, i))[a] * t[i]
    <3>1. o.w[i] = Coded(s, RowOf(s, aux, i))
      BY DEF WitnessFits
    <3>2. t[i] = Curve(s, RowOf(s, z, i))[x]
      BY <3>1, JoinedValue DEF WitnessFits
    <3>3. g[i] = Coded(s, RowOf(s, q, i))[a] * t[i]
      OBVIOUS
    <3> QED BY <3>2, <3>3
  <2>2. DOMAIN g = 1..U
    OBVIOUS
  <2> HIDE DEF g, t, q, U, z, x
  <2>3. CodedProducts(g, t, s, q, z, U, a)
    BY <1>1, <2>1, <2>2 DEF CodedProducts, x
  <2> QED BY <1>1, <2>3, InnerValue DEF x
<1> DEFINE b == BlindAt(s, o, M, h, a)
           d == Minus(Inner(s, r, y, V)[x], Inner(s, q, z, U)[x])
<1>4. LincheckValues(s, o, M, h, r, primary)[a] = (Minus(Total(f), Total(g)) + b) % P
  BY DEF LincheckValues
<1>5. b = B[x]
  BY DEF HiddenBy
<1>6. d \in Field /\ b \in Field
  <2>1. /\ Inner(s, r, y, V)[x] \in Field /\ Inner(s, q, z, U)[x] \in Field /\ B[x] \in Field
    BY <1>1, LincheckCurveType DEF HiddenBy, IsMask
  <2> QED BY <1>5, <2>1, DifferenceLaws
<1>7. LincheckCurve(s, M, r, z, B)[x] = d \uplus B[x]
  BY <1>1 DEF LincheckCurve
<1> HIDE DEF f, g, d, b, z, q, y, V, U, x
<1>8. (d + b) % P = d \uplus b
  BY <1>6, SumIsField
<1>9. Minus(Total(f), Total(g)) = d
  BY <1>2, <1>3 DEF d
<1> QED BY <1>4, <1>5, <1>7, <1>8, <1>9 DEF z, x

\* Responses, and what they are on the systematic domain.
ResponseTo(s, values) == SubSeq(CoefficientsFrom(values, CodeDomain(s)), 1, 2 * RowSize(s))
SystematicOf(s, response) ==
  LET evaluations == EvaluatedOver(response, Extended(s))
  IN [d \in Places(RowSize(s)) |->
        evaluations[IF d < RowSize(s) THEN 2 * d ELSE 2 * (d - RowSize(s)) + 1]]
IsValues(s, values, F) ==
  /\ F \in PolyFun(2 * RowSize(s)) /\ values = [a \in Places(CodeDomain(s).order) |-> values[a]]
  /\ \A a \in Places(CodeDomain(s).order) : values[a] = F[At(s, a)]

\* A response has the values of the polynomial it answers with, on the systematic domain too.
LEMMA ResponseValue ==
  ASSUME NEW s \in Setups, NEW values, NEW F, IsValues(s, values, F)
  PROVE  /\ \A x \in Field : Evaluation(ResponseTo(s, values), x) = F[x] /\ F[x] \in Field
         /\ \A k \in Places(RowSize(s)) : SystematicOf(s, ResponseTo(s, values))[k] = F[Column(s, k)]
         /\ SystematicOf(s, ResponseTo(s, values))
              = [k \in Places(RowSize(s)) |-> SystematicOf(s, ResponseTo(s, values))[k]]
<1> DEFINE L == 2 * RowSize(s)
           d == CodeDomain(s)
           R == ResponseTo(s, values)
<1>1. L \in Nat /\ L <= d.order /\ Domain(d) /\ RowSize(s) \in Nat \ {0}
  BY SizesFit, DomainsOfSetup
<1>2. values = ValuesOn(F, d)
  BY DEF IsValues, ValuesOn, At
<1>3. F \in PolyFun(L)
  BY DEF IsValues
<1>4. CoefficientsOf(R, F, L, L, d)
  <2>1. R = SubSeq(CoefficientsFrom(ValuesOn(F, d), d), 1, L)
    BY <1>2 DEF ResponseTo
  <2> HIDE DEF R, L, d
  <2> QED BY <1>1, <1>3, <2>1 DEF CoefficientsOf
<1>5. \A x \in Field : Evaluation(R, x) = F[x]
  <2> HIDE DEF R, L, d
  <2> QED BY <1>4, Recovered
<1>6. \A x \in Field : F[x] \in Field
  BY <1>3 DEF PolyFun
<1> DEFINE E == EvaluatedOver(R, Extended(s))
<1>7. ASSUME NEW k \in Places(RowSize(s)) PROVE SystematicOf(s, R)[k] = F[Column(s, k)]
  <2>1. k < RowSize(s)
    BY <1>1 DEF Places
  <2>2. SystematicOf(s, R)[k] = E[2 * k]
    BY <2>1 DEF SystematicOf
  <2>3. /\ 2 * k \in Places(Extended(s).order) /\ Column(s, k) \in Field
        /\ ElementByIndex(Extended(s), 2 * k) = Column(s, k)
    BY SystematicElements DEF Column
  <2>4. E[2 * k] = Evaluation(R, ElementByIndex(Extended(s), 2 * k))
    BY <2>3, EvaluatedType DEF Places
  <2> QED BY <1>5, <2>2, <2>3, <2>4
<1>8. SystematicOf(s, R) = [k \in Places(RowSize(s)) |-> SystematicOf(s, R)[k]]
  BY DEF SystematicOf
<1> QED BY <1>5, <1>6, <1>7, <1>8

\* The total of a response.
LEMMA ResponseTotal ==
  ASSUME NEW s \in Setups, NEW values, NEW F, IsValues(s, values, F)
  PROVE  Total(SystematicOf(s, ResponseTo(s, values)))
           = Tot([k \in Places(RowSize(s)) |-> F[Column(s, k)]], Places(RowSize(s)))
<1> DEFINE D == SystematicOf(s, ResponseTo(s, values))
           S == Places(RowSize(s))
           g == [k \in S |-> F[Column(s, k)]]
<1>1. DOMAIN D = S /\ \A k \in S : D[k] = g[k] /\ g[k] \in Field
  <2>1. \A k \in S : Column(s, k) \in Field
    BY SystematicElements DEF Column
  <2>2. DOMAIN D = S
    BY DEF SystematicOf
  <2> HIDE DEF D
  <2>3. \A k \in S : D[k] = F[Column(s, k)]
    BY ResponseValue DEF D
  <2>4. \A k \in S : F[Column(s, k)] \in Field
    BY <2>1, ResponseValue
  <2> QED BY <2>2, <2>3, <2>4
<1>2. IsFiniteSet(S)
  BY SizesFit
<1> HIDE DEF D, S, g
<1>3. Total(D) = Tot(D, S)
  BY <1>1, TotalValue DEF Tot
<1>4. Tot(D, S) = Tot(g, S)
  BY <1>1, <1>2, TotEqual
<1> QED BY <1>3, <1>4 DEF D, g, S

\* The primary input of the verifier, and its verdict on one lincheck.
Stated(s) == IF s.caller = "main" THEN Own(s) ELSE s.statement
LincheckPasses(s, o, M, h, r, response, queried) ==
  /\ Total(SystematicOf(s, response)) = 0
  /\ \A k \in DOMAIN queried :
       LincheckValues(s, o, M, h, r, Stated(s))[queried[k]] = Evaluation(response, At(s, queried[k]))

\* What of the primary inputs' difference is seen at a position.
Seen(s, M, r, a) ==
  Total([i \in 1..InputRows(s) |->
           Coded(s, RowOf(s, Randomized(s, M, r), i))[a]
             * Coded(s, RowOf(s, Differing(s, Stated(s)), i))[a]])

\* The primary input of the verifier is one of field elements.
LEMMA StatedType == ASSUME NEW s \in Setups PROVE Stated(s) \in Seq(Field)
BY LigeroAssumption, InputsType DEF Stated

\* A lincheck of an honest response fails only where the difference of the inputs is seen.
LEMMA LincheckVerdict ==
  ASSUME NEW s \in Setups, NEW o, NEW aux, WitnessFits(s, o, aux), ResultsFit(s, o),
         NEW M \in Matrices, NEW h, NEW B, HiddenBy(s, o, M, h, B),
         NEW r, IsLong(s, r, VectorRows(s)),
         NEW response, response = ResponseTo(s, LincheckValues(s, o, M, h, r, Own(s))),
         NEW queried, \A k \in DOMAIN queried : queried[k] \in Places(CodeDomain(s).order)
  PROVE  LincheckPasses(s, o, M, h, r, response, queried)
           <=> \A k \in DOMAIN queried : Seen(s, M, r, queried[k]) = 0
<1> DEFINE z == Joined(s, aux, Own(s))
           values == LincheckValues(s, o, M, h, r, Own(s))
           F == LincheckCurve(s, M, r, z, B)
           y == Joined(s, aux, Stated(s))
           e == Differing(s, Stated(s))
           q == Randomized(s, M, r)
           U == InputRows(s)
<1>1. /\ Auxiliary(s, aux) /\ Own(s) \in Seq(Field) /\ Stated(s) \in Seq(Field) /\ IsMask(s, B)
      /\ B \in PolyFun(2 * RowSize(s)) /\ U \in Nat
  BY InputsType, StatedType, RowsHold DEF WitnessFits, HiddenBy, IsMask
<1>2. IsLong(s, z, U) /\ IsLong(s, y, U) /\ IsLong(s, e, U) /\ IsLong(s, q, U) /\ Adds(s, y, z, e, U)
  <2>1. IsLong(s, z, U) /\ IsLong(s, y, U) /\ IsLong(s, e, U) /\ IsLong(s, q, U)
    BY <1>1, JoinedType, RandomizedType
  <2>2. \A x \in Places(U * RowSize(s)) : y[x] = z[x] \uplus e[x]
    BY <1>1, JoinedType DEF Width
  <2> HIDE DEF y, z, e, U
  <2> QED BY <2>1, <2>2 DEF Adds
<1>3. IsValues(s, values, F)
  <2>1. F \in PolyFun(2 * RowSize(s))
    BY <1>1, <1>2, LincheckCurveType
  <2>2. \A a \in Places(CodeDomain(s).order) : values[a] = F[At(s, a)]
    BY <1>1, LincheckValue
  <2>3. values = [a \in Places(CodeDomain(s).order) |-> values[a]]
    BY DEF LincheckValues
  <2> HIDE DEF F, values
  <2> QED BY <2>1, <2>2, <2>3 DEF IsValues
<1>4. Total(SystematicOf(s, response)) = 0
  <2> HIDE DEF values
  <2>1. Total(SystematicOf(s, response)) = Tot([k \in Places(RowSize(s)) |-> F[Column(s, k)]], Places(RowSize(s)))
    <3> HIDE DEF F
    <3> QED BY <1>3, ResponseTotal DEF values
  <2>2. Tot([k \in Places(RowSize(s)) |-> F[Column(s, k)]], Places(RowSize(s))) = 0
    BY <1>1, LincheckTotal
  <2> QED BY <2>1, <2>2
<1>5. ASSUME NEW a \in Places(CodeDomain(s).order)
      PROVE  LincheckValues(s, o, M, h, r, Stated(s))[a] = Evaluation(response, At(s, a)) <=> Seen(s, M, r, a) = 0
  <2> DEFINE x == At(s, a)
             A == Inner(s, r, ResultOf(s, M), VectorRows(s))[x]
             b == Inner(s, q, z, U)[x]
             c == B[x]
             d == Inner(s, q, e, U)[x]
  <2>1. x \in Field
    BY AtType
  <2>2. A \in Field /\ b \in Field /\ c \in Field
    BY <1>1, <1>2, <2>1, LincheckCurveType
  <2>3. Evaluation(response, x) = Minus(A, b) \uplus c
    <3>1. Evaluation(response, x) = F[x]
      <4> HIDE DEF F, x
      <4> QED BY <1>3, <2>1, ResponseValue
    <3> QED BY <2>1, <3>1 DEF LincheckCurve
  <2>4. LincheckValues(s, o, M, h, r, Stated(s))[a] = Minus(A, Inner(s, q, y, U)[x]) \uplus c
    <3>1. LincheckValues(s, o, M, h, r, Stated(s))[a] = LincheckCurve(s, M, r, y, B)[x]
      BY <1>1, LincheckValue
    <3> QED BY <2>1, <3>1 DEF LincheckCurve
  <2>5. Inner(s, q, y, U)[x] = b \uplus d
    <3> HIDE DEF x, y, z, e, U, q
    <3> QED BY <1>1, <1>2, <2>1, InnerPlus
  <2>6. Seen(s, M, r, a) = d /\ d \in Field
    <3> DEFINE f == [i \in 1..U |-> Coded(s, RowOf(s, q, i))[a] * Coded(s, RowOf(s, e, i))[a]]
               g == [i \in 1..U |-> Coded(s, RowOf(s, e, i))[a]]
    <3>1. Seen(s, M, r, a) = Total(f)
      BY DEF Seen
    <3>2. ASSUME NEW i \in 1..U
          PROVE  g[i] = Curve(s, RowOf(s, e, i))[At(s, a)] /\ f[i] = Coded(s, RowOf(s, q, i))[a] * g[i]
      BY <1>1, <1>2, CodedValue
    <3>3. DOMAIN f = 1..U
      OBVIOUS
    <3> HIDE DEF f, g, U, q, e
    <3>4. CodedProducts(f, g, s, q, e, U, a)
      BY <1>2, <3>2, <3>3 DEF CodedProducts
    <3> QED BY <1>1, <3>1, <3>4, InnerValue
  <2> HIDE DEF A, b, c, d, x
  <2>7. Minus(A, b \uplus d) \uplus c = Minus(A, b) \uplus c <=> d = 0
    BY <2>2, <2>6, DifferenceCancelled
  <2> QED BY <2>3, <2>4, <2>5, <2>6, <2>7 DEF x
<1> QED BY <1>4, <1>5 DEF LincheckPasses

-----------------------------------------------------------------------------
(***************************************************************************)
(* The rowcheck.                                                           *)
(***************************************************************************)
RowcheckValues(s, o, h, c) ==
  [a \in Places(CodeDomain(s).order) |->
     (Total([i \in 1..VectorRows(s) |->
              c[i] * Minus((o.result["A"][i][a] * o.result["B"][i][a]) % P, o.result["C"][i][a])])
        + BlindAt(s, o, "rowcheck", h, a)) % P]

\* The polynomial of a row of results, and of its errors.
ResultCurve(s, M, i) == Curve(s, RowOf(s, ResultOf(s, M), i))
ErrorCurve(s, i) ==
  [x \in Field |-> Minus(ResultCurve(s, "A", i)[x] \odot ResultCurve(s, "B", i)[x], ResultCurve(s, "C", i)[x])]
RowcheckCurve(s, c, B) ==
  [x \in Field |-> Tot([i \in 1..VectorRows(s) |-> c[i] \odot ErrorCurve(s, i)[x]], 1..VectorRows(s)) \uplus B[x]]

\* What a drawn combination makes of the errors in a column.
RowErrors(s, c, d) ==
  Total([i \in 1..VectorRows(s) |-> c[i] * ErrorOf(s, (i - 1) * RowSize(s) + d)])

\* The errors of a row are the values of a polynomial of the length of a response.
LEMMA ErrorCurveType ==
  ASSUME NEW s \in Setups, NEW i \in 1..VectorRows(s)
  PROVE  /\ ErrorCurve(s, i) \in PolyFun(2 * RowSize(s)) /\ \A x \in Field : ErrorCurve(s, i)[x] \in Field
         /\ \A M \in Matrices, x \in Field : ResultCurve(s, M, i)[x] \in Field
<1> DEFINE N == RowSize(s)
           L == 2 * N
           F == ResultCurve(s, "A", i)
           G == ResultCurve(s, "B", i)
           H == ResultCurve(s, "C", i)
           Q == [x \in Field |-> F[x] \odot G[x]]
           E == [x \in Field |-> Minus(Q[x], H[x])]
<1>1. N \in Nat /\ L \in Nat /\ N <= L /\ L <= P /\ N + N = L /\ N + N <= P
  BY SizesFit
<1>2. "A" \in Matrices /\ "B" \in Matrices /\ "C" \in Matrices
  BY DEF Matrices
<1>3. \A M \in Matrices : ResultCurve(s, M, i) \in PolyFun(N)
  BY ResultType, RowsHold, RowOfLong, CurveLaws DEF ResultCurve
<1>4. F \in PolyFun(N) /\ G \in PolyFun(N) /\ H \in PolyFun(N)
  BY <1>2, <1>3
<1> HIDE DEF F, G, H, N, L
<1>5. Q \in PolyFun(N + N)
  BY <1>1, <1>4, PolyFunTimes
<1>6. Q \in PolyFun(L)
  BY <1>1, <1>5
<1>7. H \in PolyFun(L)
  BY <1>1, <1>4, PolyFunWiden
<1> HIDE DEF Q
<1>8. E \in PolyFun(L)
  BY <1>1, <1>6, <1>7, PolyFunMinus
<1>9. E = ErrorCurve(s, i)
  BY DEF E, Q, F, G, H, ErrorCurve
<1>10. \A M \in Matrices, x \in Field : ResultCurve(s, M, i)[x] \in Field
  BY <1>3 DEF PolyFun
<1> HIDE DEF E
<1>11. \A x \in Field : E[x] \in Field
  BY <1>8 DEF PolyFun
<1> QED BY <1>8, <1>9, <1>10, <1>11 DEF L, N

\* So is what a rowcheck combines of them.
LEMMA RowcheckCurveType ==
  ASSUME NEW s \in Setups, NEW c, \A i \in 1..VectorRows(s) : c[i] \in Field, NEW B \in PolyFun(2 * RowSize(s))
  PROVE  /\ RowcheckCurve(s, c, B) \in PolyFun(2 * RowSize(s))
         /\ \A i \in 1..VectorRows(s), x \in Field : c[i] \odot ErrorCurve(s, i)[x] \in Field
<1> DEFINE L == 2 * RowSize(s)
           V == VectorRows(s)
           G == [i \in 1..V |-> [x \in Field |-> c[i] \odot ErrorCurve(s, i)[x]]]
           T == [x \in Field |-> Tot([i \in 1..V |-> G[i][x]], 1..V)]
           E == [x \in Field |-> T[x] \uplus B[x]]
<1>1. L \in Nat /\ L <= P /\ V \in Nat /\ IsFiniteSet(1..V)
  <2>1. V \in Nat
    BY RowsHold
  <2>2. IsFiniteSet(1..V)
    BY <2>1, FS_Interval
  <2> QED BY <2>1, <2>2, SizesFit
<1>2. ASSUME NEW i \in 1..V PROVE G[i] \in PolyFun(L)
  <2> DEFINE F == ErrorCurve(s, i)
             a == c[i]
  <2>1. F \in PolyFun(L) /\ a \in Field
    BY ErrorCurveType
  <2> HIDE DEF F, a, L
  <2>2. [x \in Field |-> a \odot F[x]] \in PolyFun(L)
    BY <1>1, <2>1, PolyFunScale
  <2> QED BY <2>2 DEF F, a
<1>3. \A i \in 1..V, x \in Field : c[i] \odot ErrorCurve(s, i)[x] \in Field
  <2>1. ASSUME NEW i \in 1..V, NEW x \in Field PROVE c[i] \odot ErrorCurve(s, i)[x] \in Field
    <3>1. c[i] \in Field /\ ErrorCurve(s, i)[x] \in Field
      BY ErrorCurveType
    <3> QED BY <3>1, ProductLaws
  <2> QED BY <2>1
<1>4. E = RowcheckCurve(s, c, B)
  <2>1. ASSUME NEW x \in Field
        PROVE  [i \in 1..V |-> G[i][x]] = [i \in 1..V |-> c[i] \odot ErrorCurve(s, i)[x]]
    OBVIOUS
  <2>2. \A x \in Field : T[x] = Tot([i \in 1..V |-> c[i] \odot ErrorCurve(s, i)[x]], 1..V)
    <3> HIDE DEF G
    <3> QED BY <2>1
  <2> HIDE DEF T
  <2> QED BY <2>2 DEF RowcheckCurve
<1>5. B \in PolyFun(L)
  OBVIOUS
<1> HIDE DEF G, L, V
<1>6. T \in PolyFun(L)
  BY <1>1, <1>2, PolyFunSum
<1> HIDE DEF T
<1>7. E \in PolyFun(L)
  BY <1>1, <1>5, <1>6, PolyFunPlus
<1> HIDE DEF E
<1> QED BY <1>3, <1>4, <1>7 DEF L, V

\* The errors of the rows, as the prover answers with them.
LEMMA RowcheckValue ==
  ASSUME NEW s \in Setups, NEW o, ResultsFit(s, o), NEW h, NEW B, HiddenBy(s, o, "rowcheck", h, B),
         NEW c, \A i \in 1..VectorRows(s) : c[i] \in Field
  PROVE  IsValues(s, RowcheckValues(s, o, h, c), RowcheckCurve(s, c, B))
<1> DEFINE V == VectorRows(s)
<1>1. "A" \in Matrices /\ "B" \in Matrices /\ "C" \in Matrices
  BY DEF Matrices
<1>2. V \in Nat /\ IsFiniteSet(1..V) /\ B \in PolyFun(2 * RowSize(s))
  <2>1. V \in Nat
    BY RowsHold
  <2>2. IsFiniteSet(1..V)
    BY <2>1, FS_Interval
  <2> QED BY <2>1, <2>2 DEF HiddenBy, IsMask
<1>3. ASSUME NEW a \in Places(CodeDomain(s).order)
      PROVE  RowcheckValues(s, o, h, c)[a] = RowcheckCurve(s, c, B)[At(s, a)]
  <2> DEFINE x == At(s, a)
             e == [i \in 1..V |-> ErrorCurve(s, i)[x]]
             f == [i \in 1..V |-> c[i] * Minus((o.result["A"][i][a] * o.result["B"][i][a]) % P, o.result["C"][i][a])]
             g == [i \in 1..V |-> c[i] \odot ErrorCurve(s, i)[x]]
             b == BlindAt(s, o, "rowcheck", h, a)
  <2>1. x \in Field
    BY AtType
  <2>2. Products(f, g, c, e, 1..V)
    <3>1. ASSUME NEW i \in 1..V
          PROVE  c[i] \in Field /\ e[i] \in Field /\ f[i] = c[i] * e[i] /\ g[i] = c[i] \odot e[i]
      <4>1. c[i] \in Field /\ ErrorCurve(s, i)[x] \in Field
        BY <2>1, ErrorCurveType
      <4>2. \A M \in Matrices : o.result[M][i][a] = ResultCurve(s, M, i)[x] /\ o.result[M][i][a] \in Field
        <5>1. ASSUME NEW M \in Matrices PROVE o.result[M][i][a] = ResultCurve(s, M, i)[x] /\ o.result[M][i][a] \in Field
          <6>1. o.result[M][i] = Coded(s, RowOf(s, ResultOf(s, M), i))
            BY DEF ResultsFit
          <6>2. IsLong(s, ResultOf(s, M), V) /\ V \in Nat
            BY <1>2, ResultType
          <6>3. /\ Coded(s, RowOf(s, ResultOf(s, M), i))[a] = Curve(s, RowOf(s, ResultOf(s, M), i))[x]
                /\ Curve(s, RowOf(s, ResultOf(s, M), i))[x] \in Field
            BY <6>2, CodedValue
          <6> QED BY <6>1, <6>3 DEF ResultCurve
        <5> QED BY <5>1
      <4> DEFINE u == o.result["A"][i][a]
                 v == o.result["B"][i][a]
                 w == o.result["C"][i][a]
      <4>3. u = ResultCurve(s, "A", i)[x] /\ v = ResultCurve(s, "B", i)[x] /\ w = ResultCurve(s, "C", i)[x]
        BY <1>1, <4>2
      <4>4. ErrorCurve(s, i)[x] = Minus(u \odot v, w)
        BY <2>1, <4>3 DEF ErrorCurve
      <4>5. (u * v) % P = u \odot v
        BY DEF \odot, Res, **
      <4> HIDE DEF u, v, w
      <4>6. f[i] = c[i] * Minus((u * v) % P, w) /\ e[i] = ErrorCurve(s, i)[x] /\ g[i] = c[i] \odot ErrorCurve(s, i)[x]
        BY DEF u, v, w
      <4> QED BY <4>1, <4>4, <4>5, <4>6
    <3>2. DOMAIN f = 1..V
      OBVIOUS
    <3> HIDE DEF f, g, e, V
    <3> QED BY <3>1, <3>2 DEF Products
  <2>3. b = B[x] /\ b \in Field
    <3>1. b = B[x]
      BY DEF HiddenBy
    <3>2. B[x] \in Field
      BY <1>2, <2>1 DEF PolyFun
    <3> QED BY <3>1, <3>2
  <2>4. RowcheckValues(s, o, h, c)[a] = (Total(f) + b) % P
    BY DEF RowcheckValues
  <2>5. RowcheckCurve(s, c, B)[x] = Tot(g, 1..V) \uplus b
    BY <2>1, <2>3 DEF RowcheckCurve
  <2> HIDE DEF f, g, b, e, V, x
  <2>6. Total(f) = Tot(g, 1..V) /\ Tot(g, 1..V) \in Field
    BY <1>2, <2>2, TotalOfProducts
  <2>7. (Total(f) + b) % P = Total(f) \uplus b
    BY <2>3, <2>6, SumIsField
  <2> QED BY <2>4, <2>5, <2>6, <2>7 DEF x
<1>4. RowcheckCurve(s, c, B) \in PolyFun(2 * RowSize(s))
  BY <1>2, RowcheckCurveType
<1>5. RowcheckValues(s, o, h, c) = [a \in Places(CodeDomain(s).order) |-> RowcheckValues(s, o, h, c)[a]]
  BY DEF RowcheckValues
<1> QED BY <1>3, <1>4, <1>5 DEF IsValues

\* In each column, a response is the drawn combination of the errors.
LEMMA RowcheckColumn ==
  ASSUME NEW s \in Setups, NEW h, NEW o, NEW B, HiddenBy(s, o, "rowcheck", h, B),
         NEW c, \A i \in 1..VectorRows(s) : c[i] \in Field, NEW d \in Places(RowSize(s))
  PROVE  RowcheckCurve(s, c, B)[Column(s, d)] = RowErrors(s, c, d)
<1> DEFINE V == VectorRows(s)
           x == Column(s, d)
           e == [i \in 1..V |-> ErrorOf(s, (i - 1) * RowSize(s) + d)]
           f == [i \in 1..V |-> c[i] * ErrorOf(s, (i - 1) * RowSize(s) + d)]
           g == [i \in 1..V |-> c[i] \odot ErrorCurve(s, i)[x]]
<1>1. V \in Nat /\ IsFiniteSet(1..V) /\ x \in Field
  <2>1. V \in Nat
    BY RowsHold
  <2>2. IsFiniteSet(1..V)
    BY <2>1, FS_Interval
  <2> QED BY <2>1, <2>2, SystematicElements DEF Column
<1>2. "A" \in Matrices /\ "B" \in Matrices /\ "C" \in Matrices
  BY DEF Matrices
<1>3. ASSUME NEW i \in 1..V PROVE e[i] = ErrorCurve(s, i)[x] /\ e[i] \in Field
  <2> DEFINE n == (i - 1) * RowSize(s) + d
  <2>1. n \in Places(Height(s)) /\ n = PlaceIn(RowSize(s), i, d)
    BY <1>1, RowsHold, PlaceInRow DEF PlaceIn, Height
  <2>2. \A M \in Matrices : ResultCurve(s, M, i)[x] = ResultOf(s, M)[n]
    <3>1. ASSUME NEW M \in Matrices PROVE ResultCurve(s, M, i)[x] = ResultOf(s, M)[n]
      <4>1. IsLong(s, ResultOf(s, M), V)
        BY ResultType
      <4>2. /\ IsRow(s, RowOf(s, ResultOf(s, M), i))
            /\ RowOf(s, ResultOf(s, M), i)[d] = ResultOf(s, M)[PlaceIn(RowSize(s), i, d)]
        BY <1>1, <4>1, RowOfLong
      <4> QED BY <2>1, <4>2, CurveLaws DEF ResultCurve
    <3> QED BY <3>1
  <2>3. \A M \in Matrices : /\ ResultOf(s, M)[n] \in Field
                            /\ n >= Len(s.circuit.constraints) => ResultOf(s, M)[n] = 0
    <3>1. ASSUME n >= Len(s.circuit.constraints) PROVE ~(n < Len(s.circuit.constraints))
      <4> HIDE DEF n
      <4>1. n \in Int /\ Len(s.circuit.constraints) \in Int
        BY <2>1, ParsedType DEF Places
      <4> QED BY <3>1, <4>1
    <3> HIDE DEF n
    <3> QED BY <2>1, <3>1, ResultType
  <2> DEFINE u == ResultOf(s, "A")[n]
             v == ResultOf(s, "B")[n]
             w == ResultOf(s, "C")[n]
  <2>4. u \in Field /\ v \in Field /\ w \in Field
    BY <1>2, <2>3
  <2>5. ErrorCurve(s, i)[x] = Minus(u \odot v, w)
    BY <1>1, <1>2, <2>2 DEF ErrorCurve
  <2>6. e[i] = IF n >= Len(s.circuit.constraints) THEN 0 ELSE Minus((u * v) % P, w)
    BY DEF ErrorOf
  <2>7. (u * v) % P = u \odot v
    BY DEF \odot, Res, **
  <2>8. n >= Len(s.circuit.constraints) => u = 0 /\ v = 0 /\ w = 0
    BY <1>2, <2>3
  <2> HIDE DEF u, v, w, n, e
  <2>9. u \odot v \in Field
    BY <2>4, ProductLaws
  <2>10. Minus(u \odot v, w) \in Field
    BY <2>4, <2>9, DifferenceLaws
  <2>11. CASE n >= Len(s.circuit.constraints)
    <3>1. u = 0 /\ v = 0 /\ w = 0 /\ e[i] = 0
      BY <2>6, <2>8, <2>11
    <3>2. u \odot v = w
      BY <2>4, <3>1, FieldLaws
    <3>3. Minus(u \odot v, w) = 0
      BY <2>4, <2>9, <3>2, DifferenceLaws
    <3> QED BY <2>5, <2>10, <3>1, <3>3
  <2>12. CASE ~(n >= Len(s.circuit.constraints))
    BY <2>5, <2>6, <2>7, <2>10, <2>12
  <2> QED BY <2>11, <2>12
<1>4. Products(f, g, c, e, 1..V)
  <2>1. ASSUME NEW i \in 1..V
        PROVE  c[i] \in Field /\ e[i] \in Field /\ f[i] = c[i] * e[i] /\ g[i] = c[i] \odot e[i]
    <3>1. c[i] \in Field /\ f[i] = c[i] * e[i] /\ g[i] = c[i] \odot ErrorCurve(s, i)[x]
      OBVIOUS
    <3> HIDE DEF e, f, g
    <3> QED BY <1>3, <3>1
  <2>2. DOMAIN f = 1..V
    OBVIOUS
  <2> HIDE DEF f, g, e
  <2> QED BY <2>1, <2>2 DEF Products
<1>5. RowcheckCurve(s, c, B)[x] = Tot(g, 1..V) \uplus 0
  <2>1. B[x] = 0
    BY DEF HiddenBy
  <2> QED BY <1>1, <2>1 DEF RowcheckCurve
<1>6. RowErrors(s, c, d) = Total(f)
  BY DEF RowErrors
<1> HIDE DEF f, g, e
<1>7. Total(f) = Tot(g, 1..V) /\ Tot(g, 1..V) \in Field
  BY <1>1, <1>4, TotalOfProducts
<1>8. Tot(g, 1..V) \uplus 0 = Tot(g, 1..V)
  BY <1>7, FieldLaws
<1> QED BY <1>5, <1>6, <1>7, <1>8

\* The verdict on one rowcheck.
RowcheckPasses(s, o, h, c, response, queried) ==
  /\ \A k \in DOMAIN SystematicOf(s, response) : SystematicOf(s, response)[k] = 0
  /\ \A k \in DOMAIN queried :
       RowcheckValues(s, o, h, c)[queried[k]] = Evaluation(response, At(s, queried[k]))

\* A rowcheck passes exactly if the combination of the errors is zero in each column.
LEMMA RowcheckVerdict ==
  ASSUME NEW s \in Setups, NEW o, ResultsFit(s, o), NEW h, NEW B, HiddenBy(s, o, "rowcheck", h, B),
         NEW c, \A i \in 1..VectorRows(s) : c[i] \in Field,
         NEW response, response = ResponseTo(s, RowcheckValues(s, o, h, c)),
         NEW queried, \A k \in DOMAIN queried : queried[k] \in Places(CodeDomain(s).order)
  PROVE  RowcheckPasses(s, o, h, c, response, queried)
           <=> \A d \in Places(RowSize(s)) : RowErrors(s, c, d) = 0
<1> DEFINE values == RowcheckValues(s, o, h, c)
           F == RowcheckCurve(s, c, B)
<1>1. IsValues(s, values, F)
  BY RowcheckValue
<1>2. \A d \in Places(RowSize(s)) : F[Column(s, d)] = RowErrors(s, c, d)
  BY RowcheckColumn
<1> HIDE DEF F, values
<1>3. \A k \in Places(RowSize(s)) : SystematicOf(s, response)[k] = F[Column(s, k)]
  BY <1>1, ResponseValue DEF values
<1>4. DOMAIN SystematicOf(s, response) = Places(RowSize(s))
  BY DEF SystematicOf
<1>5. \A k \in DOMAIN queried : values[queried[k]] = Evaluation(response, At(s, queried[k]))
  <2>1. ASSUME NEW a \in Places(CodeDomain(s).order) PROVE values[a] = Evaluation(response, At(s, a))
    <3>1. values[a] = F[At(s, a)]
      BY <1>1 DEF IsValues
    <3>2. Evaluation(response, At(s, a)) = F[At(s, a)]
      BY <1>1, AtType, ResponseValue DEF values
    <3> QED BY <3>1, <3>2
  <2> QED BY <2>1
<1> QED BY <1>2, <1>3, <1>4, <1>5 DEF RowcheckPasses, values

-----------------------------------------------------------------------------
(***************************************************************************)
(* What hides the responses.                                               *)
(***************************************************************************)
\* The blinding vectors, as they are drawn.
ZeroSum(s, drawn) ==
  LET last == RowSize(s) - 1
  IN Coded(s, [k \in Places(RowSize(s)) |->
       IF k < last THEN drawn[k] ELSE Minus(0, Total([m \in 0..(last - 1) |-> drawn[m]]))])

\* What hides a lincheck adds up to zero on the systematic domain.
LEMMA ZeroSumHides ==
  ASSUME NEW s \in Setups, NEW drawn, \A k \in 0..(RowSize(s) - 2) : drawn[k] \in Field
  PROVE  \E B : IsMask(s, B) /\ \A a \in Places(CodeDomain(s).order) : ZeroSum(s, drawn)[a] = B[At(s, a)]
<1> DEFINE N == RowSize(s)
           last == N - 1
           S == 0..(last - 1)
           f == [m \in S |-> drawn[m]]
           t == Total(f)
           row == [k \in Places(N) |-> IF k < last THEN drawn[k] ELSE Minus(0, t)]
           B == Curve(s, row)
           g == [k \in Places(N) |-> B[Column(s, k)]]
<1>1. N \in Nat \ {0} /\ last \in Nat /\ last - 1 = N - 2 /\ IsFiniteSet(S) /\ IsFiniteSet(Places(N))
      /\ N <= 2 * N /\ 2 * N \in Nat /\ 2 * N <= P
  <2>1. N \in Nat \ {0} /\ last \in Nat /\ last - 1 = N - 2
    BY SizesFit
  <2>2. IsFiniteSet(S)
    <3>1. 0 \in Int /\ last - 1 \in Int
      BY <2>1
    <3> QED BY <3>1, FS_Interval
  <2> QED BY <2>1, <2>2, SizesFit
<1>2. \A m \in S : f[m] \in Field /\ drawn[m] = f[m]
  BY <1>1
<1>3. t = Tot(f, S) /\ t \in Field
  <2>1. DOMAIN f = S
    OBVIOUS
  <2> HIDE DEF f, S
  <2>2. t = Tot(f, S)
    BY <2>1, TotalValue DEF Tot
  <2> QED BY <1>1, <1>2, <2>2, TotEqual
<1> DEFINE u == Minus(0, t)
<1>4. u \in Field /\ u \uplus t = 0
  <2>1. 0 \in Field
    BY FieldPrime DEF Field
  <2> HIDE DEF t
  <2> QED BY <1>3, <2>1, DifferenceLaws
<1>5. ASSUME NEW k \in Places(N) PROVE row[k] \in Field
  <2>1. k < last => k \in S
    BY <1>1 DEF Places
  <2>2. k < last => drawn[k] \in Field
    BY <1>2, <2>1
  <2>3. row[k] = IF k < last THEN drawn[k] ELSE u
    OBVIOUS
  <2> HIDE DEF row, u
  <2> QED BY <1>4, <2>2, <2>3
<1>6. IsRow(s, row)
  BY <1>5 DEF IsRow
<1>7. ZeroSum(s, drawn) = Coded(s, row)
  BY DEF ZeroSum
<1>8. last \in Places(N) /\ Places(N) = S \union {last} /\ last \notin S
  <2>1. 0..(N - 1) = 0..((N - 1) - 1) \union {N - 1}
    BY <1>1
  <2> QED BY <1>1, <2>1 DEF Places
<1>9. row[last] = u /\ \A m \in S : row[m] = f[m]
  <2>1. row[last] = u
    BY <1>1, <1>8
  <2>2. ASSUME NEW m \in S PROVE row[m] = f[m]
    <3>1. m < last /\ m \in Places(N)
      BY <1>1, <1>8
    <3> QED BY <1>2, <3>1
  <2> QED BY <2>1, <2>2
<1> HIDE DEF row, S, f, t, u, last, N
<1>10. Tot(row, Places(N)) = 0
  <2>1. \A k \in S \union {last} : row[k] \in Nat
    BY <1>5, <1>8, FieldType
  <2>2. Sum(row, S \union {last}) = row[last] + Sum(row, S)
    BY <1>1, <1>8, <2>1, SumAdd
  <2>3. Tot(row, S) = t
    BY <1>1, <1>2, <1>3, <1>9, TotEqual
  <2>4. Sum(row, S) \in Nat /\ u \in Nat /\ row[last] = u /\ Res(P, u) = u
    <3>1. \A k \in S : row[k] \in Nat
      BY <2>1
    <3> QED BY <1>1, <1>4, <1>9, <3>1, SumType, FieldType
  <2> DEFINE q == Sum(row, S)
  <2>5. Res(P, q) = t /\ q \in Nat /\ t \in Nat /\ Res(P, t) = t
    BY <1>3, <2>3, <2>4, FieldType DEF Tot
  <2> HIDE DEF q
  <2>6. Res(P, u ++ q) = Res(P, u ++ t)
    BY <2>4, <2>5, FieldPrime, ResPlusBoth
  <2>7. Sum(row, Places(N)) = u ++ q
    BY <1>8, <2>2, <2>4 DEF ++, q
  <2> QED BY <1>4, <2>6, <2>7 DEF Tot, \uplus
<1>11. /\ B \in PolyFun(N) /\ \A k \in Places(N) : B[Column(s, k)] = row[k]
       /\ \A a \in Places(CodeDomain(s).order) : Coded(s, row)[a] = B[At(s, a)]
  BY <1>6, CurveLaws DEF Codeword, N
<1>12. B \in PolyFun(2 * N)
  <2> HIDE DEF B
  <2> QED BY <1>1, <1>11, PolyFunWiden
<1>13. Tot(g, Places(N)) = Tot(row, Places(N))
  <2>1. \A k \in Places(N) : row[k] \in Field /\ g[k] = row[k]
    BY <1>5, <1>11
  <2> HIDE DEF g
  <2> QED BY <1>1, <2>1, TotEqual
<1> HIDE DEF B
<1>14. IsMask(s, B)
  BY <1>10, <1>12, <1>13 DEF IsMask, N
<1> QED BY <1>7, <1>11, <1>14

\* The blinding vectors that are zero on the systematic domain.
Zeros(s, drawn) ==
  LET place == [k \in Places(EncodingIndependence) |->
                  IF RowSize(s) + k < RowSize(s) THEN 2 * (RowSize(s) + k) ELSE 2 * ((RowSize(s) + k) - RowSize(s)) + 1]
      elems == [x \in Places(2 * RowSize(s)) |->
                  IF \E k \in DOMAIN place : place[k] = x
                  THEN drawn[CHOOSE k \in DOMAIN place : place[k] = x] ELSE 0]
  IN EvaluatedOver(CoefficientsFrom(elems, Extended(s)), CodeDomain(s))

\* What hides a rowcheck is zero on the systematic domain.
LEMMA ZerosHide ==
  ASSUME NEW s \in Setups, NEW drawn, \A k \in 0..(EncodingIndependence - 1) : drawn[k] \in Field
  PROVE  \E B : /\ IsMask(s, B) /\ \A k \in Places(RowSize(s)) : B[Column(s, k)] = 0
                /\ \A a \in Places(CodeDomain(s).order) : Zeros(s, drawn)[a] = B[At(s, a)]
<1> DEFINE N == RowSize(s)
           I == Places(EncodingIndependence)
           place == [k \in I |-> IF N + k < N THEN 2 * (N + k) ELSE 2 * ((N + k) - N) + 1]
           elems == [x \in Places(2 * N) |->
                       IF \E k \in DOMAIN place : place[k] = x
                       THEN drawn[CHOOSE k \in DOMAIN place : place[k] = x] ELSE 0]
           B == Extension(elems, Extended(s))
           g == [k \in Places(N) |-> B[Column(s, k)]]
<1>1. /\ N \in Nat \ {0} /\ IsFiniteSet(Places(N)) /\ EncodingIndependence \in Nat
      /\ Domain(Extended(s)) /\ Extended(s).order = 2 * N /\ Domain(CodeDomain(s))
  BY SizesFit, DomainsOfSetup, LigeroAssumption
<1>2. \A k \in I : k \in Nat /\ place[k] = 2 * k + 1 /\ drawn[k] \in Field
  BY <1>1 DEF Places
<1>3. DOMAIN place = I
  OBVIOUS
<1>4. Zeros(s, drawn) = EvaluatedOver(CoefficientsFrom(elems, Extended(s)), CodeDomain(s))
  BY DEF Zeros
<1> HIDE DEF place
<1>5. 0 \in Field
  BY FieldPrime DEF Field
<1>6. ASSUME NEW x \in Places(2 * N)
      PROVE  elems[x] \in Field /\ \A k \in Places(N) : x = 2 * k => elems[x] = 0
  <2>1. CASE \E k \in DOMAIN place : place[k] = x
    <3> DEFINE m == CHOOSE k \in DOMAIN place : place[k] = x
    <3>1. m \in DOMAIN place /\ place[m] = x
      BY <2>1
    <3>2. elems[x] = drawn[m]
      BY <2>1
    <3> HIDE DEF m, elems
    <3>3. m \in Nat /\ x = 2 * m + 1 /\ drawn[m] \in Field
      BY <1>2, <1>3, <3>1
    <3>4. ASSUME NEW k \in Places(N), x = 2 * k PROVE FALSE
      <4>1. k \in Int /\ m \in Int /\ 2 * k = 2 * m + 1
        BY <3>3, <3>4 DEF Places
      <4> QED BY <4>1
    <3> QED BY <3>2, <3>3, <3>4
  <2>2. CASE ~(\E k \in DOMAIN place : place[k] = x)
    BY <1>5, <2>2
  <2> QED BY <2>1, <2>2
<1>7. elems = [x \in Places(2 * N) |-> elems[x]]
  OBVIOUS
<1> HIDE DEF elems
<1>8. Vector(elems, Extended(s))
  <2>1. elems \in [Places(2 * N) -> Field]
    BY <1>6, <1>7
  <2> QED BY <1>1, <2>1 DEF Vector
<1>9. B \in PolyFun(2 * N) /\ \A x \in Places(2 * N) : B[ElementByIndex(Extended(s), x)] = elems[x]
  <2>1. /\ B \in PolyFun(Extended(s).order)
        /\ \A x \in Places(Extended(s).order) : B[ElementByIndex(Extended(s), x)] = elems[x]
    BY <1>1, <1>8, ExtensionLaws
  <2> QED BY <1>1, <2>1
<1>10. ASSUME NEW k \in Places(N) PROVE B[Column(s, k)] = 0
  <2>1. 2 * k \in Places(2 * N) /\ ElementByIndex(Extended(s), 2 * k) = Column(s, k)
    BY <1>1, SystematicElements DEF Column
  <2>2. elems[2 * k] = 0
    BY <1>6, <2>1
  <2> HIDE DEF B
  <2> QED BY <1>9, <2>1, <2>2
<1>11. ASSUME NEW a \in Places(CodeDomain(s).order) PROVE Zeros(s, drawn)[a] = B[At(s, a)]
  <2>1. a \in 0..(CodeDomain(s).order - 1) /\ At(s, a) \in Field
    BY <1>1, AtType DEF Places
  <2>2. Zeros(s, drawn)[a] = Evaluation(CoefficientsFrom(elems, Extended(s)), At(s, a))
    BY <1>4, <2>1, EvaluatedType DEF At
  <2> QED BY <2>1, <2>2 DEF Extension
<1>12. Tot(g, Places(N)) = 0
  <2>1. \A k \in Places(N) : g[k] = 0
    BY <1>10
  <2> HIDE DEF g, N
  <2>2. \A k \in Places(N) : g[k] \in Nat
    BY <2>1
  <2> QED BY <1>1, <2>1, <2>2, TotLaws
<1> HIDE DEF B
<1>13. IsMask(s, B)
  BY <1>9, <1>12 DEF IsMask
<1> QED BY <1>10, <1>11, <1>13

-----------------------------------------------------------------------------
(***************************************************************************)
(* The direct low degree test.                                             *)
(***************************************************************************)
CodeSet(s) ==
  {f \in [Places(CodeDomain(s).order) -> Field] : \E F : Codeword(s, f, F, RowSize(s))}

\* The rows of a vector are encoded as codewords.
LEMMA CodedRow ==
  ASSUME NEW s \in Setups, NEW n \in Nat, NEW v, IsLong(s, v, n)
  PROVE  [i \in 1..n |-> Coded(s, RowOf(s, v, i))] \in Seq(CodeSet(s))
         /\ Len([i \in 1..n |-> Coded(s, RowOf(s, v, i))]) = n
<1> DEFINE h == [i \in 1..n |-> Coded(s, RowOf(s, v, i))]
<1>1. ASSUME NEW i \in 1..n PROVE Coded(s, RowOf(s, v, i)) \in CodeSet(s)
  <2> DEFINE f == Coded(s, RowOf(s, v, i))
             F == Curve(s, RowOf(s, v, i))
  <2>1. Codeword(s, f, F, RowSize(s))
    BY RowOfLong, CurveLaws
  <2>2. \A a \in Places(CodeDomain(s).order) : f[a] \in Field
    BY CodedValue
  <2>3. f = [a \in Places(CodeDomain(s).order) |-> f[a]]
    BY DEF Coded, EvaluatedOver, Places
  <2> HIDE DEF f, F
  <2>4. f \in [Places(CodeDomain(s).order) -> Field]
    BY <2>2, <2>3
  <2>5. f \in CodeSet(s)
    BY <2>1, <2>4 DEF CodeSet
  <2> QED BY <2>5 DEF f
<1>2. h \in [1..n -> CodeSet(s)]
  BY <1>1
<1> HIDE DEF h
<1>3. h \in Seq(CodeSet(s)) /\ Len(h) = n
  BY <1>2, FunctionIsSeq
<1> QED BY <1>3 DEF h

\* A masking polynomial of the length of a row gives a codeword.
LEMMA MaskIsCoded ==
  ASSUME NEW s \in Setups, NEW m \in Seq(Field), Len(m) <= RowSize(s)
  PROVE  EvaluatedOver(m, CodeDomain(s)) \in CodeSet(s)
<1> DEFINE L == Len(m)
           f == EvaluatedOver(m, CodeDomain(s))
           F == [x \in Field |-> Evaluation(m, x)]
<1>1. L \in Nat /\ m \in [1..L -> Field] /\ L <= RowSize(s) /\ RowSize(s) \in Nat /\ RowSize(s) <= P /\ L <= P
  <2>1. L \in Nat /\ m \in [1..L -> Field]
    OBVIOUS
  <2> HIDE DEF L
  <2>2. L <= RowSize(s)
    BY DEF L
  <2>3. RowSize(s) \in Nat /\ RowSize(s) <= P /\ P \in Nat
    BY SizesFit, FieldPrime
  <2> QED BY <2>1, <2>2, <2>3
<1> HIDE DEF L
<1>2. \A x \in Field : Evaluation(m, x) = Tot(Terms(m, L, x), 1..L) /\ Evaluation(m, x) \in Field
  BY <1>1, EvaluationOfTerms
<1>3. F \in PolyFun(L)
  BY <1>1, <1>2 DEF PolyFun, HasCoefficients
<1>4. \A x \in Field : F[x] = Evaluation(m, x) /\ F[x] \in Field
  BY <1>2
<1> HIDE DEF F
<1>5. F \in PolyFun(RowSize(s))
  BY <1>1, <1>3, PolyFunWiden
<1>6. ASSUME NEW a \in Places(CodeDomain(s).order) PROVE f[a] = F[At(s, a)] /\ f[a] \in Field
  <2>1. At(s, a) \in Field
    BY AtType
  <2>2. f[a] = Evaluation(m, At(s, a))
    BY EvaluatedType DEF Places, At
  <2> QED BY <1>4, <2>1, <2>2
<1>7. f = [a \in Places(CodeDomain(s).order) |-> f[a]]
  BY DEF EvaluatedOver, Places
<1> HIDE DEF f
<1>8. f \in [Places(CodeDomain(s).order) -> Field]
  BY <1>6, <1>7
<1>9. Codeword(s, f, F, RowSize(s))
  BY <1>5, <1>6 DEF Codeword
<1> QED BY <1>8, <1>9 DEF CodeSet, f

CombinedOf(s, tested, drawn) ==
  [a \in Places(CodeDomain(s).order) |->
     Total([n \in DOMAIN tested |-> (<<1>> \o drawn)[n] * tested[n][a]])]
TestedOf(s, o, i) ==
  o.w \o o.result["A"] \o o.result["B"] \o o.result["C"]
    \o (IF s.make_zk THEN << o.masking[i] >> ELSE << >>)

\* A combination of codewords is one, so that the polynomial that is sent passes the test.
LEMMA DirectTest ==
  ASSUME NEW s \in Setups, NEW tested \in Seq(CodeSet(s)), NEW drawn \in Seq(Field), Len(drawn) + 1 >= Len(tested),
         NEW polynomial,
         polynomial = SubSeq(CoefficientsFrom(CombinedOf(s, tested, drawn), CodeDomain(s)), 1, RowSize(s)),
         NEW a \in Places(CodeDomain(s).order)
  PROVE  CombinedOf(s, tested, drawn)[a] = Evaluation(polynomial, At(s, a))
<1> DEFINE N == RowSize(s)
           d == CodeDomain(s)
           S == 1..Len(tested)
           factor == <<1>> \o drawn
           values == CombinedOf(s, tested, drawn)
           G == [n \in S |-> CHOOSE F : Codeword(s, tested[n], F, N)]
           C == [n \in S |-> [x \in Field |-> factor[n] \odot G[n][x]]]
           F == [x \in Field |-> Tot([n \in S |-> C[n][x]], S)]
<1>1. /\ N \in Nat /\ N <= P /\ N <= d.order /\ Domain(d) /\ DOMAIN tested = S /\ IsFiniteSet(S)
  <2>1. IsFiniteSet(S) /\ DOMAIN tested = S
    <3>1. Len(tested) \in Nat /\ DOMAIN tested = 1..Len(tested)
      OBVIOUS
    <3> QED BY <3>1, FS_Interval
  <2> QED BY <2>1, SizesFit, DomainsOfSetup
<1>2. \A n \in S : Codeword(s, tested[n], G[n], N)
  <2>1. \A n \in S : \E H : Codeword(s, tested[n], H, N)
    BY <1>1 DEF CodeSet
  <2> HIDE DEF S, N
  <2>2. ASSUME NEW n \in S PROVE Codeword(s, tested[n], G[n], N)
    <3>1. \E H : Codeword(s, tested[n], H, N)
      BY <2>1
    <3>2. G[n] = CHOOSE H : Codeword(s, tested[n], H, N)
      OBVIOUS
    <3> HIDE DEF G
    <3> QED BY <3>1, <3>2
  <2> QED BY <2>2
<1> HIDE DEF G
<1>3. \A n \in S : factor[n] \in Field
  <2>1. 1 \in Field
    BY FieldPrime DEF Field
  <2>2. <<1>> \in Seq(Field) /\ Len(<<1>>) = 1
    BY <2>1
  <2>3. factor \in Seq(Field) /\ Len(factor) = 1 + Len(drawn)
    BY <2>2, ConcatType
  <2> HIDE DEF factor
  <2>4. Len(tested) \in Nat /\ Len(drawn) \in Nat /\ Len(tested) <= Len(factor)
    BY <2>3
  <2> QED BY <2>3, <2>4
<1> HIDE DEF factor
<1>4. \A n \in S : G[n] \in PolyFun(N) /\ G[n] \in [Field -> Field]
  BY <1>2 DEF Codeword, PolyFun
<1>5. ASSUME NEW n \in S PROVE C[n] \in PolyFun(N)
  <2> DEFINE c == factor[n]
             H == G[n]
  <2>1. c \in Field /\ H \in PolyFun(N)
    BY <1>3, <1>4
  <2> HIDE DEF c, H
  <2>2. [x \in Field |-> c \odot H[x]] \in PolyFun(N)
    BY <1>1, <2>1, PolyFunScale
  <2> QED BY <2>2 DEF c, H
<1>6. F \in PolyFun(N)
  <2> HIDE DEF C, S, N
  <2> QED BY <1>1, <1>5, PolyFunSum
<1>7. ASSUME NEW b \in Places(d.order) PROVE values[b] = F[At(s, b)]
  <2> DEFINE x == At(s, b)
             f == [n \in S |-> factor[n] * tested[n][b]]
             e == [n \in S |-> tested[n][b]]
             g == [n \in S |-> C[n][x]]
  <2>1. x \in Field
    BY AtType
  <2>2. ASSUME NEW n \in S
        PROVE  factor[n] \in Field /\ e[n] \in Field /\ f[n] = factor[n] * e[n] /\ g[n] = factor[n] \odot e[n]
    <3>1. e[n] = G[n][x]
      BY <1>2 DEF Codeword
    <3>2. G[n][x] \in Field
      BY <1>4, <2>1
    <3>3. g[n] = factor[n] \odot G[n][x] /\ f[n] = factor[n] * e[n]
      BY <2>1
    <3> HIDE DEF e, f, g
    <3> QED BY <1>3, <3>1, <3>2, <3>3
  <2>3. DOMAIN f = S
    OBVIOUS
  <2>4. values[b] = Total(f)
    BY <1>1 DEF CombinedOf, factor
  <2>5. F[x] = Tot(g, S)
    BY <2>1
  <2> HIDE DEF f, e, g, S, values, F
  <2>6. Products(f, g, factor, e, S)
    BY <2>2, <2>3 DEF Products
  <2>7. Total(f) = Tot(g, S)
    BY <1>1, <2>6, TotalOfProducts
  <2> QED BY <2>4, <2>5, <2>7
<1>8. values = [b \in Places(d.order) |-> values[b]]
  BY DEF CombinedOf
<1> HIDE DEF F, values
<1>9. values = ValuesOn(F, d)
  <2>1. values = [b \in Places(d.order) |-> F[At(s, b)]]
    BY <1>7, <1>8
  <2> QED BY <2>1 DEF ValuesOn, At
<1>10. CoefficientsOf(polynomial, F, N, N, d)
  <2>1. polynomial = SubSeq(CoefficientsFrom(values, d), 1, N)
    BY DEF values
  <2> HIDE DEF N, d
  <2>2. polynomial = SubSeq(CoefficientsFrom(ValuesOn(F, d), d), 1, N)
    BY <1>9, <2>1
  <2>3. Domain(d) /\ N \in Nat /\ F \in PolyFun(N) /\ N <= N /\ N <= d.order /\ N <= P
    BY <1>1, <1>6
  <2> QED BY <2>2, <2>3 DEF CoefficientsOf
<1>11. \A x \in Field : Evaluation(polynomial, x) = F[x]
  <2> HIDE DEF N, d
  <2> QED BY <1>10, Recovered
<1> QED BY <1>7, <1>11, AtType DEF values

\* The oracles that are tested are codewords of rows.
MaskingFits(s, o, i) == s.make_zk => o.masking[i] \in CodeSet(s)

\* The tested oracles are a sequence of codewords, as many as there are factors at most.
LEMMA TestedType ==
  ASSUME NEW s \in Setups, NEW o, NEW aux, WitnessFits(s, o, aux), ResultsFit(s, o), NEW i, MaskingFits(s, o, i)
  PROVE  /\ TestedOf(s, o, i) \in Seq(CodeSet(s))
         /\ Len(TestedOf(s, o, i)) <= InputRows(s) + 3 * VectorRows(s) + 1
<1> DEFINE X == CodeSet(s)
           U == InputRows(s)
           V == VectorRows(s)
           a == o.result["A"]
           b == o.result["B"]
           c == o.result["C"]
           m == IF s.make_zk THEN << o.masking[i] >> ELSE << >>
<1>1. U \in Nat /\ V \in Nat
  BY RowsHold
<1>2. o.w \in Seq(X) /\ Len(o.w) = U
  <2>1. IsLong(s, aux, U)
    BY InputsType, JoinedType DEF WitnessFits
  <2>2. o.w = [n \in 1..U |-> Coded(s, RowOf(s, aux, n))]
    BY DEF WitnessFits
  <2> HIDE DEF U
  <2> QED BY <1>1, <2>1, <2>2, CodedRow
<1>3. ASSUME NEW M \in Matrices PROVE o.result[M] \in Seq(X) /\ Len(o.result[M]) = V
  <2>1. IsLong(s, ResultOf(s, M), V)
    BY ResultType
  <2>2. o.result[M] = [n \in 1..V |-> Coded(s, RowOf(s, ResultOf(s, M), n))]
    BY DEF ResultsFit
  <2> HIDE DEF V
  <2> QED BY <1>1, <2>1, <2>2, CodedRow
<1>4. a \in Seq(X) /\ b \in Seq(X) /\ c \in Seq(X) /\ Len(a) = V /\ Len(b) = V /\ Len(c) = V
  BY <1>3 DEF Matrices
<1>5. m \in Seq(X) /\ Len(m) \in 0..1
  <2>1. CASE s.make_zk
    <3>1. o.masking[i] \in X /\ m = << o.masking[i] >>
      BY <2>1 DEF MaskingFits
    <3> HIDE DEF X, m
    <3> QED BY <3>1
  <2>2. CASE ~s.make_zk
    <3>1. m = << >>
      BY <2>2
    <3> HIDE DEF X, m
    <3> QED BY <3>1
  <2> QED BY <2>1, <2>2
<1>6. TestedOf(s, o, i) = (((o.w \o a) \o b) \o c) \o m
  BY DEF TestedOf
<1> DEFINE w == o.w
           wa == w \o a
           wab == wa \o b
           wabc == wab \o c
           all == wabc \o m
<1>7. /\ wa = w \o a /\ wab = wa \o b /\ wabc = wab \o c /\ all = wabc \o m
      /\ w \in Seq(X) /\ Len(w) = U /\ TestedOf(s, o, i) = all
  BY <1>2, <1>6
<1> HIDE DEF X, a, b, c, m, U, V, w, wa, wab, wabc, all
<1>8. wa \in Seq(X) /\ Len(wa) = Len(w) + Len(a)
  BY <1>4, <1>7, ConcatType
<1>9. wab \in Seq(X) /\ Len(wab) = Len(wa) + Len(b)
  BY <1>4, <1>7, <1>8, ConcatType
<1>10. wabc \in Seq(X) /\ Len(wabc) = Len(wab) + Len(c)
  BY <1>4, <1>7, <1>9, ConcatType
<1>11. all \in Seq(X) /\ Len(all) = Len(wabc) + Len(m)
  BY <1>5, <1>7, <1>10, ConcatType
<1>12. Len(all) <= U + 3 * V + 1
  <2>1. Len(wa) = U + V
    BY <1>4, <1>7, <1>8
  <2>2. Len(wab) = (U + V) + V
    BY <1>4, <1>9, <2>1
  <2>3. Len(wabc) = ((U + V) + V) + V
    BY <1>4, <1>10, <2>2
  <2>4. Len(all) = (((U + V) + V) + V) + Len(m)
    BY <1>11, <2>3
  <2>5. Len(m) \in Int /\ Len(m) <= 1
    BY <1>5
  <2> QED BY <1>1, <2>4, <2>5
<1> QED BY <1>7, <1>11, <1>12 DEF X, U, V

\* What the messages of the protocol are, given those before them.
OraclesFit(s, o) ==
  /\ \E aux : WitnessFits(s, o, aux)
  /\ ResultsFit(s, o)
  /\ \A name \in Tests, h \in Repetitions : \E B : HiddenBy(s, o, name, h, B)
  /\ \A i \in LDTInstances : MaskingFits(s, o, i)
CombinationsFit(s, c) ==
  \A h \in Repetitions :
    IsLong(s, c.lincheck[h], VectorRows(s)) /\ \A i \in 1..VectorRows(s) : c.rowcheck[h][i] \in Field
Responds(s, o, c, r) ==
  \A h \in Repetitions :
    /\ \A M \in Matrices : r[M][h] = ResponseTo(s, LincheckValues(s, o, M, h, c.lincheck[h], Own(s)))
    /\ r["rowcheck"][h] = ResponseTo(s, RowcheckValues(s, o, h, c.rowcheck[h]))
PolynomialsFit(s, o, l) ==
  \A i \in LDTInstances :
    /\ l[i].coefficients \in Seq(Field)
    /\ Len(l[i].coefficients) + 1 >= InputRows(s) + 3 * VectorRows(s) + 1
    /\ l[i].polynomial
         = SubSeq(CoefficientsFrom(CombinedOf(s, TestedOf(s, o, i), l[i].coefficients), CodeDomain(s)), 1, RowSize(s))
PositionsFit(s, p) ==
  p.encoded \in Seq(Places(CodeDomain(s).order)) /\ p.ldt \in Seq(Places(CodeDomain(s).order))

\* What the verifier checks, and what decides it.
Passes(s, o, c, r, l, p) ==
  /\ \A h \in Repetitions :
       /\ \A M \in Matrices : LincheckPasses(s, o, M, h, c.lincheck[h], r[M][h], p.encoded)
       /\ RowcheckPasses(s, o, h, c.rowcheck[h], r["rowcheck"][h], p.encoded)
  /\ \A i \in LDTInstances, k \in DOMAIN p.ldt :
       CombinedOf(s, TestedOf(s, o, i), l[i].coefficients)[p.ldt[k]] = Evaluation(l[i].polynomial, At(s, p.ldt[k]))
ErrorsVanish(s, c, p) ==
  \A h \in Repetitions :
    /\ \A d \in Places(RowSize(s)) : RowErrors(s, c.rowcheck[h], d) = 0
    /\ \A M \in Matrices, k \in DOMAIN p.encoded : Seen(s, M, c.lincheck[h], p.encoded[k]) = 0

\* The verdict is decided by the errors.
LEMMA VerdictOfErrors ==
  ASSUME NEW s \in Setups, NEW o, OraclesFit(s, o), NEW c, CombinationsFit(s, c),
         NEW r, Responds(s, o, c, r), NEW l, PolynomialsFit(s, o, l), NEW p, PositionsFit(s, p)
  PROVE  Passes(s, o, c, r, l, p) <=> ErrorsVanish(s, c, p)
<1>1. PICK aux : WitnessFits(s, o, aux)
  BY DEF OraclesFit
<1>2. ResultsFit(s, o)
  BY DEF OraclesFit
<1>3. /\ \A k \in DOMAIN p.encoded : p.encoded[k] \in Places(CodeDomain(s).order)
      /\ \A k \in DOMAIN p.ldt : p.ldt[k] \in Places(CodeDomain(s).order)
  BY DEF PositionsFit
<1>4. ASSUME NEW h \in Repetitions, NEW M \in Matrices
      PROVE  LincheckPasses(s, o, M, h, c.lincheck[h], r[M][h], p.encoded)
               <=> \A k \in DOMAIN p.encoded : Seen(s, M, c.lincheck[h], p.encoded[k]) = 0
  <2> DEFINE drawn == c.lincheck[h]
             response == r[M][h]
             queried == p.encoded
  <2>1. IsLong(s, drawn, VectorRows(s))
    BY DEF CombinationsFit
  <2>2. response = ResponseTo(s, LincheckValues(s, o, M, h, drawn, Own(s)))
    BY DEF Responds
  <2>3. PICK B : HiddenBy(s, o, M, h, B)
    BY DEF OraclesFit, Tests
  <2>4. \A k \in DOMAIN queried : queried[k] \in Places(CodeDomain(s).order)
    BY <1>3
  <2> HIDE DEF drawn, response, queried
  <2>5. LincheckPasses(s, o, M, h, drawn, response, queried)
          <=> \A k \in DOMAIN queried : Seen(s, M, drawn, queried[k]) = 0
    BY <1>1, <1>2, <2>1, <2>2, <2>3, <2>4, LincheckVerdict
  <2> QED BY <2>5 DEF drawn, response, queried
<1>5. ASSUME NEW h \in Repetitions
      PROVE  RowcheckPasses(s, o, h, c.rowcheck[h], r["rowcheck"][h], p.encoded)
               <=> \A d \in Places(RowSize(s)) : RowErrors(s, c.rowcheck[h], d) = 0
  <2> DEFINE drawn == c.rowcheck[h]
             response == r["rowcheck"][h]
             queried == p.encoded
  <2>1. \A i \in 1..VectorRows(s) : drawn[i] \in Field
    BY DEF CombinationsFit
  <2>2. response = ResponseTo(s, RowcheckValues(s, o, h, drawn))
    BY DEF Responds
  <2>3. PICK B : HiddenBy(s, o, "rowcheck", h, B)
    BY DEF OraclesFit, Tests
  <2>4. \A k \in DOMAIN queried : queried[k] \in Places(CodeDomain(s).order)
    BY <1>3
  <2> HIDE DEF drawn, response, queried
  <2>5. RowcheckPasses(s, o, h, drawn, response, queried)
          <=> \A d \in Places(RowSize(s)) : RowErrors(s, drawn, d) = 0
    BY <1>2, <2>1, <2>2, <2>3, <2>4, RowcheckVerdict
  <2> QED BY <2>5 DEF drawn, response, queried
<1>6. ASSUME NEW i \in LDTInstances, NEW k \in DOMAIN p.ldt
      PROVE  CombinedOf(s, TestedOf(s, o, i), l[i].coefficients)[p.ldt[k]]
               = Evaluation(l[i].polynomial, At(s, p.ldt[k]))
  <2> DEFINE tested == TestedOf(s, o, i)
             drawn == l[i].coefficients
             polynomial == l[i].polynomial
             a == p.ldt[k]
             rows == InputRows(s) + 3 * VectorRows(s) + 1
  <2>1. /\ drawn \in Seq(Field) /\ Len(drawn) + 1 >= rows
        /\ polynomial = SubSeq(CoefficientsFrom(CombinedOf(s, tested, drawn), CodeDomain(s)), 1, RowSize(s))
    BY DEF PolynomialsFit
  <2>2. MaskingFits(s, o, i)
    BY DEF OraclesFit
  <2>3. tested \in Seq(CodeSet(s)) /\ Len(tested) <= rows
    BY <1>1, <1>2, <2>2, TestedType
  <2>4. rows \in Int
    BY RowsHold
  <2>5. a \in Places(CodeDomain(s).order)
    BY <1>3
  <2> HIDE DEF tested, drawn, polynomial, a, rows
  <2>6. Len(drawn) + 1 >= Len(tested)
    BY <2>1, <2>3, <2>4
  <2>7. CombinedOf(s, tested, drawn)[a] = Evaluation(polynomial, At(s, a))
    BY <2>1, <2>3, <2>5, <2>6, DirectTest
  <2> QED BY <2>7 DEF tested, drawn, polynomial, a
<1> QED BY <1>4, <1>5, <1>6 DEF Passes, ErrorsVanish

\* A total of zeros is zero.
LEMMA TotalOfZeros ==
  ASSUME NEW S, IsFiniteSet(S), NEW f, DOMAIN f = S, \A x \in S : f[x] = 0
  PROVE  Total(f) = 0
<1>1. Total(f) = Res(P, Sum(f, S))
  BY TotalValue
<1>2. Sum(f, S) = 0
  BY SumZeros
<1> QED BY <1>1, <1>2, FieldPrime, ResSmall

\* A circuit that holds, with the primary input it was proved for, has no errors.
LEMMA NoErrors ==
  ASSUME NEW s \in Setups, s.caller = "main", CircuitHolds(s.circuit, s.witness),
         NEW c, CombinationsFit(s, c), NEW p, PositionsFit(s, p)
  PROVE  ErrorsVanish(s, c, p)
<1>1. /\ IsFiniteSet(1..VectorRows(s)) /\ IsFiniteSet(1..InputRows(s))
      /\ VectorRows(s) \in Nat /\ InputRows(s) \in Nat
  <2>1. VectorRows(s) \in Nat /\ InputRows(s) \in Nat
    BY RowsHold
  <2>2. IsFiniteSet(1..VectorRows(s))
    BY <2>1, FS_Interval
  <2>3. IsFiniteSet(1..InputRows(s))
    BY <2>1, FS_Interval
  <2> QED BY <2>1, <2>2, <2>3
<1>2. ASSUME NEW h \in Repetitions, NEW d \in Places(RowSize(s))
      PROVE  RowErrors(s, c.rowcheck[h], d) = 0
  <2> DEFINE V == VectorRows(s)
             e == [i \in 1..V |-> ErrorOf(s, (i - 1) * RowSize(s) + d)]
             f == [i \in 1..V |-> c.rowcheck[h][i] * ErrorOf(s, (i - 1) * RowSize(s) + d)]
  <2>1. ASSUME NEW i \in 1..V PROVE f[i] = 0
    <3>1. (i - 1) * RowSize(s) + d \in Places(Height(s))
      BY <1>1, RowsHold, PlaceInRow DEF PlaceIn, Height
    <3>2. e[i] = 0
      BY <3>1, SatisfiedCircuit
    <3>3. c.rowcheck[h][i] \in Int
      BY FieldType DEF CombinationsFit
    <3>4. f[i] = c.rowcheck[h][i] * e[i]
      OBVIOUS
    <3> HIDE DEF e, f
    <3> QED BY <3>2, <3>3, <3>4
  <2>2. DOMAIN f = 1..V
    OBVIOUS
  <2>3. RowErrors(s, c.rowcheck[h], d) = Total(f)
    BY DEF RowErrors
  <2> HIDE DEF f
  <2> QED BY <1>1, <2>1, <2>2, <2>3, TotalOfZeros
<1>3. ASSUME NEW h \in Repetitions, NEW M \in Matrices, NEW k \in DOMAIN p.encoded
      PROVE  Seen(s, M, c.lincheck[h], p.encoded[k]) = 0
  <2> DEFINE U == InputRows(s)
             a == p.encoded[k]
             q == Randomized(s, M, c.lincheck[h])
             e == Differing(s, Stated(s))
             f == [i \in 1..U |-> Coded(s, RowOf(s, q, i))[a] * Coded(s, RowOf(s, e, i))[a]]
  <2>1. a \in Places(CodeDomain(s).order) /\ At(s, a) \in Field
    BY AtType DEF PositionsFit
  <2>2. IsLong(s, q, U)
    BY RandomizedType DEF CombinationsFit
  <2>3. IsLong(s, e, U) /\ \A x \in Places(U * RowSize(s)) : e[x] = 0
    <3>1. Stated(s) = Own(s) /\ Own(s) \in Seq(Field)
      BY InputsType DEF Stated
    <3>2. ASSUME NEW x \in Places(U * RowSize(s)) PROVE e[x] = 0
      <4> DEFINE v == Given(s, Own(s))[x]
      <4>1. v \in Field
        BY <3>1, GivenType DEF Width
      <4>2. e[x] = Minus(v, v)
        BY <3>1 DEF Differing, Width
      <4> HIDE DEF v
      <4> QED BY <4>1, <4>2, DifferenceLaws
    <3>3. 0 \in Field
      BY FieldPrime DEF Field
    <3> HIDE DEF e
    <3> QED BY <3>2, <3>3 DEF IsLong
  <2>4. Seen(s, M, c.lincheck[h], a) = Total(f)
    BY DEF Seen
  <2>5. ASSUME NEW i \in 1..U PROVE f[i] = 0
    <3> DEFINE row == RowOf(s, e, i)
               Zero == [x \in Field |-> 0]
               x == Coded(s, RowOf(s, q, i))[a]
               y == Coded(s, RowOf(s, e, i))[a]
    <3> HIDE DEF e, q, U
    <3>1. /\ IsRow(s, row)
          /\ \A m \in Places(RowSize(s)) : /\ row[m] = e[PlaceIn(RowSize(s), i, m)]
                                           /\ PlaceIn(RowSize(s), i, m) \in Places(U * RowSize(s))
      BY <1>1, <2>3, RowOfLong DEF U
    <3>2. \A m \in Places(RowSize(s)) : row[m] = 0
      BY <2>3, <3>1
    <3>3. Zero \in PolyFun(RowSize(s))
      BY SizesFit, ZeroPolynomial
    <3>4. \A m \in Places(RowSize(s)) : Zero[Column(s, m)] = row[m]
      <4>1. \A m \in Places(RowSize(s)) : Column(s, m) \in Field
        BY SystematicElements DEF Column
      <4> HIDE DEF row
      <4> QED BY <3>2, <4>1
    <3>5. Curve(s, row) = Zero
      <4> HIDE DEF row, Zero
      <4> QED BY <3>1, <3>3, <3>4, CurveLaws
    <3>6. y = Curve(s, row)[At(s, a)] /\ x \in Field
      <4>1. y = Curve(s, row)[At(s, a)]
        BY <1>1, <2>1, <2>3, CodedValue DEF U
      <4>2. x = Curve(s, RowOf(s, q, i))[At(s, a)] /\ Curve(s, RowOf(s, q, i))[At(s, a)] \in Field
        BY <1>1, <2>1, <2>2, CodedValue DEF U
      <4> QED BY <4>1, <4>2
    <3>7. y = 0
      BY <2>1, <3>5, <3>6
    <3>8. f[i] = x * y
      OBVIOUS
    <3>9. x \in Int
      BY <3>6, FieldType
    <3> HIDE DEF x, y, f
    <3> QED BY <3>7, <3>8, <3>9
  <2>6. DOMAIN f = 1..U
    OBVIOUS
  <2> HIDE DEF f
  <2> QED BY <1>1, <2>4, <2>5, <2>6, TotalOfZeros
<1> QED BY <1>2, <1>3 DEF ErrorsVanish

-----------------------------------------------------------------------------
(***************************************************************************)
(* The protocol: what each round leaves behind.                            *)
(***************************************************************************)
\* The members of ligero_iop are those of its setup.
IopOfSetup == setup \in Setups /\ iop = Configured(setup.circuit)

\* The members of ligero_iop, by their names here.
LEMMA MembersOfSetup ==
  ASSUME IopOfSetup
  PROVE  /\ systematic_domain_size = RowSize(setup) /\ codeword_domain = CodeDomain(setup)
         /\ num_oracles_input = InputRows(setup) /\ num_oracles_vectors = VectorRows(setup)
         /\ matrix_width = Width(setup) /\ matrix_height = Height(setup)
         /\ response_size = 2 * RowSize(setup) /\ iop.num_vars = Variables(setup)
         /\ iop.systematic_domain = Systematic(setup) /\ iop.extended_systematic_domain = Extended(setup)
         /\ \A M \in Matrices : iop.matrices[M] = Rows(setup, M)
         /\ iop.constraints = ParsedConstraints(setup.circuit)
         /\ own_input = Own(setup) /\ auxiliary = Others(setup) /\ stated_input = Stated(setup)
<1>1. iop = Configured(setup.circuit)
  BY DEF IopOfSetup
<1>2. /\ systematic_domain_size = RowSize(setup) /\ codeword_domain = CodeDomain(setup)
      /\ num_oracles_input = InputRows(setup) /\ num_oracles_vectors = VectorRows(setup)
      /\ iop.num_vars = Variables(setup)
      /\ iop.systematic_domain = Systematic(setup) /\ iop.extended_systematic_domain = Extended(setup)
      /\ \A M \in Matrices : iop.matrices[M] = Rows(setup, M)
  BY <1>1 DEF systematic_domain_size, codeword_domain, num_oracles_input, num_oracles_vectors,
       RowSize, CodeDomain, InputRows, VectorRows, Variables, Systematic, Extended, Rows
<1>3. /\ matrix_width = Width(setup) /\ matrix_height = Height(setup)
      /\ response_size = 2 * RowSize(setup)
  BY <1>2 DEF matrix_width, matrix_height, response_size, Width, Height
<1>4. iop.constraints = ParsedConstraints(setup.circuit)
  BY <1>1 DEF Configured
<1>5. own_input = Own(setup) /\ auxiliary = Others(setup) /\ stated_input = Stated(setup)
  BY DEF own_input, auxiliary, stated_input, Own, Others, Stated
<1> QED BY <1>2, <1>3, <1>4, <1>5

\* The helpers of the prover, by their names here.
LEMMA RowsOfSetup ==
  ASSUME IopOfSetup
  PROVE  /\ \A v, i : Row(v, i) = RowOf(setup, v, i)
         /\ \A row : Encoded(row) = Coded(setup, row)
         /\ \A primary : AdditionalInput(primary) = Given(setup, primary)
         /\ \A M \in Matrices : Result(M) = ResultOf(setup, M)
         /\ \A M \in Matrices : \A r : RandomizedMatrix(M, r) = Randomized(setup, M, r)
         /\ \A values : Response(values) = ResponseTo(setup, values)
         /\ \A drawn : ZeroSumBlinding(drawn) = ZeroSum(setup, drawn)
         /\ \A drawn : ZeroBlinding(drawn) = Zeros(setup, drawn)
<1>1. \A v, i : Row(v, i) = RowOf(setup, v, i)
  BY MembersOfSetup DEF Row, RowOf
<1>2. \A row : Encoded(row) = Coded(setup, row)
  BY MembersOfSetup DEF Encoded, Coded
<1>3. \A primary : AdditionalInput(primary) = Given(setup, primary)
  BY MembersOfSetup DEF AdditionalInput, Given
<1>4. extended_witness = Witnessed(setup)
  BY <1>3, MembersOfSetup DEF extended_witness, Witnessed
<1>5. \A M \in Matrices : Result(M) = ResultOf(setup, M)
  BY <1>4, MembersOfSetup DEF Result, ResultOf
<1>6. \A M \in Matrices : \A r : RandomizedMatrix(M, r) = Randomized(setup, M, r)
  BY MembersOfSetup DEF RandomizedMatrix, Randomized
<1>7. \A values : Response(values) = ResponseTo(setup, values)
  BY MembersOfSetup DEF Response, ResponseTo
<1>8. \A drawn : ZeroSumBlinding(drawn) = ZeroSum(setup, drawn)
  BY <1>2, MembersOfSetup DEF ZeroSumBlinding, ZeroSum
<1>9. ASSUME NEW drawn PROVE ZeroBlinding(drawn) = Zeros(setup, drawn)
  <2> DEFINE K == RowSize(setup)
             here  == [k \in Places(EncodingIndependence) |-> Reindexed(systematic_domain_size + k)]
             there == [k \in Places(EncodingIndependence) |->
                         IF K + k < K THEN 2 * (K + k) ELSE 2 * ((K + k) - K) + 1]
  <2>1. ZeroBlinding(drawn)
          = EvaluatedOver(CoefficientsFrom(
              [x \in Places(2 * systematic_domain_size) |->
                 IF \E k \in DOMAIN here : here[k] = x THEN drawn[CHOOSE k \in DOMAIN here : here[k] = x] ELSE 0],
              iop.extended_systematic_domain), codeword_domain)
    BY DEF ZeroBlinding
  <2>2. Zeros(setup, drawn)
          = EvaluatedOver(CoefficientsFrom(
              [x \in Places(2 * K) |->
                 IF \E k \in DOMAIN there : there[k] = x THEN drawn[CHOOSE k \in DOMAIN there : there[k] = x] ELSE 0],
              Extended(setup)), CodeDomain(setup))
    BY DEF Zeros
  <2>3. systematic_domain_size = K
    BY MembersOfSetup
  <2>4. here = there
    <3> HIDE DEF K
    <3> QED BY <2>3, ZenonT(40) DEF Reindexed
  <2> HIDE DEF here, there, K
  <2> QED BY <2>1, <2>2, <2>3, <2>4, MembersOfSetup
<1> QED BY <1>1, <1>2, <1>3, <1>5, <1>6, <1>7, <1>8, <1>9

\* The evaluations of the tests, by their names here.
LEMMA ValuesOfSetup ==
  ASSUME IopOfSetup
  PROVE  /\ \A name, h, a : Blinding(name, h, a) = BlindAt(setup, oracles, name, h, a)
         /\ \A M \in Matrices : \A h, primary :
              LincheckEvaluations(M, h, primary)
                = LincheckValues(setup, oracles, M, h, combinations.lincheck[h], primary)
         /\ \A h : RowcheckEvaluations(h) = RowcheckValues(setup, oracles, h, combinations.rowcheck[h])
         /\ \A i, drawn : Combined(i, drawn) = CombinedOf(setup, TestedOf(setup, oracles, i), drawn)
         /\ \A name, h : SystematicResponse(name, h) = SystematicOf(setup, responses[name][h])
         /\ \A a : ElementByIndex(codeword_domain, a) = At(setup, a)
<1>1. \A name, h, a : Blinding(name, h, a) = BlindAt(setup, oracles, name, h, a)
  BY DEF Blinding, BlindAt
<1>2. ASSUME NEW M \in Matrices, NEW h, NEW primary
      PROVE  LincheckEvaluations(M, h, primary)
               = LincheckValues(setup, oracles, M, h, combinations.lincheck[h], primary)
  <2> DEFINE r == combinations.lincheck[h]
             q == Randomized(setup, M, r)
             input == Given(setup, primary)
             U == InputRows(setup)
             V == VectorRows(setup)
             r_row == [i \in 1..V |-> Coded(setup, RowOf(setup, r, i))]
             s_row == [i \in 1..U |-> Coded(setup, RowOf(setup, q, i))]
             witness_row == [i \in 1..U |-> SumOfRows(oracles.w[i], Coded(setup, RowOf(setup, input, i)))]
  <2> DEFINE r_own == [i \in 1..num_oracles_vectors |-> Encoded(Row(r, i))]
             s_own == [i \in 1..num_oracles_input |-> Encoded(Row(RandomizedMatrix(M, r), i))]
             witness_own == [i \in 1..num_oracles_input |-> SumOfRows(oracles.w[i], Encoded(Row(AdditionalInput(primary), i)))]
  <2>1. LincheckEvaluations(M, h, primary)
          = [a \in Places(CodeDomain(setup).order) |->
               (Minus(Total([i \in 1..V |-> r_row[i][a] * oracles.result[M][i][a]]),
                      Total([i \in 1..U |-> s_row[i][a] * witness_row[i][a]]))
                  + BlindAt(setup, oracles, M, h, a)) % P]
    <3>1. LincheckEvaluations(M, h, primary)
            = [a \in Places(codeword_domain.order) |->
                 (Minus(Total([i \in 1..num_oracles_vectors |-> r_own[i][a] * oracles.result[M][i][a]]),
                        Total([i \in 1..num_oracles_input |-> s_own[i][a] * witness_own[i][a]]))
                    + Blinding(M, h, a)) % P]
      BY DEF LincheckEvaluations
    <3>2. codeword_domain = CodeDomain(setup) /\ num_oracles_vectors = V /\ num_oracles_input = U
      BY MembersOfSetup
    <3>3. r_own = r_row
      BY <3>2, RowsOfSetup
    <3>4. s_own = s_row
      BY <3>2, RowsOfSetup
    <3>5. witness_own = witness_row
      BY <3>2, RowsOfSetup
    <3> HIDE DEF r_own, s_own, witness_own, r_row, s_row, witness_row, U, V
    <3> QED BY <1>1, <3>1, <3>2, <3>3, <3>4, <3>5
  <2>2. ASSUME NEW a
        PROVE  /\ [i \in 1..V |-> r_row[i][a] * oracles.result[M][i][a]]
                    = [i \in 1..V |-> Coded(setup, RowOf(setup, r, i))[a] * oracles.result[M][i][a]]
               /\ [i \in 1..U |-> s_row[i][a] * witness_row[i][a]]
                    = [i \in 1..U |-> Coded(setup, RowOf(setup, q, i))[a]
                                        * SumOfRows(oracles.w[i], Coded(setup, RowOf(setup, input, i)))[a]]
    OBVIOUS
  <2>3. LincheckValues(setup, oracles, M, h, r, primary)
          = [a \in Places(CodeDomain(setup).order) |->
               (Minus(Total([i \in 1..V |-> Coded(setup, RowOf(setup, r, i))[a] * oracles.result[M][i][a]]),
                      Total([i \in 1..U |-> Coded(setup, RowOf(setup, q, i))[a]
                                              * SumOfRows(oracles.w[i], Coded(setup, RowOf(setup, input, i)))[a]]))
                  + BlindAt(setup, oracles, M, h, a)) % P]
    BY DEF LincheckValues
  <2> HIDE DEF r_row, s_row, witness_row, r, q, U, V, input
  <2> QED BY <2>1, <2>2, <2>3, ZenonT(40) DEF r
<1>3. \A h : RowcheckEvaluations(h) = RowcheckValues(setup, oracles, h, combinations.rowcheck[h])
  BY <1>1, MembersOfSetup DEF RowcheckEvaluations, RowcheckValues
<1>4. \A i, drawn : Combined(i, drawn) = CombinedOf(setup, TestedOf(setup, oracles, i), drawn)
  BY MembersOfSetup DEF Combined, CombinedOf, TestedOracles, TestedOf
<1>5. \A name, h : SystematicResponse(name, h) = SystematicOf(setup, responses[name][h])
  BY MembersOfSetup DEF SystematicResponse, SystematicOf, Reindexed
<1>6. \A a : ElementByIndex(codeword_domain, a) = At(setup, a)
  BY MembersOfSetup DEF At
<1> QED BY <1>1, <1>2, <1>3, <1>4, <1>5, <1>6

\* Every message is what the rounds before it call for, an executable that went on has a circuit
\* that holds, and a verdict is decided by the errors.
LigeroIInv ==
  /\ IopOfSetup
  /\ outcome \in {"none", "refused", "accepted", "rejected"}
  /\ oracles # << >> =>
       OraclesFit(setup, oracles) /\ (setup.caller = "main" => CircuitHolds(setup.circuit, setup.witness))
  /\ combinations # << >> => oracles # << >> /\ CombinationsFit(setup, combinations)
  /\ responses # << >> => combinations # << >> /\ Responds(setup, oracles, combinations, responses)
  /\ ldt # << >> => responses # << >> /\ PolynomialsFit(setup, oracles, ldt)
  /\ outcome = "refused" => ~CircuitHolds(setup.circuit, setup.witness)
  /\ outcome \in {"accepted", "rejected"} =>
       /\ ldt # << >> /\ PositionsFit(setup, positions)
       /\ outcome = "accepted" <=> ErrorsVanish(setup, combinations, positions)

\* What may be drawn is in range.
LEMMA DrawsOfSetup == ASSUME NEW s \in Setups PROVE DrawsFit(Configured(s.circuit))
BY LigeroAssumption

\* Drawn combinations have an element for each row.
LEMMA DrawnCombinations ==
  ASSUME NEW s \in Setups, NEW c \in Combinations
  PROVE  CombinationsFit(s, c)
<1>1. \A h \in Repetitions :
        /\ \A n \in 0..(Height(s) - 1) : c.lincheck[h][n] \in Field
        /\ \A i \in 1..VectorRows(s) : c.rowcheck[h][i] \in Field
  BY DrawsOfSetup DEF DrawsFit, Height, VectorRows, RowSize
<1> QED BY <1>1 DEF CombinationsFit, IsLong, Places, Height

\* Drawn positions are in the codeword domain.
LEMMA PositionsOfDraw ==
  ASSUME NEW s \in Setups, NEW p \in Positions
  PROVE  PositionsFit(s, p)
BY DrawsOfSetup DEF DrawsFit, PositionsFit, CodeDomain, Places

\* The first round.
LEMMA SubmittedOracles ==
  ASSUME IopOfSetup, NEW o, NEW memory \in [iop.num_vars..(matrix_width - 1) -> MemoryValues],
         NEW masks, setup.make_zk => masks \in Masks,
         o = [w |-> [i \in 1..num_oracles_input |-> Encoded(Row(AuxiliaryOnlyWitness(memory), i))],
              result |-> [M \in Matrices |-> [i \in 1..num_oracles_vectors |-> Encoded(Row(Result(M), i))]],
              blinding |->
                IF setup.make_zk
                THEN [name \in Tests |-> [h \in Repetitions |->
                        IF name = "rowcheck" THEN ZeroBlinding(masks.rowcheck[h])
                        ELSE ZeroSumBlinding(masks.lincheck[name][h])]]
                ELSE << >>,
              masking |->
                IF setup.make_zk
                THEN [i \in LDTInstances |-> EvaluatedOver(masks.masking[i], codeword_domain)]
                ELSE << >>]
  PROVE  OraclesFit(setup, o)
<1> DEFINE s == setup
           aux == AuxiliaryOnlyWitness(memory)
<1>1. s \in Setups
  BY DEF IopOfSetup
<1>2. WitnessFits(s, o, aux)
  <2>1. ASSUME NEW x \in Places(Width(s))
        PROVE  /\ aux[x] \in Field
               /\ x < Variables(s) => aux[x] = IF x <= Len(Own(s)) THEN 0 ELSE Others(s)[x - Len(Own(s))]
    <3>1. aux[x] = IF x >= Variables(s) THEN memory[x] ELSE IF x <= Len(Own(s)) THEN 0
                   ELSE Others(s)[x - Len(Own(s))]
      BY MembersOfSetup DEF AuxiliaryOnlyWitness
    <3>2. x \in Nat /\ Variables(s) \in Nat /\ x <= Width(s) - 1 /\ Len(Own(s)) \in Nat
      BY <1>1, RowsHold, InputsType DEF Places
    <3>3. x >= Variables(s) => memory[x] \in Field
      <4>1. memory \in [Variables(s)..(Width(s) - 1) -> MemoryValues]
        BY MembersOfSetup
      <4>2. MemoryValues \subseteq Field
        BY LigeroAssumption
      <4>3. Width(s) \in Nat
        BY <1>1, RowsHold
      <4>4. x >= Variables(s) => x \in Variables(s)..(Width(s) - 1)
        <5> HIDE DEF s
        <5> QED BY <3>2, <4>3
      <4> HIDE DEF s
      <4> QED BY <4>1, <4>2, <4>4
    <3>4. x < Variables(s) /\ x > Len(Own(s)) => Others(s)[x - Len(Own(s))] \in Field
      BY <1>1, <3>2, InputsType
    <3>5. 0 \in Field
      BY FieldPrime DEF Field
    <3> HIDE DEF aux, s
    <3> QED BY <3>1, <3>2, <3>3, <3>4, <3>5
  <2>2. Auxiliary(s, aux)
    <3> HIDE DEF aux, s
    <3> QED BY <2>1 DEF Auxiliary
  <2>3. o.w = [i \in 1..InputRows(s) |-> Coded(s, RowOf(s, aux, i))]
    <3> HIDE DEF aux
    <3>1. o.w = [i \in 1..num_oracles_input |-> Encoded(Row(aux, i))]
      BY DEF aux
    <3> QED BY <3>1, MembersOfSetup, RowsOfSetup
  <2> HIDE DEF aux, s
  <2> QED BY <2>2, <2>3 DEF WitnessFits
<1>3. ResultsFit(s, o)
  <2>1. o.result = [M \in Matrices |-> [i \in 1..num_oracles_vectors |-> Encoded(Row(Result(M), i))]]
    OBVIOUS
  <2> QED BY <2>1, MembersOfSetup, RowsOfSetup DEF ResultsFit
<1>4. s.make_zk =>
        /\ \A h \in Repetitions : o.blinding["rowcheck"][h] = Zeros(s, masks.rowcheck[h])
        /\ \A M \in Matrices, h \in Repetitions : o.blinding[M][h] = ZeroSum(s, masks.lincheck[M][h])
        /\ \A i \in LDTInstances : o.masking[i] = EvaluatedOver(masks.masking[i], CodeDomain(s))
  <2>1. s.make_zk =>
          /\ \A h \in Repetitions : o.blinding["rowcheck"][h] = ZeroBlinding(masks.rowcheck[h])
          /\ \A M \in Matrices, h \in Repetitions : o.blinding[M][h] = ZeroSumBlinding(masks.lincheck[M][h])
          /\ \A i \in LDTInstances : o.masking[i] = EvaluatedOver(masks.masking[i], codeword_domain)
    BY DEF Tests, Matrices
  <2> QED BY <2>1, MembersOfSetup, RowsOfSetup
<1>5. s.make_zk =>
        /\ \A M \in Matrices, h \in Repetitions, k \in 0..(RowSize(s) - 2) : masks.lincheck[M][h][k] \in Field
        /\ \A h \in Repetitions, k \in 0..(EncodingIndependence - 1) : masks.rowcheck[h][k] \in Field
        /\ \A i \in LDTInstances : masks.masking[i] \in Seq(Field) /\ Len(masks.masking[i]) <= RowSize(s)
  BY <1>1, DrawsOfSetup DEF DrawsFit, RowSize
<1> HIDE DEF s
<1>6. ASSUME NEW name \in Tests, NEW h \in Repetitions PROVE \E B : HiddenBy(s, o, name, h, B)
  <2>1. CASE ~s.make_zk
    <3> DEFINE B == [x \in Field |-> 0]
    <3>1. B \in PolyFun(2 * RowSize(s))
      BY <1>1, SizesFit, ZeroPolynomial
    <3>2. \A k \in Places(RowSize(s)) : B[Column(s, k)] = 0
      <4>1. \A k \in Places(RowSize(s)) : Column(s, k) \in Field
        BY <1>1, SystematicElements DEF Column
      <4> QED BY <4>1
    <3>3. \A a \in Places(CodeDomain(s).order) : BlindAt(s, o, name, h, a) = B[At(s, a)]
      <4>1. \A a \in Places(CodeDomain(s).order) : At(s, a) \in Field
        BY <1>1, AtType
      <4> QED BY <2>1, <4>1 DEF BlindAt
    <3> HIDE DEF B
    <3>4. Tot([k \in Places(RowSize(s)) |-> B[Column(s, k)]], Places(RowSize(s))) = 0
      <4> DEFINE g == [k \in Places(RowSize(s)) |-> B[Column(s, k)]]
      <4>1. \A k \in Places(RowSize(s)) : g[k] = 0
        BY <3>2
      <4>2. IsFiniteSet(Places(RowSize(s)))
        BY <1>1, SizesFit
      <4> HIDE DEF g
      <4>3. Sum(g, Places(RowSize(s))) = 0
        BY <4>1, <4>2, SumZeros
      <4>4. Res(P, 0) = 0
        BY FieldPrime, ResSmall
      <4> QED BY <4>3, <4>4 DEF Tot, g
    <3>5. HiddenBy(s, o, name, h, B)
      BY <3>1, <3>2, <3>3, <3>4 DEF HiddenBy, IsMask
    <3> QED BY <3>5
  <2>2. CASE s.make_zk /\ name = "rowcheck"
    <3> DEFINE drawn == masks.rowcheck[h]
    <3>1. o.blinding[name][h] = Zeros(s, drawn) /\ \A k \in 0..(EncodingIndependence - 1) : drawn[k] \in Field
      BY <1>4, <1>5, <2>2
    <3> HIDE DEF drawn
    <3>2. PICK B : /\ IsMask(s, B) /\ \A k \in Places(RowSize(s)) : B[Column(s, k)] = 0
                   /\ \A a \in Places(CodeDomain(s).order) : Zeros(s, drawn)[a] = B[At(s, a)]
      BY <1>1, <3>1, ZerosHide
    <3>3. HiddenBy(s, o, name, h, B)
      BY <2>2, <3>1, <3>2 DEF HiddenBy, BlindAt
    <3> QED BY <3>3
  <2>3. CASE s.make_zk /\ name # "rowcheck"
    <3> DEFINE drawn == masks.lincheck[name][h]
    <3>1. o.blinding[name][h] = ZeroSum(s, drawn) /\ \A k \in 0..(RowSize(s) - 2) : drawn[k] \in Field
      BY <1>4, <1>5, <2>3 DEF Tests
    <3> HIDE DEF drawn
    <3>2. PICK B : IsMask(s, B) /\ \A a \in Places(CodeDomain(s).order) : ZeroSum(s, drawn)[a] = B[At(s, a)]
      BY <1>1, <3>1, ZeroSumHides
    <3>3. HiddenBy(s, o, name, h, B)
      BY <2>3, <3>1, <3>2 DEF HiddenBy, BlindAt
    <3> QED BY <3>3
  <2> QED BY <2>1, <2>2, <2>3
<1>7. ASSUME NEW i \in LDTInstances PROVE MaskingFits(s, o, i)
  <2> DEFINE m == masks.masking[i]
  <2>1. s.make_zk => m \in Seq(Field) /\ Len(m) <= RowSize(s) /\ o.masking[i] = EvaluatedOver(m, CodeDomain(s))
    BY <1>4, <1>5
  <2> HIDE DEF m
  <2>2. s.make_zk => EvaluatedOver(m, CodeDomain(s)) \in CodeSet(s)
    BY <1>1, <2>1, MaskIsCoded
  <2> QED BY <2>1, <2>2 DEF MaskingFits
<1>8. OraclesFit(s, o)
  BY <1>2, <1>3, <1>6, <1>7 DEF OraclesFit
<1> QED BY <1>8 DEF s

\* What the model checks is what Passes says, and its errors are those of the setup.
LEMMA AcceptsAsPasses ==
  ASSUME IopOfSetup, NEW drawn
  PROVE  (/\ \A h \in Repetitions :
               /\ \A M \in Matrices : LincheckAccepts(M, h, drawn.encoded)
               /\ RowcheckAccepts(h, drawn.encoded)
          /\ \A i \in LDTInstances : DirectTestAccepts(i, drawn.ldt))
         <=> Passes(setup, oracles, combinations, responses, ldt, drawn)
<1>1. ASSUME NEW M \in Matrices, NEW h
      PROVE  LincheckAccepts(M, h, drawn.encoded)
               <=> LincheckPasses(setup, oracles, M, h, combinations.lincheck[h], responses[M][h], drawn.encoded)
  <2>1. LincheckEvaluations(M, h, stated_input)
          = LincheckValues(setup, oracles, M, h, combinations.lincheck[h], Stated(setup))
    BY MembersOfSetup, ValuesOfSetup
  <2>2. SystematicResponse(M, h) = SystematicOf(setup, responses[M][h])
    BY ValuesOfSetup
  <2>3. \A a : ElementByIndex(codeword_domain, a) = At(setup, a)
    BY ValuesOfSetup
  <2> QED BY <2>1, <2>2, <2>3 DEF LincheckAccepts, LincheckPasses, Consistent
<1>2. ASSUME NEW h
      PROVE  RowcheckAccepts(h, drawn.encoded)
               <=> RowcheckPasses(setup, oracles, h, combinations.rowcheck[h], responses["rowcheck"][h], drawn.encoded)
  <2>1. RowcheckEvaluations(h) = RowcheckValues(setup, oracles, h, combinations.rowcheck[h])
    BY ValuesOfSetup
  <2>2. SystematicResponse("rowcheck", h) = SystematicOf(setup, responses["rowcheck"][h])
    BY ValuesOfSetup
  <2>3. \A a : ElementByIndex(codeword_domain, a) = At(setup, a)
    BY ValuesOfSetup
  <2> QED BY <2>1, <2>2, <2>3 DEF RowcheckAccepts, RowcheckPasses, Consistent
<1>3. ASSUME NEW i
      PROVE  DirectTestAccepts(i, drawn.ldt)
               <=> \A k \in DOMAIN drawn.ldt :
                     CombinedOf(setup, TestedOf(setup, oracles, i), ldt[i].coefficients)[drawn.ldt[k]]
                       = Evaluation(ldt[i].polynomial, At(setup, drawn.ldt[k]))
  <2>1. Combined(i, ldt[i].coefficients) = CombinedOf(setup, TestedOf(setup, oracles, i), ldt[i].coefficients)
    BY ValuesOfSetup
  <2>2. \A a : ElementByIndex(codeword_domain, a) = At(setup, a)
    BY ValuesOfSetup
  <2> QED BY <2>1, <2>2 DEF DirectTestAccepts
<1> QED BY <1>1, <1>2, <1>3 DEF Passes

\* The errors of VerdictFollowsTheErrors are those that decide the verdict.
LEMMA ErrorsOfSetup ==
  ASSUME IopOfSetup
  PROVE  ErrorsVanish(setup, combinations, positions)
         <=> \A h \in Repetitions :
               /\ \A d \in Places(systematic_domain_size) :
                    Total([i \in 1..num_oracles_vectors |->
                            combinations.rowcheck[h][i]
                              * ConstraintError((i - 1) * systematic_domain_size + d)]) = 0
               /\ \A M \in Matrices, k \in DOMAIN positions.encoded :
                    LET s     == RandomizedMatrix(M, combinations.lincheck[h])
                        error == [x \in Places(matrix_width) |-> InputError(x)]
                    IN Total([i \in 1..num_oracles_input |->
                               Encoded(Row(s, i))[positions.encoded[k]]
                                 * Encoded(Row(error, i))[positions.encoded[k]]]) = 0
<1>1. setup \in Setups
  BY DEF IopOfSetup
<1>2. \A n : ConstraintError(n) = ErrorOf(setup, n)
  <2>1. Len(iop.constraints) = Len(setup.circuit.constraints)
    BY <1>1, MembersOfSetup, ParsedType DEF ParsedConstraints
  <2>2. Result("A") = ResultOf(setup, "A") /\ Result("B") = ResultOf(setup, "B") /\ Result("C") = ResultOf(setup, "C")
    BY RowsOfSetup DEF Matrices
  <2> QED BY <2>1, <2>2 DEF ConstraintError, ErrorOf
<1>3. ASSUME NEW h, NEW d
      PROVE  Total([i \in 1..num_oracles_vectors |->
                      combinations.rowcheck[h][i] * ConstraintError((i - 1) * systematic_domain_size + d)])
               = RowErrors(setup, combinations.rowcheck[h], d)
  BY <1>2, MembersOfSetup DEF RowErrors
<1>4. [x \in Places(matrix_width) |-> InputError(x)] = Differing(setup, Stated(setup))
  BY MembersOfSetup, RowsOfSetup DEF InputError, Differing
<1>5. ASSUME NEW M \in Matrices, NEW r, NEW a
      PROVE  Total([i \in 1..num_oracles_input |->
                      Encoded(Row(RandomizedMatrix(M, r), i))[a]
                        * Encoded(Row([x \in Places(matrix_width) |-> InputError(x)], i))[a]])
               = Seen(setup, M, r, a)
  <2> DEFINE e == [x \in Places(matrix_width) |-> InputError(x)]
  <2>1. e = Differing(setup, Stated(setup))
    BY <1>4
  <2> HIDE DEF e
  <2>2. Total([i \in 1..num_oracles_input |-> Encoded(Row(RandomizedMatrix(M, r), i))[a] * Encoded(Row(e, i))[a]])
          = Seen(setup, M, r, a)
    BY <2>1, MembersOfSetup, RowsOfSetup DEF Seen
  <2> QED BY <2>2 DEF e
<1>6. systematic_domain_size = RowSize(setup)
  BY MembersOfSetup
<1> DEFINE In(h, d) ==
             Total([i \in 1..num_oracles_vectors |->
                      combinations.rowcheck[h][i] * ConstraintError((i - 1) * systematic_domain_size + d)])
           Of(M, h, k) ==
             Total([i \in 1..num_oracles_input |->
                      Encoded(Row(RandomizedMatrix(M, combinations.lincheck[h]), i))[positions.encoded[k]]
                        * Encoded(Row([x \in Places(matrix_width) |-> InputError(x)], i))[positions.encoded[k]]])
<1>7. \A h, d : In(h, d) = RowErrors(setup, combinations.rowcheck[h], d)
  BY <1>3
<1>8. \A M \in Matrices : \A h, k :
        Of(M, h, k) = Seen(setup, M, combinations.lincheck[h], positions.encoded[k])
  BY <1>5
<1> HIDE DEF In, Of
<1>9. ErrorsVanish(setup, combinations, positions)
      <=> \A h \in Repetitions :
            /\ \A d \in Places(systematic_domain_size) : In(h, d) = 0
            /\ \A M \in Matrices, k \in DOMAIN positions.encoded : Of(M, h, k) = 0
  BY <1>6, <1>7, <1>8 DEF ErrorsVanish
<1> QED BY <1>9 DEF In, Of

\* The invariant holds whatever the setup, the memory and the draws are.
THEOREM LigeroInvariant == LigeroSpec => []LigeroIInv
<1>1. LigeroInit => LigeroIInv
  BY DEF LigeroInit, LigeroIInv, IopOfSetup
<1>2. LigeroIInv /\ [LigeroNext]_ligeroVars => LigeroIInv'
  <2> SUFFICES ASSUME LigeroIInv, [LigeroNext]_ligeroVars PROVE LigeroIInv'
    OBVIOUS
  <2>1. IopOfSetup /\ setup \in Setups
    BY DEF LigeroIInv, IopOfSetup
  <2>2. CASE UNCHANGED ligeroVars
    BY <2>2 DEF LigeroIInv, ligeroVars, IopOfSetup
  <2>3. is_satisfied(iop.constraints, own_input, auxiliary) <=> CircuitHolds(setup.circuit, setup.witness)
    BY <2>1, MembersOfSetup, SatisfiedCircuit
  <2>4. CASE Refuse
    BY <2>3, <2>4 DEF Refuse, LigeroIInv, IopOfSetup
  <2>5. CASE SubmitOracles
    <3>1. OraclesFit(setup, oracles')
      <4>1. PICK memory \in [iop.num_vars..(matrix_width - 1) -> MemoryValues],
                 masks \in IF setup.make_zk THEN Masks ELSE {<< >>} :
              oracles' =
                [w |-> [i \in 1..num_oracles_input |-> Encoded(Row(AuxiliaryOnlyWitness(memory), i))],
                 result |-> [M \in Matrices |-> [i \in 1..num_oracles_vectors |-> Encoded(Row(Result(M), i))]],
                 blinding |->
                   IF setup.make_zk
                   THEN [name \in Tests |-> [h \in Repetitions |->
                           IF name = "rowcheck" THEN ZeroBlinding(masks.rowcheck[h])
                           ELSE ZeroSumBlinding(masks.lincheck[name][h])]]
                   ELSE << >>,
                 masking |->
                   IF setup.make_zk
                   THEN [i \in LDTInstances |-> EvaluatedOver(masks.masking[i], codeword_domain)]
                   ELSE << >>]
        BY <2>5 DEF SubmitOracles
      <4>2. setup.make_zk => masks \in Masks
        OBVIOUS
      <4> QED BY <2>1, <4>1, <4>2, SubmittedOracles
    <3>2. /\ combinations = << >> /\ responses = << >> /\ ldt = << >> /\ outcome = "none"
          /\ setup.caller = "main" => CircuitHolds(setup.circuit, setup.witness)
          /\ UNCHANGED <<setup, iop, combinations, responses, ldt, positions, outcome>>
      BY <2>3, <2>5 DEF SubmitOracles, LigeroIInv
    <3> QED BY <2>1, <3>1, <3>2 DEF LigeroIInv, IopOfSetup
  <2>6. CASE DrawCombinations
    <3>1. /\ oracles # << >> /\ responses = << >> /\ ldt = << >> /\ outcome \in {"none", "refused"}
          /\ combinations' \in Combinations
          /\ UNCHANGED <<setup, iop, oracles, responses, ldt, positions, outcome>>
      BY <2>6 DEF DrawCombinations, LigeroIInv
    <3>2. CombinationsFit(setup, combinations')
      BY <2>1, <3>1, DrawnCombinations
    <3> QED BY <3>1, <3>2 DEF LigeroIInv, IopOfSetup
  <2>7. CASE SubmitResponses
    <3>1. /\ combinations # << >> /\ ldt = << >> /\ outcome \in {"none", "refused"}
          /\ UNCHANGED <<setup, iop, oracles, combinations, ldt, positions, outcome>>
      BY <2>7 DEF SubmitResponses, LigeroIInv
    <3>2. Responds(setup, oracles, combinations, responses')
      <4>1. ASSUME NEW h \in Repetitions, NEW M \in Matrices
            PROVE  responses'[M][h] = Response(LincheckEvaluations(M, h, own_input))
        BY <2>7 DEF SubmitResponses, Tests, Matrices
      <4>2. ASSUME NEW h \in Repetitions
            PROVE  responses'["rowcheck"][h] = Response(RowcheckEvaluations(h))
        BY <2>7 DEF SubmitResponses, Tests
      <4>3. own_input = Own(setup)
        BY <2>1, MembersOfSetup
      <4> QED BY <2>1, <4>1, <4>2, <4>3, RowsOfSetup, ValuesOfSetup DEF Responds
    <3> QED BY <3>1, <3>2 DEF LigeroIInv, IopOfSetup
  <2>8. CASE SubmitPolynomial
    <3>1. /\ responses # << >> /\ outcome \in {"none", "refused"}
          /\ UNCHANGED <<setup, iop, oracles, combinations, responses, positions, outcome>>
      BY <2>8 DEF SubmitPolynomial, LigeroIInv
    <3>2. PolynomialsFit(setup, oracles, ldt')
      <4>1. PICK drawn \in LDTCoefficients :
              ldt' = [i \in LDTInstances |->
                        [coefficients |-> drawn[i],
                         polynomial   |-> SubSeq(CoefficientsFrom(Combined(i, drawn[i]), codeword_domain),
                                                 1, systematic_domain_size)]]
        BY <2>8 DEF SubmitPolynomial
      <4>2. ASSUME NEW i \in LDTInstances
            PROVE  drawn[i] \in Seq(Field) /\ Len(drawn[i]) + 1 >= InputRows(setup) + 3 * VectorRows(setup) + 1
        BY <2>1, DrawsOfSetup DEF DrawsFit, InputRows, VectorRows
      <4>3. ASSUME NEW i \in LDTInstances
            PROVE  /\ ldt'[i].coefficients = drawn[i]
                   /\ ldt'[i].polynomial
                        = SubSeq(CoefficientsFrom(CombinedOf(setup, TestedOf(setup, oracles, i), drawn[i]),
                                                  CodeDomain(setup)), 1, RowSize(setup))
        <5>1. /\ ldt'[i].coefficients = drawn[i]
              /\ ldt'[i].polynomial
                   = SubSeq(CoefficientsFrom(Combined(i, drawn[i]), codeword_domain), 1, systematic_domain_size)
          BY <4>1
        <5> QED BY <2>1, <5>1, MembersOfSetup, ValuesOfSetup
      <4> QED BY <4>2, <4>3 DEF PolynomialsFit
    <3> QED BY <3>1, <3>2 DEF LigeroIInv, IopOfSetup
  <2>9. CASE LigeroVerifierPredicate
    <3>1. PICK drawn \in Positions :
            /\ positions' = drawn
            /\ outcome' =
                 IF /\ \A h \in Repetitions :
                         /\ \A M \in Matrices : LincheckAccepts(M, h, drawn.encoded)
                         /\ RowcheckAccepts(h, drawn.encoded)
                    /\ \A i \in LDTInstances : DirectTestAccepts(i, drawn.ldt)
                 THEN "accepted" ELSE "rejected"
      BY <2>9 DEF LigeroVerifierPredicate
    <3>2. /\ ldt # << >>
          /\ UNCHANGED <<setup, iop, oracles, combinations, responses, ldt>>
      BY <2>9 DEF LigeroVerifierPredicate
    <3>3. /\ OraclesFit(setup, oracles) /\ CombinationsFit(setup, combinations)
          /\ Responds(setup, oracles, combinations, responses) /\ PolynomialsFit(setup, oracles, ldt)
      BY <3>2 DEF LigeroIInv
    <3>4. PositionsFit(setup, drawn)
      BY <2>1, PositionsOfDraw
    <3>5. Passes(setup, oracles, combinations, responses, ldt, drawn) <=> ErrorsVanish(setup, combinations, drawn)
      BY <2>1, <3>3, <3>4, VerdictOfErrors
    <3>6. /\ outcome' \in {"accepted", "rejected"}
          /\ outcome' = "accepted" <=> ErrorsVanish(setup, combinations, drawn)
      <4>1. outcome' = IF Passes(setup, oracles, combinations, responses, ldt, drawn) THEN "accepted" ELSE "rejected"
        BY <2>1, <3>1, AcceptsAsPasses
      <4> QED BY <3>5, <4>1
    <3> QED BY <2>1, <3>1, <3>2, <3>4, <3>6 DEF LigeroIInv, IopOfSetup
  <2> QED BY <2>2, <2>4, <2>5, <2>6, <2>7, <2>8, <2>9 DEF LigeroNext
<1> QED BY <1>1, <1>2, PTL DEF LigeroSpec

\* VerdictFollowsTheErrors: whoever proves what to whom, the verifier accepts exactly if the drawn
\* combinations of the errors of the constraints are zero in each column, and the error of the
\* primary input is not seen at the positions.
THEOREM VerdictFollowsErrors == LigeroSpec => []VerdictFollowsTheErrors
<1>1. LigeroIInv => VerdictFollowsTheErrors
  <2> SUFFICES ASSUME LigeroIInv, outcome \in {"accepted", "rejected"} PROVE VerdictFollowsTheErrors
    BY DEF VerdictFollowsTheErrors
  <2>1. IopOfSetup /\ (outcome = "accepted" <=> ErrorsVanish(setup, combinations, positions))
    BY DEF LigeroIInv
  <2> QED BY <2>1, ErrorsOfSetup DEF VerdictFollowsTheErrors
<1> QED BY <1>1, LigeroInvariant, PTL

\* ExecutableFollowsTheCircuit: the executable refuses exactly a witness that does not satisfy the
\* circuit as circom means it, and the proof of any other is accepted, whatever is drawn and
\* whatever follows the witness in memory.
THEOREM ExecutableFollows == LigeroSpec => []ExecutableFollowsTheCircuit
<1>1. LigeroIInv => ExecutableFollowsTheCircuit
  <2> SUFFICES ASSUME LigeroIInv, setup.caller = "main"
               PROVE  outcome \in {"none", IF CircuitHolds(setup.circuit, setup.witness) THEN "accepted" ELSE "refused"}
    BY DEF ExecutableFollowsTheCircuit
  <2>1. CASE outcome \in {"none", "refused"}
    BY <2>1 DEF LigeroIInv
  <2>2. CASE outcome \in {"accepted", "rejected"}
    <3>1. /\ CircuitHolds(setup.circuit, setup.witness) /\ CombinationsFit(setup, combinations)
          /\ PositionsFit(setup, positions) /\ setup \in Setups
          /\ outcome = "accepted" <=> ErrorsVanish(setup, combinations, positions)
      BY <2>2 DEF LigeroIInv, IopOfSetup
    <3>2. ErrorsVanish(setup, combinations, positions)
      BY <3>1, NoErrors
    <3> QED BY <3>1, <3>2
  <2> QED BY <2>1, <2>2 DEF LigeroIInv
<1> QED BY <1>1, LigeroInvariant, PTL

===============================================================================
