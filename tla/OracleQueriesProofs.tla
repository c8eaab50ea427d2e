------------------------- MODULE OracleQueriesProofs -------------------------
(***************************************************************************)
(* Theorems about OracleQueries, for every number of oracles, query        *)
(* positions and queries, every way they are made of one another and every *)
(* assignment of oracles to trees, when callers are careful: no cache goes *)
(* stale, the transcript answers every query, the verifier never throws,   *)
(* and it hears what one with access to the oracles would.                 *)
(*                                                                         *)
(* The recursive functions of the module are unfolded first, by induction  *)
(* over handles; then evaluations through current caches are shown to give *)
(* the definition, and careful programs to squeeze the same positions.     *)
(* The inductive invariant says that caches are current, that whatever is  *)
(* behind the prover's evaluations is recorded, and that the trees are     *)
(* open wherever a query leads.                                            *)
(***************************************************************************)
EXTENDS OracleQueries, LibraryFacts, TLAPS

-----------------------------------------------------------------------------
(***************************************************************************)
(* What is reached from a handle, when every handle leads to smaller ones. *)
(***************************************************************************)
Descends(n, stop, madeOf) ==
  \A h \in (1..n) \ stop : Range(madeOf[h]) \subseteq 1..(h - 1)

Reaching(n, stop, madeOf, r) ==
  r = [h \in 1..n |-> {h} \union (IF h \in stop THEN {} ELSE UNION {r[c] : c \in Range(madeOf[h])})]

\* The recursion of Reached at every handle.
LEMMA ReachingValue ==
  ASSUME NEW n, NEW stop, NEW madeOf, NEW r, Reaching(n, stop, madeOf, r)
  PROVE  \A h \in 1..n :
           r[h] = {h} \union (IF h \in stop THEN {} ELSE UNION {r[c] : c \in Range(madeOf[h])})
BY Zenon DEF Reaching

\* The recursion of Reached has a solution.
LEMMA ReachingExists ==
  ASSUME NEW n \in Nat, NEW stop, NEW madeOf, Descends(n, stop, madeOf)
  PROVE  \E r : Reaching(n, stop, madeOf, r)
<1> DEFINE body(h, r) == {h} \union (IF h \in stop THEN {} ELSE UNION {r[c] : c \in Range(madeOf[h])})
           upTo(k, r) == r = [h \in 1..k |-> body(h, r)]
           N == {k \in Nat : k <= n => \E r : upTo(k, r)}
<1>1. 0 \in N
  <2>1. upTo(0, [h \in 1..0 |-> {}])
    OBVIOUS
  <2>2. \E r : upTo(0, r)
    BY <2>1, Zenon
  <2> QED BY <2>2
<1>2. ASSUME NEW k \in Nat, k \in N PROVE k + 1 \in N
  <2>0. SUFFICES ASSUME k + 1 <= n PROVE \E r : upTo(k + 1, r)
    OBVIOUS
  <2>1. PICK r : upTo(k, r)
    BY <1>2, <2>0
  <2> DEFINE g == [h \in 1..(k + 1) |-> IF h \in 1..k THEN r[h] ELSE body(h, r)]
  <2>2. \A h \in 1..(k + 1) : g[h] = body(h, r)
    <3>1. \A h \in 1..k : r[h] = body(h, r)
      <4> HIDE DEF body
      <4> QED BY <2>1
    <3> HIDE DEF body
    <3> QED BY <3>1
  <2>3. \A h \in 1..k : g[h] = r[h]
    OBVIOUS
  <2>4. \A h \in 1..(k + 1) : h \notin stop => Range(madeOf[h]) \subseteq 1..k
    <3>1. SUFFICES ASSUME NEW h \in 1..(k + 1), h \notin stop
                   PROVE  Range(madeOf[h]) \subseteq 1..k
      OBVIOUS
    <3>2. h \in 1..n /\ 1..(h - 1) \subseteq 1..k
      BY <2>0
    <3>3. Range(madeOf[h]) \subseteq 1..(h - 1)
      BY <3>1, <3>2 DEF Descends
    <3> QED BY <3>2, <3>3
  <2> HIDE DEF g
  <2>5. \A h \in 1..(k + 1) : body(h, g) = body(h, r)
    <3>1. SUFFICES ASSUME NEW h \in 1..(k + 1) PROVE body(h, g) = body(h, r)
      OBVIOUS
    <3>2. CASE h \in stop
      BY <3>2
    <3>3. CASE h \notin stop
      <4>1. \A c \in Range(madeOf[h]) : g[c] = r[c]
        BY <2>3, <2>4, <3>3
      <4>2. {g[c] : c \in Range(madeOf[h])} = {r[c] : c \in Range(madeOf[h])}
        BY <4>1
      <4> QED BY <4>2
    <3> QED BY <3>2, <3>3
  <2>6. g = [h \in 1..(k + 1) |-> g[h]]
    BY DEF g
  <2> HIDE DEF body
  <2>7. upTo(k + 1, g)
    BY <2>2, <2>5, <2>6
  <2> QED BY <2>7, Zenon
<1> HIDE DEF N
<1>3. n \in N
  BY <1>1, <1>2, NatSetInduction
<1>4. n <= n
  OBVIOUS
<1> QED BY <1>3, <1>4 DEF N, Reaching

\* Reached is a solution of its recursion.
LEMMA ReachedReaches ==
  ASSUME NEW n \in Nat, NEW stop, NEW madeOf, Descends(n, stop, madeOf)
  PROVE  Reaching(n, stop, madeOf, Reached(1..n, stop, madeOf))
<1>1. \E r : Reaching(n, stop, madeOf, r)
  BY ReachingExists, Zenon
<1>2. Reached(1..n, stop, madeOf) = CHOOSE r : Reaching(n, stop, madeOf, r)
  BY DEF Reached, Reaching
<1> QED BY <1>1, <1>2, Zenon

\* A handle reaches itself and none above it.
LEMMA ReachedBelow ==
  ASSUME NEW n \in Nat, NEW stop, NEW madeOf, Descends(n, stop, madeOf),
         NEW r, Reaching(n, stop, madeOf, r), NEW h \in 1..n
  PROVE  h \in r[h] /\ r[h] \subseteq 1..h
<1> DEFINE N == {k \in Nat : \A j \in 1..n : j <= k => r[j] \subseteq 1..j}
<1>1. 0 \in N
  OBVIOUS
<1>2. ASSUME NEW k \in Nat, k \in N PROVE k + 1 \in N
  <2>1. SUFFICES ASSUME NEW j \in 1..n, j <= k + 1 PROVE r[j] \subseteq 1..j
    OBVIOUS
  <2>2. r[j] = {j} \union (IF j \in stop THEN {} ELSE UNION {r[c] : c \in Range(madeOf[j])})
    BY Zenon DEF Reaching
  <2>3. j \notin stop => \A c \in Range(madeOf[j]) : r[c] \subseteq 1..j
    <3>1. SUFFICES ASSUME j \notin stop, NEW c \in Range(madeOf[j]) PROVE r[c] \subseteq 1..j
      OBVIOUS
    <3>2. c \in 1..(j - 1)
      BY <3>1 DEF Descends
    <3>3. c \in 1..n /\ c <= k /\ 1..c \subseteq 1..j
      BY <2>1, <3>2
    <3> QED BY <1>2, <3>3
  <2> QED BY <2>2, <2>3
<1> HIDE DEF N
<1>3. h \in N
  BY <1>1, <1>2, NatSetInduction
<1>4. h \in r[h]
  BY ReachingValue
<1> QED BY <1>3, <1>4 DEF N

\* What a reached handle reaches is reached.
LEMMA ReachedOnward ==
  ASSUME NEW n \in Nat, NEW stop, NEW madeOf, Descends(n, stop, madeOf),
         NEW r, Reaching(n, stop, madeOf, r), NEW h \in 1..n, NEW k \in r[h]
  PROVE  k \in 1..n /\ r[k] \subseteq r[h]
<1> DEFINE N == {i \in Nat : \A j \in 1..n : j <= i => \A c \in r[j] : r[c] \subseteq r[j]}
<1>1. 0 \in N
  OBVIOUS
<1>2. ASSUME NEW i \in Nat, i \in N PROVE i + 1 \in N
  <2>1. SUFFICES ASSUME NEW j \in 1..n, j <= i + 1, NEW c \in r[j] PROVE r[c] \subseteq r[j]
    OBVIOUS
  <2>2. r[j] = {j} \union (IF j \in stop THEN {} ELSE UNION {r[d] : d \in Range(madeOf[j])})
    BY Zenon DEF Reaching
  <2>3. CASE c = j
    BY <2>3
  <2>4. CASE c # j
    <3>1. j \notin stop
      BY <2>1, <2>2, <2>4
    <3>2. PICK d \in Range(madeOf[j]) : c \in r[d]
      BY <2>1, <2>2, <2>4
    <3>3. d \in 1..(j - 1)
      BY <3>1 DEF Descends
    <3>4. d \in 1..n /\ d <= i
      BY <2>1, <3>3
    <3>5. r[c] \subseteq r[d]
      BY <1>2, <3>2, <3>4
    <3>6. r[d] \subseteq r[j]
      BY <2>2, <3>1
    <3> QED BY <3>5, <3>6
  <2> QED BY <2>3, <2>4
<1> HIDE DEF N
<1>3. h \in N
  BY <1>1, <1>2, NatSetInduction
<1>4. k \in 1..n
  BY ReachedBelow
<1> QED BY <1>3, <1>4 DEF N

Wider(stop, more) == stop \subseteq more

\* All of all is reached in less, or behind a handle that is stopped at.
Past(more, all, less, r) ==
  /\ less \subseteq all
  /\ \A o \in all : o \in less \/ \E k \in less \intersect more : o \in r[k]

\* With more handles to stop at less is reached, and what is missing is behind one of them.
LEMMA ReachedPast ==
  ASSUME NEW n \in Nat, NEW stop, NEW madeOf, Descends(n, stop, madeOf),
         NEW more, Wider(stop, more),
         NEW r, Reaching(n, stop, madeOf, r), NEW s, Reaching(n, more, madeOf, s),
         NEW h \in 1..n
  PROVE  Past(more, r[h], s[h], r)
<1> DEFINE fits(j) == /\ s[j] \subseteq r[j]
                      /\ \A o \in r[j] : o \in s[j] \/ \E k \in s[j] \intersect more : o \in r[k]
           N == {i \in Nat : \A j \in 1..n : j <= i => fits(j)}
<1>1. 0 \in N
  OBVIOUS
<1>2. ASSUME NEW i \in Nat, i \in N PROVE i + 1 \in N
  <2>1. SUFFICES ASSUME NEW j \in 1..n, j <= i + 1 PROVE fits(j)
    <3> HIDE DEF fits
    <3> QED OBVIOUS
  <2>2. r[j] = {j} \union (IF j \in stop THEN {} ELSE UNION {r[c] : c \in Range(madeOf[j])})
    BY Zenon DEF Reaching
  <2>3. s[j] = {j} \union (IF j \in more THEN {} ELSE UNION {s[c] : c \in Range(madeOf[j])})
    BY Zenon DEF Reaching
  <2>4. CASE j \in more
    <3>1. s[j] = {j} /\ j \in r[j]
      BY <2>2, <2>3, <2>4
    <3> QED BY <2>4, <3>1
  <2>5. CASE j \notin more
    <3>1. \A c \in Range(madeOf[j]) : fits(c)
      <4>1. SUFFICES ASSUME NEW c \in Range(madeOf[j]) PROVE fits(c)
        <5> HIDE DEF fits
        <5> QED OBVIOUS
      <4>2. c \in 1..(j - 1)
        BY <2>5 DEF Descends, Wider
      <4>3. c \in 1..n /\ c <= i
        BY <2>1, <4>2
      <4> HIDE DEF fits
      <4> QED BY <1>2, <4>3
    <3>2. j \notin stop
      BY <2>5 DEF Wider
    <3>3. s[j] \subseteq r[j]
      BY <2>2, <2>3, <2>5, <3>1, <3>2
    <3>4. ASSUME NEW o \in r[j] PROVE o \in s[j] \/ \E k \in s[j] \intersect more : o \in r[k]
      <4>1. CASE o = j
        BY <2>3, <4>1
      <4>2. CASE o # j
        <5>1. PICK c \in Range(madeOf[j]) : o \in r[c]
          BY <2>2, <3>2, <3>4, <4>2
        <5>2. s[c] \subseteq s[j]
          BY <2>3, <2>5
        <5> QED BY <3>1, <5>1, <5>2
      <4> QED BY <4>1, <4>2
    <3> QED BY <3>3, <3>4
  <2> QED BY <2>4, <2>5
<1> HIDE DEF N
<1>3. h \in N
  BY <1>1, <1>2, NatSetInduction
<1> QED BY <1>3 DEF N, Past

-----------------------------------------------------------------------------
(***************************************************************************)
(* Handles of oracles, and the values that are computed for them.          *)
(***************************************************************************)
nHandles == nOracles + nVirtual

\* The handles of oracles are numbers from 1 on.
LEMMA OracleHandlesNumbered ==
  /\ nHandles \in Nat
  /\ OracleHandles = 1..nHandles
  /\ Oracles \subseteq OracleHandles /\ VirtualOracles \subseteq OracleHandles
  /\ \A k \in OracleHandles : k \in VirtualOracles <=> k \notin Oracles
  /\ Challenged \subseteq VirtualOracles /\ CachedWhole \subseteq VirtualOracles
<1>1. nOracles \in Nat /\ nVirtual \in Nat
  BY OracleQueriesAssumption
<1>2. Challenged \subseteq VirtualOracles /\ CachedWhole \subseteq VirtualOracles
  BY OracleQueriesAssumption
<1>3. 1..nHandles = (1..nOracles) \union ((nOracles + 1)..(nOracles + nVirtual))
  BY <1>1 DEF nHandles
<1> QED BY <1>1, <1>2, <1>3 DEF nHandles, OracleHandles, Oracles, VirtualOracles

\* A virtual oracle has smaller constituents.
LEMMA ConstituentsAreSmaller ==
  ASSUME NEW v \in VirtualOracles
  PROVE  /\ DOMAIN constituents[v] = 1..Len(constituents[v])
         /\ \A i \in DOMAIN constituents[v] : constituents[v][i] \in 1..(v - 1)
         /\ Range(constituents[v]) \subseteq 1..(v - 1)
<1>1. SUFFICES ASSUME NEW c, c = constituents[v]
               PROVE  /\ DOMAIN c = 1..Len(c)
                      /\ \A i \in DOMAIN c : c[i] \in 1..(v - 1)
                      /\ Range(c) \subseteq 1..(v - 1)
  BY Zenon
<1>2. c \in Seq(1..(v - 1))
  BY <1>1, OracleQueriesAssumption, Zenon
<1>3. DOMAIN c = 1..Len(c) /\ \A i \in DOMAIN c : c[i] \in 1..(v - 1)
  BY <1>2, SequenceType
<1> QED BY <1>3 DEF Range

\* All handles lead to smaller ones, when real oracles are stopped at.
LEMMA OraclesDescend ==
  ASSUME NEW stop, Oracles \subseteq stop
  PROVE  Descends(nHandles, stop, constituents)
<1> SUFFICES ASSUME NEW h \in (1..nHandles) \ stop
             PROVE  Range(constituents[h]) \subseteq 1..(h - 1)
  BY DEF Descends
<1>1. h \in VirtualOracles
  BY OracleHandlesNumbered
<1> QED BY <1>1, ConstituentsAreSmaller

\* What is read for an oracle, when what is in stop is known.
ReadUpTo(stop) == Reached(OracleHandles, stop, constituents)

\* ReadUpTo is a solution of the recursion of Reached.
LEMMA ReadUpToReaches ==
  ASSUME NEW stop, Oracles \subseteq stop
  PROVE  Reaching(nHandles, stop, constituents, ReadUpTo(stop))
<1>1. Reaching(nHandles, stop, constituents, Reached(1..nHandles, stop, constituents))
  BY OracleHandlesNumbered, OraclesDescend, ReachedReaches
<1> QED BY <1>1, OracleHandlesNumbered, Zenon DEF ReadUpTo

\* What an oracle is made of are handles, and what they are made of it is made of, too.
LEMMA ReadUpToOnward ==
  ASSUME NEW stop, Oracles \subseteq stop, NEW h \in OracleHandles
  PROVE  /\ h \in ReadUpTo(stop)[h]
         /\ ReadUpTo(stop)[h] \subseteq OracleHandles
         /\ \A k \in ReadUpTo(stop)[h] : ReadUpTo(stop)[k] \subseteq ReadUpTo(stop)[h]
<1> DEFINE r == ReadUpTo(stop)
<1>1. /\ nHandles \in Nat /\ Descends(nHandles, stop, constituents)
      /\ Reaching(nHandles, stop, constituents, r) /\ h \in 1..nHandles
  BY OracleHandlesNumbered, OraclesDescend, ReadUpToReaches
<1> HIDE DEF r
<1>2. h \in r[h] /\ r[h] \subseteq 1..h
  BY <1>1, ReachedBelow
<1>3. \A k \in r[h] : r[k] \subseteq r[h]
  BY <1>1, ReachedOnward
<1>4. 1..h \subseteq OracleHandles
  BY <1>1, OracleHandlesNumbered
<1> QED BY <1>2, <1>3, <1>4 DEF r

\* The equation of ReadUpTo for an oracle that is not stopped at.
LEMMA ReadUpToConstituents ==
  ASSUME NEW stop, Oracles \subseteq stop, NEW h \in OracleHandles \ stop
  PROVE  \A i \in DOMAIN constituents[h] :
           ReadUpTo(stop)[constituents[h][i]] \subseteq ReadUpTo(stop)[h]
<1> DEFINE r == ReadUpTo(stop)
<1>1. Reaching(nHandles, stop, constituents, r) /\ h \in 1..nHandles
  BY OracleHandlesNumbered, ReadUpToReaches
<1> HIDE DEF r
<1>2. r[h] = {h} \union (IF h \in stop THEN {} ELSE UNION {r[c] : c \in Range(constituents[h])})
  BY <1>1, Zenon DEF Reaching
<1>3. \A i \in DOMAIN constituents[h] : constituents[h][i] \in Range(constituents[h])
  BY DEF Range
<1> QED BY <1>2, <1>3 DEF r

Valued(known, set, v) ==
  v = [k \in OracleHandles |->
         IF k \in DOMAIN known THEN known[k]
         ELSE <<k, {k} \intersect set, [i \in DOMAIN constituents[k] |-> v[constituents[k][i]]]>>]

\* The recursion of ValuesFrom has a solution, when real oracles are known.
LEMMA ValuesExist ==
  ASSUME NEW known, NEW set, Oracles \subseteq DOMAIN known
  PROVE  \E v : Valued(known, set, v)
<1> DEFINE body(k, v) ==
             IF k \in DOMAIN known THEN known[k]
             ELSE <<k, {k} \intersect set, [i \in DOMAIN constituents[k] |-> v[constituents[k][i]]]>>
           upTo(n, v) == v = [k \in 1..n |-> body(k, v)]
           N == {n \in Nat : n <= nHandles => \E v : upTo(n, v)}
<1>0. nHandles \in Nat /\ OracleHandles = 1..nHandles
  BY OracleHandlesNumbered
<1>1. 0 \in N
  <2>1. upTo(0, [k \in 1..0 |-> {}])
    OBVIOUS
  <2>2. \E v : upTo(0, v)
    BY <2>1, Zenon
  <2> QED BY <2>2
<1>2. ASSUME NEW n \in Nat, n \in N PROVE n + 1 \in N
  <2>0. SUFFICES ASSUME n + 1 <= nHandles PROVE \E v : upTo(n + 1, v)
    OBVIOUS
  <2>1. PICK v : upTo(n, v)
    BY <1>0, <1>2, <2>0
  <2> DEFINE w == [k \in 1..(n + 1) |-> IF k \in 1..n THEN v[k] ELSE body(k, v)]
  <2>2. \A k \in 1..(n + 1) : w[k] = body(k, v)
    <3>1. \A k \in 1..n : v[k] = body(k, v)
      <4> HIDE DEF body
      <4> QED BY <2>1
    <3> HIDE DEF body
    <3> QED BY <3>1
  <2>3. \A k \in 1..n : w[k] = v[k]
    OBVIOUS
  <2>4. \A k \in 1..(n + 1) : k \notin DOMAIN known =>
          \A i \in DOMAIN constituents[k] : constituents[k][i] \in 1..n
    <3>1. SUFFICES ASSUME NEW k \in 1..(n + 1), k \notin DOMAIN known,
                          NEW i \in DOMAIN constituents[k]
                   PROVE  constituents[k][i] \in 1..n
      OBVIOUS
    <3>2. k \in VirtualOracles
      BY <1>0, <2>0, <3>1, OracleHandlesNumbered
    <3>3. constituents[k][i] \in 1..(k - 1)
      BY <3>1, <3>2, ConstituentsAreSmaller
    <3> QED BY <3>3
  <2> HIDE DEF w
  <2>5. \A k \in 1..(n + 1) : body(k, w) = body(k, v)
    <3>1. SUFFICES ASSUME NEW k \in 1..(n + 1) PROVE body(k, w) = body(k, v)
      OBVIOUS
    <3>2. CASE k \in DOMAIN known
      BY <3>2
    <3>3. CASE k \notin DOMAIN known
      <4>1. [i \in DOMAIN constituents[k] |-> w[constituents[k][i]]]
              = [i \in DOMAIN constituents[k] |-> v[constituents[k][i]]]
        BY <2>3, <2>4, <3>3
      <4> QED BY <4>1, Zenon
    <3> QED BY <3>2, <3>3
  <2>6. w = [k \in 1..(n + 1) |-> w[k]]
    BY DEF w
  <2> HIDE DEF body
  <2>7. upTo(n + 1, w)
    BY <2>2, <2>5, <2>6
  <2> QED BY <2>7, Zenon
<1> HIDE DEF N
<1>3. nHandles \in N
  BY <1>0, <1>1, <1>2, NatSetInduction
<1>4. nHandles <= nHandles
  BY <1>0
<1>5. \E v : v = [k \in 1..nHandles |-> body(k, v)]
  BY <1>3, <1>4 DEF N
<1> QED BY <1>0, <1>5, Zenon DEF Valued

\* ValuesFrom is a solution of its recursion.
LEMMA ValuesFromValued ==
  ASSUME NEW known, NEW set, Oracles \subseteq DOMAIN known
  PROVE  Valued(known, set, ValuesFrom(known, set))
<1>1. \E v : Valued(known, set, v)
  BY ValuesExist, Zenon
<1>2. ValuesFrom(known, set) = CHOOSE v : Valued(known, set, v)
  BY DEF ValuesFrom, Valued
<1> QED BY <1>1, <1>2, Zenon

\* The definition of a real oracle, and of a virtual one.
LEMMA DefinitionEquation ==
  ASSUME NEW x
  PROVE  /\ \A o \in Oracles : Definition(o, x) = <<o, x>>
         /\ \A v \in VirtualOracles :
              Definition(v, x) = <<v, {v} \intersect Challenged,
                [i \in DOMAIN constituents[v] |-> Definition(constituents[v][i], x)]>>
<1> DEFINE s == Submitted(x)
<1>1. DOMAIN s = Oracles /\ \A o \in Oracles : s[o] = <<o, x>>
  BY DEF Submitted
<1>2. \A k : Definition(k, x) = ValuesFrom(s, Challenged)[k]
  BY DEF Definition
<1> DEFINE d == ValuesFrom(s, Challenged)
<1> HIDE DEF s
<1>9. Valued(s, Challenged, d)
  BY <1>1, ValuesFromValued
<1> HIDE DEF d
<1>3. \A k \in OracleHandles :
        Definition(k, x) = IF k \in DOMAIN s THEN s[k]
          ELSE <<k, {k} \intersect Challenged,
                 [i \in DOMAIN constituents[k] |-> ValuesFrom(s, Challenged)[constituents[k][i]]]>>
  <2>1. \A k \in OracleHandles :
          d[k] = IF k \in DOMAIN s THEN s[k]
            ELSE <<k, {k} \intersect Challenged,
                   [i \in DOMAIN constituents[k] |-> d[constituents[k][i]]]>>
    BY <1>9, Zenon DEF Valued
  <2> QED BY <1>2, <2>1, Zenon DEF d
<1>4. \A k \in OracleHandles :
        Definition(k, x) = IF k \in DOMAIN s THEN s[k]
          ELSE <<k, {k} \intersect Challenged,
                 [i \in DOMAIN constituents[k] |-> Definition(constituents[k][i], x)]>>
  <2>1. SUFFICES ASSUME NEW k \in OracleHandles
                 PROVE  [i \in DOMAIN constituents[k] |->
                           ValuesFrom(s, Challenged)[constituents[k][i]]]
                          = [i \in DOMAIN constituents[k] |-> Definition(constituents[k][i], x)]
    BY <1>3, Zenon
  <2> QED BY <1>2, Zenon
<1>5. \A o \in Oracles : o \in OracleHandles
  BY OracleHandlesNumbered
<1>6. \A v \in VirtualOracles : v \in OracleHandles /\ v \notin Oracles
  BY OracleHandlesNumbered
<1>7. \A o \in Oracles : Definition(o, x) = <<o, x>>
  BY <1>1, <1>4, <1>5, Zenon
<1>8. \A v \in VirtualOracles : Definition(v, x) = <<v, {v} \intersect Challenged,
        [i \in DOMAIN constituents[v] |-> Definition(constituents[v][i], x)]>>
  BY <1>1, <1>4, <1>6, Zenon
<1> QED BY <1>7, <1>8

\* Nothing read for h at x is known otherwise than its definition has it, or made too early.
Settled(known, set, x, h) ==
  \A k \in ReadUpTo(DOMAIN known)[h] :
    IF k \in DOMAIN known THEN known[k] = Definition(k, x)
    ELSE {k} \intersect set = {k} \intersect Challenged

\* From such values comes the definition.
LEMMA ValuesAgree ==
  ASSUME NEW known, NEW set, Oracles \subseteq DOMAIN known, NEW x, NEW h \in OracleHandles,
         Settled(known, set, x, h)
  PROVE  ValuesFrom(known, set)[h] = Definition(h, x)
<1> DEFINE v == ValuesFrom(known, set)
           N == {n \in Nat : \A j \in OracleHandles :
                               j <= n /\ Settled(known, set, x, j) => v[j] = Definition(j, x)}
<1>9. Valued(known, set, v)
  BY ValuesFromValued
<1> HIDE DEF v
<1>0. \A k \in OracleHandles :
        v[k] = IF k \in DOMAIN known THEN known[k]
               ELSE <<k, {k} \intersect set, [i \in DOMAIN constituents[k] |-> v[constituents[k][i]]]>>
  BY <1>9, Zenon DEF Valued
<1>1. 0 \in N
  BY OracleHandlesNumbered
<1>2. ASSUME NEW n \in Nat, n \in N PROVE n + 1 \in N
  <2>1. SUFFICES ASSUME NEW j \in OracleHandles, j <= n + 1, Settled(known, set, x, j)
                 PROVE  v[j] = Definition(j, x)
    OBVIOUS
  <2>2. j \in ReadUpTo(DOMAIN known)[j]
    BY ReadUpToOnward
  <2>3. CASE j \in DOMAIN known
    <3>1. known[j] = Definition(j, x)
      BY <2>1, <2>2, <2>3 DEF Settled
    <3> QED BY <1>0, <2>3, <3>1, Zenon
  <2>4. CASE j \notin DOMAIN known
    <3>1. j \in VirtualOracles
      BY <2>4, OracleHandlesNumbered
    <3>2. \A i \in DOMAIN constituents[j] : v[constituents[j][i]] = Definition(constituents[j][i], x)
      <4>1. SUFFICES ASSUME NEW i \in DOMAIN constituents[j], NEW c, c = constituents[j][i]
                     PROVE  v[c] = Definition(c, x)
        BY Zenon
      <4>2. c \in 1..(j - 1)
        BY <3>1, <4>1, ConstituentsAreSmaller, Zenon
      <4>3. c \in OracleHandles /\ c <= n
        BY <2>1, <4>2, OracleHandlesNumbered
      <4>4. ReadUpTo(DOMAIN known)[c] \subseteq ReadUpTo(DOMAIN known)[j]
        BY <2>4, <4>1, ReadUpToConstituents
      <4>5. Settled(known, set, x, c)
        BY <2>1, <4>4 DEF Settled
      <4> QED BY <1>2, <4>3, <4>5
    <3>3. [i \in DOMAIN constituents[j] |-> v[constituents[j][i]]]
            = [i \in DOMAIN constituents[j] |-> Definition(constituents[j][i], x)]
      BY <3>2, Zenon
    <3>4. {j} \intersect set = {j} \intersect Challenged
      BY <2>1, <2>2, <2>4 DEF Settled
    <3>5. v[j] = <<j, {j} \intersect set, [i \in DOMAIN constituents[j] |-> v[constituents[j][i]]]>>
      BY <1>0, <2>4, Zenon
    <3>6. Definition(j, x) = <<j, {j} \intersect Challenged,
            [i \in DOMAIN constituents[j] |-> Definition(constituents[j][i], x)]>>
      BY <3>1, DefinitionEquation, Zenon
    <3> QED BY <3>3, <3>4, <3>5, <3>6, Zenon
  <2> QED BY <2>3, <2>4
<1> HIDE DEF N
<1>3. h \in Nat
  BY OracleHandlesNumbered
<1>4. h \in N
  BY <1>1, <1>2, <1>3, NatSetInduction
<1> QED BY <1>3, <1>4 DEF N, v

\* What is read for an oracle is among what it is made of; what is not read is behind a
\* virtual oracle that is stopped at.
LEMMA ReadUpToPast ==
  ASSUME NEW stop, Oracles \subseteq stop, NEW h \in OracleHandles
  PROVE  /\ ReadUpTo(stop)[h] \subseteq MadeOf[h]
         /\ \A o \in MadeOf[h] :
              o \in ReadUpTo(stop)[h]
              \/ \E k \in ReadUpTo(stop)[h] \intersect (stop \ Oracles) : o \in MadeOf[k]
<1> DEFINE r == ReadUpTo(Oracles)
           s == ReadUpTo(stop)
<1>1. MadeOf = r
  BY DEF MadeOf, ReadUpTo
<1>2. /\ nHandles \in Nat /\ Descends(nHandles, Oracles, constituents)
      /\ Reaching(nHandles, Oracles, constituents, r)
      /\ Reaching(nHandles, stop, constituents, s)
      /\ h \in 1..nHandles
  BY OracleHandlesNumbered, OraclesDescend, ReadUpToReaches
<1> HIDE DEF r, s
<1>3. /\ s[h] \subseteq r[h]
      /\ \A o \in r[h] : o \in s[h] \/ \E k \in s[h] \intersect stop : o \in r[k]
  <2>1. Past(stop, r[h], s[h], r)
    BY <1>2, ReachedPast DEF Wider
  <2> QED BY <2>1 DEF Past
<1>4. ASSUME NEW k \in Oracles PROVE r[k] = {k}
  <2>1. k \in 1..nHandles
    BY <1>4, OracleHandlesNumbered
  <2>2. r[k] = {k} \union (IF k \in Oracles THEN {} ELSE UNION {r[c] : c \in Range(constituents[k])})
    BY <1>2, <2>1, Zenon DEF Reaching
  <2> QED BY <1>4, <2>2
<1> QED BY <1>1, <1>3, <1>4 DEF s

\* The oracles that something is made of are made of them too.
LEMMA MadeOfOnward ==
  ASSUME NEW h \in OracleHandles
  PROVE  /\ h \in MadeOf[h] /\ MadeOf[h] \subseteq OracleHandles
         /\ \A k \in MadeOf[h] : MadeOf[k] \subseteq MadeOf[h]
BY ReadUpToOnward DEF MadeOf, ReadUpTo

-----------------------------------------------------------------------------
(***************************************************************************)
(* One evaluation, from caches that are current.                           *)
(***************************************************************************)
\* A cache holds values of virtual oracles as they are defined.
CurrentCache(cache) ==
  \A e \in DOMAIN cache :
    /\ e \in VirtualOracles \X Positions
    /\ cache[e] = Definition(e[1], e[2])

\* The real oracles that are read have their values.
RealIsThere(program, h, x) ==
  /\ DOMAIN RealAt(program, x) = Oracles
  /\ \A o \in Oracles \intersect ReadFor(program, h, x) : RealAt(program, x)[o] = <<o, x>>

\* All challenges of the oracle are set.
ChallengesAreSet(program, h) ==
  /\ challenges[program] \subseteq Challenged
  /\ Challenged \intersect MadeOf[h] \subseteq challenges[program]

\* What an evaluation knows beforehand.
Known(program, x) == OrElse(RealAt(program, x), CachedAt(program, x))

\* What an evaluation knows are the real oracles and what is cached.
LEMMA KnownDomain ==
  ASSUME NEW program, NEW x, DOMAIN RealAt(program, x) = Oracles
  PROVE  /\ DOMAIN Known(program, x) = Oracles \union DOMAIN CachedAt(program, x)
         /\ \A o \in Oracles : Known(program, x)[o] = RealAt(program, x)[o]
         /\ \A k \in DOMAIN CachedAt(program, x) :
              /\ k \in VirtualOracles /\ <<k, x>> \in DOMAIN evaluations[program]
              /\ Known(program, x)[k] = evaluations[program][<<k, x>>]
<1> DEFINE f == RealAt(program, x)
           g == CachedAt(program, x)
<1>1. \A k \in DOMAIN g : k \in VirtualOracles /\ <<k, x>> \in DOMAIN evaluations[program]
                          /\ g[k] = evaluations[program][<<k, x>>] /\ k \notin Oracles
  <2>1. \A k \in VirtualOracles : k \notin Oracles
    BY OracleHandlesNumbered
  <2> QED BY <2>1 DEF CachedAt
<1>2. Known(program, x) = [k \in DOMAIN f \union DOMAIN g |-> IF k \in DOMAIN f THEN f[k] ELSE g[k]]
  BY Zenon DEF Known, OrElse
<1> HIDE DEF f, g
<1>3. DOMAIN f = Oracles
  BY DEF f
<1>4. \A o \in Oracles : Known(program, x)[o] = f[o]
  BY <1>2, <1>3
<1>5. \A k \in DOMAIN g : Known(program, x)[k] = g[k]
  BY <1>1, <1>2, <1>3
<1>6. DOMAIN Known(program, x) = Oracles \union DOMAIN g
  BY <1>2, <1>3
<1> QED BY <1>1, <1>4, <1>5, <1>6 DEF f, g

\* ReadFor in terms of ReadUpTo.
LEMMA ReadForIsReadUpTo ==
  ASSUME NEW program, NEW h, NEW x
  PROVE  ReadFor(program, h, x) = ReadUpTo(Oracles \union DOMAIN CachedAt(program, x))[h]
BY DEF ReadFor, ReadUpTo

\* An evaluation gives the definition of all oracles that it reads.
LEMMA EvaluationIsDefinition ==
  ASSUME NEW program \in Programs, NEW x \in Positions, NEW h \in OracleHandles,
         CurrentCache(evaluations[program]), RealIsThere(program, h, x), ChallengesAreSet(program, h)
  PROVE  \A k \in ReadFor(program, h, x) : Evaluation(program, k, x) = Definition(k, x)
<1> DEFINE known == Known(program, x)
           stop  == Oracles \union DOMAIN CachedAt(program, x)
<1>1. SUFFICES ASSUME NEW k \in ReadFor(program, h, x)
               PROVE  Evaluation(program, k, x) = Definition(k, x)
  OBVIOUS
<1>2. DOMAIN known = stop
  BY KnownDomain DEF RealIsThere
<1>3. ReadFor(program, h, x) = ReadUpTo(stop)[h]
  BY ReadForIsReadUpTo
<1>4. /\ k \in OracleHandles
      /\ ReadUpTo(stop)[k] \subseteq ReadUpTo(stop)[h]
      /\ ReadUpTo(stop)[h] \subseteq MadeOf[h]
  BY <1>1, <1>3, ReadUpToOnward, ReadUpToPast
<1>5. ASSUME NEW c \in ReadUpTo(stop)[k]
      PROVE  IF c \in DOMAIN known THEN known[c] = Definition(c, x)
             ELSE {c} \intersect challenges[program] = {c} \intersect Challenged
  <2>1. c \in ReadUpTo(stop)[h] /\ c \in MadeOf[h]
    BY <1>4, <1>5
  <2>2. CASE c \in Oracles
    <3>1. known[c] = <<c, x>>
      BY <1>3, <2>1, <2>2, KnownDomain, ZenonT(40) DEF RealIsThere
    <3> QED BY <1>2, <2>2, <3>1, DefinitionEquation
  <2>3. CASE c \in DOMAIN CachedAt(program, x)
    <3>0. DOMAIN RealAt(program, x) = Oracles
      BY DEF RealIsThere
    <3>1. <<c, x>> \in DOMAIN evaluations[program] /\ known[c] = evaluations[program][<<c, x>>]
      BY <2>3, <3>0, KnownDomain, Zenon
    <3>2. evaluations[program][<<c, x>>] = Definition(<<c, x>>[1], <<c, x>>[2])
      BY <3>1 DEF CurrentCache
    <3> QED BY <1>2, <2>3, <3>1, <3>2
  <2>4. CASE c \notin stop
    BY <1>2, <2>1, <2>4 DEF ChallengesAreSet
  <2> QED BY <2>2, <2>3, <2>4
<1> HIDE DEF known
<1>6. Settled(known, challenges[program], x, k)
  BY <1>2, <1>5 DEF Settled
<1>7. ValuesFrom(known, challenges[program])[k] = Definition(k, x)
  BY <1>2, <1>4, <1>6, ValuesAgree
<1> QED BY <1>7 DEF Evaluation, known, Known

-----------------------------------------------------------------------------
(***************************************************************************)
(* Query positions.                                                        *)
(***************************************************************************)
nHandlesOfPositions == nRandom + nDeterministic

\* Query positions are numbered, too, and a deterministic one has smaller seeds.
LEMMA PositionHandlesNumbered ==
  /\ nHandlesOfPositions \in Nat
  /\ PositionHandles = 1..nHandlesOfPositions
  /\ RandomPositions \subseteq PositionHandles
  /\ Descends(nHandlesOfPositions, RandomPositions, seeds)
<1>1. nRandom \in Nat /\ nDeterministic \in Nat
  BY OracleQueriesAssumption
<1>2. ASSUME NEW p \in PositionHandles \ RandomPositions
      PROVE  Range(seeds[p]) \subseteq 1..(p - 1)
  <2>1. SUFFICES ASSUME NEW s, s = seeds[p] PROVE Range(s) \subseteq 1..(p - 1)
    BY Zenon
  <2>2. s \in Seq(1..(p - 1))
    BY <2>1, OracleQueriesAssumption, Zenon
  <2>3. \A i \in DOMAIN s : s[i] \in 1..(p - 1)
    BY <2>2, SequenceType
  <2> QED BY <2>3 DEF Range
<1> QED BY <1>1, <1>2 DEF nHandlesOfPositions, PositionHandles, RandomPositions, Descends

\* Seeds are a sequence of smaller handles.
LEMMA SeedsAreSmaller ==
  ASSUME NEW p \in PositionHandles \ RandomPositions
  PROVE  /\ DOMAIN seeds[p] = 1..Len(seeds[p]) /\ Len(seeds[p]) \in Nat
         /\ \A i \in DOMAIN seeds[p] : seeds[p][i] \in 1..(p - 1)
<1>1. SUFFICES ASSUME NEW s, s = seeds[p]
               PROVE  /\ DOMAIN s = 1..Len(s) /\ Len(s) \in Nat
                      /\ \A i \in DOMAIN s : s[i] \in 1..(p - 1)
  BY Zenon
<1>2. s \in Seq(1..(p - 1))
  BY <1>1, OracleQueriesAssumption, Zenon
<1> QED BY <1>2, SequenceType

Placing(known, count, new, v) ==
  v = [p \in PositionHandles |->
         IF p \in DOMAIN known THEN known[p]
         ELSE IF p \in RandomPositions THEN Squeezed(count + PlaceIn(new, p))
         ELSE calculator(p, [i \in DOMAIN seeds[p] |-> v[seeds[p][i]]])]

\* The recursion of PositionsFrom has a solution.
LEMMA PlacesExist ==
  ASSUME NEW known, NEW count, NEW new
  PROVE  \E v : Placing(known, count, new, v)
<1> DEFINE body(p, v) ==
             IF p \in DOMAIN known THEN known[p]
             ELSE IF p \in RandomPositions THEN Squeezed(count + PlaceIn(new, p))
             ELSE calculator(p, [i \in DOMAIN seeds[p] |-> v[seeds[p][i]]])
           upTo(n, v) == v = [p \in 1..n |-> body(p, v)]
           N == {n \in Nat : n <= nHandlesOfPositions => \E v : upTo(n, v)}
<1>0. nHandlesOfPositions \in Nat /\ PositionHandles = 1..nHandlesOfPositions
  BY PositionHandlesNumbered
<1>1. 0 \in N
  <2>1. upTo(0, [p \in 1..0 |-> {}])
    OBVIOUS
  <2>2. \E v : upTo(0, v)
    BY <2>1, Zenon
  <2> QED BY <2>2
<1>2. ASSUME NEW n \in Nat, n \in N PROVE n + 1 \in N
  <2>0. SUFFICES ASSUME n + 1 <= nHandlesOfPositions PROVE \E v : upTo(n + 1, v)
    <3> HIDE DEF upTo
    <3> QED OBVIOUS
  <2>1. PICK v : upTo(n, v)
    <3> HIDE DEF upTo
    <3> QED BY <1>0, <1>2, <2>0
  <2> DEFINE w == [p \in 1..(n + 1) |-> IF p \in 1..n THEN v[p] ELSE body(p, v)]
  <2>2. \A p \in 1..(n + 1) : w[p] = body(p, v)
    <3>1. \A p \in 1..n : v[p] = body(p, v)
      <4> HIDE DEF body
      <4> QED BY <2>1
    <3> HIDE DEF body
    <3> QED BY <3>1
  <2>3. \A p \in 1..n : w[p] = v[p]
    OBVIOUS
  <2>4. \A p \in 1..(n + 1) : p \notin RandomPositions =>
          \A i \in DOMAIN seeds[p] : seeds[p][i] \in 1..n
    <3>1. SUFFICES ASSUME NEW p \in 1..(n + 1), p \notin RandomPositions,
                          NEW i \in DOMAIN seeds[p]
                   PROVE  seeds[p][i] \in 1..n
      OBVIOUS
    <3>2. p \in PositionHandles \ RandomPositions
      BY <1>0, <2>0, <3>1
    <3>3. seeds[p][i] \in 1..(p - 1)
      BY <3>1, <3>2, SeedsAreSmaller
    <3> QED BY <3>3
  <2> HIDE DEF w
  <2>5. \A p \in 1..(n + 1) : body(p, w) = body(p, v)
    <3>1. SUFFICES ASSUME NEW p \in 1..(n + 1) PROVE body(p, w) = body(p, v)
      OBVIOUS
    <3>2. CASE p \in DOMAIN known \/ p \in RandomPositions
      BY <3>2
    <3>3. CASE p \notin RandomPositions
      <4>1. [i \in DOMAIN seeds[p] |-> w[seeds[p][i]]] = [i \in DOMAIN seeds[p] |-> v[seeds[p][i]]]
        BY <2>3, <2>4, <3>3
      <4> QED BY <4>1, Zenon
    <3> QED BY <3>2, <3>3
  <2>6. w = [p \in 1..(n + 1) |-> w[p]]
    BY DEF w
  <2> HIDE DEF body
  <2>7. upTo(n + 1, w)
    BY <2>2, <2>5, <2>6
  <2> QED BY <2>7, Zenon
<1> HIDE DEF N
<1>3. nHandlesOfPositions \in N
  BY <1>0, <1>1, <1>2, NatSetInduction
<1>4. nHandlesOfPositions <= nHandlesOfPositions
  BY <1>0
<1>5. \E v : v = [p \in 1..nHandlesOfPositions |-> body(p, v)]
  BY <1>3, <1>4 DEF N
<1> QED BY <1>0, <1>5, Zenon DEF Placing

\* PositionsFrom is a solution of its recursion.
LEMMA PositionsFromPlacing ==
  ASSUME NEW known, NEW count, NEW new
  PROVE  Placing(known, count, new, PositionsFrom(known, count, new))
<1>1. \E v : Placing(known, count, new, v)
  BY PlacesExist, Zenon
<1>2. PositionsFrom(known, count, new) = CHOOSE v : Placing(known, count, new, v)
  BY DEF PositionsFrom, Placing
<1> QED BY <1>1, <1>2, Zenon

\* Every position, when the random ones are squeezed in the order of their registration.
InOrder == [i \in RandomPositions |-> i]
ThePosition == PositionsFrom(<< >>, 0, InOrder)

\* A random position is the hash squeezed at its turn, another one is computed from its seeds.
LEMMA ThePositionEquation ==
  /\ \A r \in RandomPositions : ThePosition[r] = Squeezed(r)
  /\ \A p \in PositionHandles \ RandomPositions :
       ThePosition[p] = calculator(p, [i \in DOMAIN seeds[p] |-> ThePosition[seeds[p][i]]])
<1>1. Placing(<< >>, 0, InOrder, ThePosition)
  BY PositionsFromPlacing DEF ThePosition
<1>2. \A p \in PositionHandles :
        ThePosition[p] =
          IF p \in DOMAIN << >> THEN << >>[p]
          ELSE IF p \in RandomPositions THEN Squeezed(0 + PlaceIn(InOrder, p))
          ELSE calculator(p, [i \in DOMAIN seeds[p] |-> ThePosition[seeds[p][i]]])
  BY <1>1, Zenon DEF Placing
<1>3. \A p : p \notin DOMAIN << >>
  OBVIOUS
<1>4. \A r \in RandomPositions : 0 + PlaceIn(InOrder, r) = r
  <2>1. SUFFICES ASSUME NEW r \in RandomPositions PROVE PlaceIn(InOrder, r) = r
    BY OracleQueriesAssumption DEF RandomPositions
  <2>2. \E i \in DOMAIN InOrder : InOrder[i] = r
    BY DEF InOrder
  <2>3. PlaceIn(InOrder, r) \in DOMAIN InOrder /\ InOrder[PlaceIn(InOrder, r)] = r
    BY <2>2, Zenon DEF PlaceIn
  <2> QED BY <2>3 DEF InOrder
<1>5. \A r \in RandomPositions : r \in PositionHandles
  BY PositionHandlesNumbered
<1>6. ASSUME NEW r \in RandomPositions PROVE ThePosition[r] = Squeezed(r)
  <2>1. ThePosition[r] = Squeezed(0 + PlaceIn(InOrder, r))
    BY <1>2, <1>3, <1>5, <1>6, Zenon
  <2> QED BY <1>4, <2>1, Zenon
<1>7. \A p \in PositionHandles \ RandomPositions :
        ThePosition[p] = calculator(p, [i \in DOMAIN seeds[p] |-> ThePosition[seeds[p][i]]])
  BY <1>2, <1>3, Zenon
<1> QED BY <1>6, <1>7

\* What is squeezed is a position, and so is what is computed from positions.
LEMMA ThePositionType ==
  ASSUME squeezes \in [RandomPositions -> HashValues]
  PROVE  \A p \in PositionHandles : ThePosition[p] \in Positions
<1> DEFINE N == {n \in Nat : \A p \in PositionHandles : p <= n => ThePosition[p] \in Positions}
<1>1. 0 \in N
  BY PositionHandlesNumbered
<1>2. ASSUME NEW n \in Nat, n \in N PROVE n + 1 \in N
  <2>1. SUFFICES ASSUME NEW p \in PositionHandles, p <= n + 1 PROVE ThePosition[p] \in Positions
    OBVIOUS
  <2>2. CASE p \in RandomPositions
    <3>1. ThePosition[p] = squeezes[p] % domainSize
      BY <2>2, ThePositionEquation DEF Squeezed
    <3>2. squeezes[p] \in Nat /\ domainSize \in Nat \ {0}
      BY <2>2, OracleQueriesAssumption
    <3> QED BY <3>1, <3>2 DEF Positions
  <2>3. CASE p \notin RandomPositions
    <3> DEFINE values == [i \in DOMAIN seeds[p] |-> ThePosition[seeds[p][i]]]
    <3>1. \A i \in DOMAIN seeds[p] : ThePosition[seeds[p][i]] \in Positions
      <4>1. SUFFICES ASSUME NEW i \in DOMAIN seeds[p] PROVE ThePosition[seeds[p][i]] \in Positions
        OBVIOUS
      <4>2. seeds[p][i] \in 1..(p - 1)
        BY <2>3, <4>1, SeedsAreSmaller
      <4>3. seeds[p][i] \in PositionHandles /\ seeds[p][i] <= n
        BY <2>1, <4>2, PositionHandlesNumbered
      <4> QED BY <1>2, <4>3
    <3>2. values \in [DOMAIN seeds[p] -> Positions]
      BY <3>1
    <3> HIDE DEF values
    <3>3. calculator(p, values) \in Positions
      BY <2>3, <3>2, OracleQueriesAssumption
    <3>4. ThePosition[p] = calculator(p, values)
      BY <2>3, ThePositionEquation DEF values
    <3> QED BY <3>3, <3>4
  <2> QED BY <2>2, <2>3
<1> HIDE DEF N
<1>3. Nat \subseteq N
  BY <1>1, <1>2, NatSetInduction
<1>4. \A p \in PositionHandles : p \in Nat /\ p <= p
  BY PositionHandlesNumbered
<1> QED BY <1>3, <1>4 DEF N

\* A set of handles that holds the seeds of its members.
HoldsSeeds(W) ==
  /\ W \subseteq PositionHandles
  /\ \A p \in W \ RandomPositions : \A i \in DOMAIN seeds[p] : seeds[p][i] \in W

\* What is known is right, and the handles of W are squeezed at their turn.
InTurn(known, count, new, W) ==
  /\ \A p \in DOMAIN known : known[p] = ThePosition[p]
  /\ \A r \in W \intersect RandomPositions : r \in DOMAIN known \/ count + PlaceIn(new, r) = r

\* Positions that are squeezed in turn are those that everybody gets.
LEMMA PlacesAgree ==
  ASSUME NEW known, NEW count, NEW new, NEW W, HoldsSeeds(W), InTurn(known, count, new, W)
  PROVE  \A p \in W : PositionsFrom(known, count, new)[p] = ThePosition[p]
<1> DEFINE v == PositionsFrom(known, count, new)
           N == {n \in Nat : \A p \in W : p <= n => v[p] = ThePosition[p]}
<1>0. Placing(known, count, new, v)
  BY PositionsFromPlacing
<1> HIDE DEF v
<1>9. \A p \in PositionHandles :
        v[p] = IF p \in DOMAIN known THEN known[p]
               ELSE IF p \in RandomPositions THEN Squeezed(count + PlaceIn(new, p))
               ELSE calculator(p, [i \in DOMAIN seeds[p] |-> v[seeds[p][i]]])
  BY <1>0, Zenon DEF Placing
<1>1. 0 \in N
  BY PositionHandlesNumbered DEF HoldsSeeds
<1>2. ASSUME NEW n \in Nat, n \in N PROVE n + 1 \in N
  <2>1. SUFFICES ASSUME NEW p \in W, p <= n + 1 PROVE v[p] = ThePosition[p]
    OBVIOUS
  <2>2. p \in PositionHandles
    BY DEF HoldsSeeds
  <2>3. CASE p \in DOMAIN known
    <3>1. known[p] = ThePosition[p]
      BY <2>3 DEF InTurn
    <3> QED BY <1>9, <2>2, <2>3, <3>1, Zenon
  <2>4. CASE p \notin DOMAIN known /\ p \in RandomPositions
    <3>1. v[p] = Squeezed(count + PlaceIn(new, p))
      BY <1>9, <2>2, <2>4, Zenon
    <3>2. count + PlaceIn(new, p) = p
      BY <2>1, <2>4 DEF InTurn
    <3>3. ThePosition[p] = Squeezed(p)
      BY <2>4, ThePositionEquation
    <3> QED BY <3>1, <3>2, <3>3, Zenon
  <2>5. CASE p \notin DOMAIN known /\ p \notin RandomPositions
    <3>1. \A i \in DOMAIN seeds[p] : v[seeds[p][i]] = ThePosition[seeds[p][i]]
      <4>1. SUFFICES ASSUME NEW i \in DOMAIN seeds[p] PROVE v[seeds[p][i]] = ThePosition[seeds[p][i]]
        OBVIOUS
      <4>2. seeds[p][i] \in 1..(p - 1) /\ seeds[p][i] \in W
        BY <2>2, <2>5, <4>1, SeedsAreSmaller DEF HoldsSeeds
      <4>3. seeds[p][i] <= n
        BY <2>1, <2>2, <4>2, PositionHandlesNumbered
      <4> QED BY <1>2, <4>2, <4>3
    <3>2. v[p] = calculator(p, [i \in DOMAIN seeds[p] |-> v[seeds[p][i]]])
      BY <1>9, <2>2, <2>5, Zenon
    <3>3. [i \in DOMAIN seeds[p] |-> v[seeds[p][i]]]
            = [i \in DOMAIN seeds[p] |-> ThePosition[seeds[p][i]]]
      BY <3>1, Zenon
    <3>4. ThePosition[p] = calculator(p, [i \in DOMAIN seeds[p] |-> ThePosition[seeds[p][i]]])
      BY <2>2, <2>5, ThePositionEquation
    <3> QED BY <3>2, <3>3, <3>4, Zenon
  <2> QED BY <2>3, <2>4, <2>5
<1> HIDE DEF N
<1>3. Nat \subseteq N
  BY <1>1, <1>2, NatSetInduction
<1>4. \A p \in W : p \in Nat /\ p <= p
  BY PositionHandlesNumbered DEF HoldsSeeds
<1> QED BY <1>3, <1>4 DEF N, v

\* The positions below one, by those below its seeds.
LEMMA PositionsBelowEquation ==
  ASSUME NEW p \in PositionHandles
  PROVE  /\ p \in PositionsBelow[p] /\ PositionsBelow[p] \subseteq PositionHandles
         /\ p \in RandomPositions => PositionsBelow[p] = {p}
         /\ p \notin RandomPositions =>
              \A r \in PositionsBelow[p] : r = p \/ \E i \in DOMAIN seeds[p] : r \in PositionsBelow[seeds[p][i]]
<1> DEFINE b == PositionsBelow
<1>1. Reaching(nHandlesOfPositions, RandomPositions, seeds,
               Reached(1..nHandlesOfPositions, RandomPositions, seeds))
  BY PositionHandlesNumbered, ReachedReaches
<1>2. b = Reached(1..nHandlesOfPositions, RandomPositions, seeds)
  BY PositionHandlesNumbered, Zenon DEF PositionsBelow
<1>3. Reaching(nHandlesOfPositions, RandomPositions, seeds, b)
  BY <1>1, <1>2, Zenon
<1> HIDE DEF b
<1>4. p \in 1..nHandlesOfPositions
  BY PositionHandlesNumbered
<1>5. b[p] = {p} \union (IF p \in RandomPositions THEN {} ELSE UNION {b[c] : c \in Range(seeds[p])})
  BY <1>3, <1>4, Zenon DEF Reaching
<1>6. p \in b[p] /\ b[p] \subseteq 1..p
  BY <1>3, <1>4, PositionHandlesNumbered, ReachedBelow
<1>7. 1..p \subseteq PositionHandles
  BY <1>4, PositionHandlesNumbered
<1>8. ASSUME p \notin RandomPositions, NEW r \in b[p], r # p
      PROVE  \E i \in DOMAIN seeds[p] : r \in b[seeds[p][i]]
  <2>1. PICK c \in Range(seeds[p]) : r \in b[c]
    BY <1>5, <1>8
  <2> QED BY <2>1 DEF Range
<1> QED BY <1>5, <1>6, <1>7, <1>8 DEF b

\* The positions below one hold their seeds.
LEMMA PositionsBelowHoldSeeds ==
  ASSUME NEW p \in PositionHandles
  PROVE  HoldsSeeds(PositionsBelow[p])
<1> DEFINE b == PositionsBelow
<1>1. Reaching(nHandlesOfPositions, RandomPositions, seeds,
               Reached(1..nHandlesOfPositions, RandomPositions, seeds))
  BY PositionHandlesNumbered, ReachedReaches
<1>2. b = Reached(1..nHandlesOfPositions, RandomPositions, seeds)
  BY PositionHandlesNumbered, Zenon DEF PositionsBelow
<1>3. Reaching(nHandlesOfPositions, RandomPositions, seeds, b)
  BY <1>1, <1>2, Zenon
<1> HIDE DEF b
<1>4. ASSUME NEW k \in b[p] \ RandomPositions, NEW i \in DOMAIN seeds[k]
      PROVE  seeds[k][i] \in b[p]
  <2>1. k \in 1..nHandlesOfPositions /\ b[k] \subseteq b[p]
    BY <1>3, PositionHandlesNumbered, ReachedOnward
  <2>2. b[k] = {k} \union (IF k \in RandomPositions THEN {} ELSE UNION {b[c] : c \in Range(seeds[k])})
    BY <1>3, <2>1, Zenon DEF Reaching
  <2>3. seeds[k][i] \in Range(seeds[k])
    BY DEF Range
  <2>4. seeds[k][i] \in PositionHandles
    <3>1. seeds[k][i] \in 1..(k - 1)
      BY <1>4, <2>1, SeedsAreSmaller, PositionHandlesNumbered
    <3> QED BY <2>1, <3>1, PositionHandlesNumbered
  <2>5. seeds[k][i] \in b[seeds[k][i]]
    BY <2>4, PositionsBelowEquation DEF b
  <2> QED BY <2>1, <2>2, <2>3, <2>5
<1>5. b[p] \subseteq PositionHandles
  BY PositionsBelowEquation DEF b
<1> QED BY <1>4, <1>5 DEF HoldsSeeds, b

Drawing(v) ==
  v = [p \in PositionHandles |->
         IF p \in RandomPositions THEN <<p>>
         ELSE FlattenSeq([i \in DOMAIN seeds[p] |-> v[seeds[p][i]]])]

\* The recursion of RandomBelow has a solution.
LEMMA DrawingExists == \E v : Drawing(v)
<1> DEFINE body(p, v) == IF p \in RandomPositions THEN <<p>>
                         ELSE FlattenSeq([i \in DOMAIN seeds[p] |-> v[seeds[p][i]]])
           upTo(n, v) == v = [p \in 1..n |-> body(p, v)]
           N == {n \in Nat : n <= nHandlesOfPositions => \E v : upTo(n, v)}
<1>0. nHandlesOfPositions \in Nat /\ PositionHandles = 1..nHandlesOfPositions
  BY PositionHandlesNumbered
<1>1. 0 \in N
  <2>1. upTo(0, [p \in 1..0 |-> {}])
    OBVIOUS
  <2>2. \E v : upTo(0, v)
    BY <2>1, Zenon
  <2> QED BY <2>2
<1>2. ASSUME NEW n \in Nat, n \in N PROVE n + 1 \in N
  <2>0. SUFFICES ASSUME n + 1 <= nHandlesOfPositions PROVE \E v : upTo(n + 1, v)
    <3> HIDE DEF upTo
    <3> QED OBVIOUS
  <2>1. PICK v : upTo(n, v)
    <3> HIDE DEF upTo
    <3> QED BY <1>0, <1>2, <2>0
  <2> DEFINE w == [p \in 1..(n + 1) |-> IF p \in 1..n THEN v[p] ELSE body(p, v)]
  <2>2. \A p \in 1..(n + 1) : w[p] = body(p, v)
    <3>1. \A p \in 1..n : v[p] = body(p, v)
      <4> HIDE DEF body
      <4> QED BY <2>1
    <3> HIDE DEF body
    <3> QED BY <3>1
  <2>3. \A p \in 1..n : w[p] = v[p]
    OBVIOUS
  <2>4. \A p \in 1..(n + 1) : p \notin RandomPositions =>
          \A i \in DOMAIN seeds[p] : seeds[p][i] \in 1..n
    <3>1. SUFFICES ASSUME NEW p \in 1..(n + 1), p \notin RandomPositions,
                          NEW i \in DOMAIN seeds[p]
                   PROVE  seeds[p][i] \in 1..n
      OBVIOUS
    <3>2. p \in PositionHandles \ RandomPositions
      BY <1>0, <2>0, <3>1
    <3>3. seeds[p][i] \in 1..(p - 1)
      BY <3>1, <3>2, SeedsAreSmaller
    <3> QED BY <3>3
  <2> HIDE DEF w
  <2>5. \A p \in 1..(n + 1) : body(p, w) = body(p, v)
    <3>1. SUFFICES ASSUME NEW p \in 1..(n + 1) PROVE body(p, w) = body(p, v)
      OBVIOUS
    <3>2. CASE p \in RandomPositions
      BY <3>2
    <3>3. CASE p \notin RandomPositions
      <4>1. [i \in DOMAIN seeds[p] |-> w[seeds[p][i]]] = [i \in DOMAIN seeds[p] |-> v[seeds[p][i]]]
        BY <2>3, <2>4, <3>3
      <4> QED BY <4>1, Zenon
    <3> QED BY <3>2, <3>3
  <2>6. w = [p \in 1..(n + 1) |-> w[p]]
    BY DEF w
  <2> HIDE DEF body
  <2>7. upTo(n + 1, w)
    BY <2>2, <2>5, <2>6
  <2> QED BY <2>7, Zenon
<1> HIDE DEF N
<1>3. nHandlesOfPositions \in N
  BY <1>0, <1>1, <1>2, NatSetInduction
<1>4. nHandlesOfPositions <= nHandlesOfPositions
  BY <1>0
<1>5. \E v : v = [p \in 1..nHandlesOfPositions |-> body(p, v)]
  BY <1>3, <1>4 DEF N
<1> QED BY <1>0, <1>5, Zenon DEF Drawing

\* RandomBelow lists random positions, and all that are below.
LEMMA RandomBelowListsAll ==
  ASSUME NEW p \in PositionHandles
  PROVE  /\ RandomBelow[p] \in Seq(RandomPositions)
         /\ \A r \in PositionsBelow[p] \intersect RandomPositions :
              \E j \in DOMAIN RandomBelow[p] : RandomBelow[p][j] = r
<1> DEFINE v == RandomBelow
           lists(k) == \A r \in PositionsBelow[k] \intersect RandomPositions :
                         \E j \in DOMAIN v[k] : v[k][j] = r
           N == {n \in Nat : \A k \in PositionHandles :
                               k <= n => v[k] \in Seq(RandomPositions) /\ lists(k)}
<1>0. Drawing(v)
  <2>1. v = CHOOSE w : Drawing(w)
    BY DEF RandomBelow, Drawing
  <2> QED BY <2>1, DrawingExists, Zenon
<1> HIDE DEF v
<1>9. \A k \in PositionHandles :
        v[k] = IF k \in RandomPositions THEN <<k>>
               ELSE FlattenSeq([i \in DOMAIN seeds[k] |-> v[seeds[k][i]]])
  BY <1>0, Zenon DEF Drawing
<1>1. 0 \in N
  BY PositionHandlesNumbered
<1>2. ASSUME NEW n \in Nat, n \in N PROVE n + 1 \in N
  <2>1. SUFFICES ASSUME NEW k \in PositionHandles, k <= n + 1
                 PROVE  v[k] \in Seq(RandomPositions) /\ lists(k)
    <3> HIDE DEF lists
    <3> QED OBVIOUS
  <2>2. CASE k \in RandomPositions
    <3>1. v[k] = <<k>> /\ PositionsBelow[k] = {k}
      BY <1>9, <2>2, PositionsBelowEquation
    <3>2. <<k>> \in Seq(RandomPositions) /\ DOMAIN <<k>> = {1} /\ <<k>>[1] = k
      BY <2>2
    <3> QED BY <3>1, <3>2
  <2>3. CASE k \notin RandomPositions
    <3> DEFINE parts == [i \in DOMAIN seeds[k] |-> v[seeds[k][i]]]
    <3>1. \A i \in DOMAIN seeds[k] :
            seeds[k][i] \in PositionHandles /\ v[seeds[k][i]] \in Seq(RandomPositions)
            /\ lists(seeds[k][i])
      <4>1. SUFFICES ASSUME NEW i \in DOMAIN seeds[k], NEW c, c = seeds[k][i]
                     PROVE  c \in PositionHandles /\ v[c] \in Seq(RandomPositions) /\ lists(c)
        <5> HIDE DEF lists
        <5> QED BY Zenon
      <4>2. c \in 1..(k - 1)
        BY <2>3, <4>1, SeedsAreSmaller, Zenon
      <4>3. c \in PositionHandles /\ c <= n
        BY <2>1, <4>2, PositionHandlesNumbered
      <4> HIDE DEF lists
      <4> QED BY <1>2, <4>3
    <3>2. DOMAIN parts = DOMAIN seeds[k] /\ \A i \in DOMAIN seeds[k] : parts[i] = v[seeds[k][i]]
      OBVIOUS
    <3>3. parts \in Seq(Seq(RandomPositions))
      <4>1. DOMAIN seeds[k] = 1..Len(seeds[k]) /\ Len(seeds[k]) \in Nat
        BY <2>3, SeedsAreSmaller
      <4> HIDE DEF lists
      <4>2. parts \in [1..Len(seeds[k]) -> Seq(RandomPositions)]
        BY <3>1, <4>1
      <4> HIDE DEF parts
      <4> QED BY <4>1, <4>2
    <3> HIDE DEF parts
    <3>4. v[k] = FlattenSeq(parts)
      BY <1>9, <2>3, Zenon DEF parts
    <3>5. FlattenSeq(parts) \in Seq(RandomPositions)
      BY <3>3, FlattenType
    <3>6. ASSUME NEW r \in PositionsBelow[k] \intersect RandomPositions
          PROVE  \E j \in DOMAIN v[k] : v[k][j] = r
      <4>1. r # k
        BY <2>3, <3>6
      <4>2. PICK i \in DOMAIN seeds[k] : r \in PositionsBelow[seeds[k][i]]
        BY <2>3, <3>6, <4>1, PositionsBelowEquation
      <4>3. lists(seeds[k][i])
        BY <3>1
      <4>4. \E j \in DOMAIN v[seeds[k][i]] : v[seeds[k][i]][j] = r
        BY <3>6, <4>2, <4>3
      <4>5. i \in DOMAIN parts /\ \E j \in DOMAIN parts[i] : parts[i][j] = r
        BY <3>2, <4>4
      <4>6. \E j \in DOMAIN FlattenSeq(parts) : FlattenSeq(parts)[j] = r
        BY <3>3, <4>5, FlattenMembers, ZenonT(40)
      <4> QED BY <3>4, <4>6, Zenon
    <3> QED BY <3>4, <3>5, <3>6
  <2> QED BY <2>2, <2>3
<1> HIDE DEF N
<1>3. Nat \subseteq N
  BY <1>1, <1>2, NatSetInduction
<1>4. p \in Nat /\ p <= p
  BY PositionHandlesNumbered
<1> QED BY <1>3, <1>4 DEF N, v

Picking(s, known, g) ==
  g = [i \in 0..Len(s) |->
         IF i = 0 THEN << >>
         ELSE IF s[i] \in known \union Range(g[i - 1]) THEN g[i - 1]
         ELSE Append(g[i - 1], s[i])]

\* The recursion of NewIn has a solution.
LEMMA PickingExists ==
  ASSUME NEW s, NEW known, Len(s) \in Nat
  PROVE  \E g : Picking(s, known, g)
<1> DEFINE body(i, g) == IF i = 0 THEN << >>
                         ELSE IF s[i] \in known \union Range(g[i - 1]) THEN g[i - 1]
                         ELSE Append(g[i - 1], s[i])
           upTo(n, g) == g = [i \in 0..n |-> body(i, g)]
           N == {n \in Nat : \E g : upTo(n, g)}
<1>1. 0 \in N
  <2>1. upTo(0, [i \in 0..0 |-> << >>])
    OBVIOUS
  <2>2. \E g : upTo(0, g)
    BY <2>1, Zenon
  <2> QED BY <2>2
<1>2. ASSUME NEW n \in Nat, n \in N PROVE n + 1 \in N
  <2>1. PICK g : upTo(n, g)
    <3> HIDE DEF upTo
    <3> QED BY <1>2
  <2> DEFINE h == [i \in 0..(n + 1) |-> IF i \in 0..n THEN g[i] ELSE body(i, g)]
  <2>2. \A i \in 0..(n + 1) : h[i] = body(i, g)
    <3>1. \A i \in 0..n : g[i] = body(i, g)
      <4> HIDE DEF body
      <4> QED BY <2>1
    <3> HIDE DEF body
    <3> QED BY <3>1
  <2>3. \A i \in 0..n : h[i] = g[i]
    OBVIOUS
  <2> HIDE DEF h
  <2>4. \A i \in 0..(n + 1) : body(i, h) = body(i, g)
    <3>1. SUFFICES ASSUME NEW i \in 0..(n + 1), i # 0 PROVE body(i, h) = body(i, g)
      OBVIOUS
    <3>2. h[i - 1] = g[i - 1]
      BY <2>3, <3>1
    <3> QED BY <3>2, Zenon
  <2>5. h = [i \in 0..(n + 1) |-> h[i]]
    BY DEF h
  <2> HIDE DEF body
  <2>6. upTo(n + 1, h)
    BY <2>2, <2>4, <2>5
  <2>7. \E f : upTo(n + 1, f)
    BY <2>6, Zenon
  <2>8. n + 1 \in Nat
    OBVIOUS
  <2> QED BY <2>7, <2>8, Zenon
<1> HIDE DEF N
<1>3. Len(s) \in N
  BY <1>1, <1>2, NatSetInduction
<1> QED BY <1>3, Zenon DEF N, Picking

\* NewIn lists everything that is not known.
LEMMA NewInListsAll ==
  ASSUME NEW S, NEW s \in Seq(S), NEW known
  PROVE  \A i \in DOMAIN s :
           s[i] \in known \/ \E j \in DOMAIN NewIn(s, known) : NewIn(s, known)[j] = s[i]
<1>0. Len(s) \in Nat /\ DOMAIN s = 1..Len(s) /\ \A i \in DOMAIN s : s[i] \in S
  BY SequenceType
<1> DEFINE g == CHOOSE g : Picking(s, known, g)
<1>1. Picking(s, known, g)
  BY <1>0, PickingExists, Zenon
<1>2. NewIn(s, known) = g[Len(s)]
  BY DEF NewIn, Picking
<1> HIDE DEF g
<1>3. \A i \in 0..Len(s) :
        g[i] = IF i = 0 THEN << >>
               ELSE IF s[i] \in known \union Range(g[i - 1]) THEN g[i - 1]
               ELSE Append(g[i - 1], s[i])
  BY <1>1, Zenon DEF Picking
<1> DEFINE lists(n) == \A i \in 1..n : s[i] \in known \/ \E j \in DOMAIN g[n] : g[n][j] = s[i]
           N == {n \in Nat : n <= Len(s) => g[n] \in Seq(S) /\ lists(n)}
<1>4. 0 \in N
  <2>1. g[0] = << >>
    BY <1>0, <1>3
  <2>2. << >> \in Seq(S)
    OBVIOUS
  <2>3. g[0] \in Seq(S)
    BY <2>1, <2>2, Zenon
  <2>4. lists(0)
    OBVIOUS
  <2> HIDE DEF lists
  <2> QED BY <2>3, <2>4
<1>5. ASSUME NEW n \in Nat, n \in N PROVE n + 1 \in N
  <2>1. SUFFICES ASSUME n + 1 <= Len(s) PROVE g[n + 1] \in Seq(S) /\ lists(n + 1)
    <3> HIDE DEF lists
    <3> QED OBVIOUS
  <2>2. g[n] \in Seq(S) /\ lists(n) /\ n + 1 \in 1..Len(s)
    <3> HIDE DEF lists
    <3> QED BY <1>0, <1>5, <2>1
  <2>3. n + 1 \in 0..Len(s) /\ n + 1 # 0 /\ (n + 1) - 1 = n
    BY <1>0, <2>1
  <2>4. g[n + 1] = IF s[n + 1] \in known \union Range(g[n]) THEN g[n] ELSE Append(g[n], s[n + 1])
    BY <1>3, <2>3, Zenon
  <2>5. \A i \in 1..(n + 1) : i \in 1..n \/ i = n + 1
    OBVIOUS
  <2>6. CASE s[n + 1] \in known \union Range(g[n])
    <3>1. g[n + 1] = g[n]
      BY <2>4, <2>6, Zenon
    <3>2. s[n + 1] \in known \/ \E j \in DOMAIN g[n] : g[n][j] = s[n + 1]
      BY <2>6 DEF Range
    <3> QED BY <2>2, <2>5, <3>1, <3>2
  <2>7. CASE s[n + 1] \notin known \union Range(g[n])
    <3> DEFINE t == g[n]
               e == s[n + 1]
    <3>1. g[n + 1] = Append(t, e)
      BY <2>4, <2>7, Zenon
    <3>2. t \in Seq(S) /\ e \in S
      BY <1>0, <2>2
    <3>3. lists(n)
      BY <2>2
    <3> HIDE DEF e, t
    <3>4. /\ Append(t, e) \in Seq(S) /\ DOMAIN t = 1..Len(t) /\ Len(t) \in Nat
          /\ DOMAIN Append(t, e) = 1..(Len(t) + 1)
          /\ \A i \in 1..Len(t) : Append(t, e)[i] = t[i]
          /\ Append(t, e)[Len(t) + 1] = e
      BY <3>2, AppendType
    <3>5. \A j \in DOMAIN t : j \in DOMAIN Append(t, e) /\ Append(t, e)[j] = t[j]
      BY <3>4
    <3>6. Len(t) + 1 \in DOMAIN Append(t, e)
      BY <3>4
    <3>7. ASSUME NEW i \in 1..(n + 1)
          PROVE  s[i] \in known \/ \E j \in DOMAIN Append(t, e) : Append(t, e)[j] = s[i]
      <4>1. CASE i = n + 1
        BY <3>4, <3>6, <4>1 DEF e
      <4>2. CASE i \in 1..n
        BY <3>3, <3>5, <4>2 DEF t
      <4> QED BY <2>5, <4>1, <4>2
    <3> QED BY <3>1, <3>4, <3>7
  <2> QED BY <2>6, <2>7
<1> HIDE DEF N
<1>6. Len(s) \in N
  BY <1>0, <1>4, <1>5, NatSetInduction
<1>7. Len(s) <= Len(s)
  BY <1>0
<1>8. lists(Len(s))
  BY <1>6, <1>7 DEF N
<1> QED BY <1>0, <1>2, <1>8

\* The positions that are computed for a list of handles.
Wanted(handles) == UNION {PositionsBelow[handles[i]] : i \in DOMAIN handles}

\* They are handles of positions and hold their seeds.
LEMMA WantedHoldSeeds ==
  ASSUME NEW handles \in Seq(PositionHandles)
  PROVE  /\ HoldsSeeds(Wanted(handles))
         /\ \A i \in DOMAIN handles : /\ handles[i] \in Wanted(handles)
                                      /\ PositionsBelow[handles[i]] \subseteq Wanted(handles)
<1>1. \A i \in DOMAIN handles : handles[i] \in PositionHandles
  BY SequenceType
<1>2. \A i \in DOMAIN handles : /\ HoldsSeeds(PositionsBelow[handles[i]])
                                /\ handles[i] \in PositionsBelow[handles[i]]
  BY <1>1, PositionsBelowHoldSeeds, PositionsBelowEquation
<1>3. \A i \in DOMAIN handles : PositionsBelow[handles[i]] \subseteq Wanted(handles)
  BY DEF Wanted
<1>4. \A p \in Wanted(handles) : \E i \in DOMAIN handles : p \in PositionsBelow[handles[i]]
  BY DEF Wanted
<1>5. Wanted(handles) \subseteq PositionHandles
  BY <1>2, <1>4 DEF HoldsSeeds
<1>6. ASSUME NEW p \in Wanted(handles) \ RandomPositions, NEW j \in DOMAIN seeds[p]
      PROVE  seeds[p][j] \in Wanted(handles)
  <2>1. PICK i \in DOMAIN handles : p \in PositionsBelow[handles[i]]
    BY <1>4
  <2>2. seeds[p][j] \in PositionsBelow[handles[i]]
    BY <1>2, <1>6, <2>1 DEF HoldsSeeds
  <2> QED BY <1>3, <2>2
<1>7. HoldsSeeds(Wanted(handles))
  BY <1>5, <1>6 DEF HoldsSeeds
<1> QED BY <1>2, <1>3, <1>7

\* What has to be squeezed for a list of handles is in ToSqueeze.
LEMMA ToSqueezeListsAll ==
  ASSUME NEW program, NEW handles \in Seq(PositionHandles)
  PROVE  \A r \in Wanted(handles) \intersect RandomPositions :
           \/ r \in DOMAIN positions[program]
           \/ \E j \in DOMAIN ToSqueeze(program, handles) : ToSqueeze(program, handles)[j] = r
<1> SUFFICES ASSUME NEW r \in Wanted(handles) \intersect RandomPositions,
                    r \notin DOMAIN positions[program]
             PROVE  \E j \in DOMAIN ToSqueeze(program, handles) : ToSqueeze(program, handles)[j] = r
  OBVIOUS
<1> DEFINE parts == [i \in DOMAIN handles |-> RandomBelow[handles[i]]]
           drawn == FlattenSeq(parts)
<1>1. DOMAIN handles = 1..Len(handles) /\ Len(handles) \in Nat
      /\ \A i \in DOMAIN handles : handles[i] \in PositionHandles
  BY SequenceType
<1>2. \A i \in DOMAIN handles : RandomBelow[handles[i]] \in Seq(RandomPositions)
  BY <1>1, RandomBelowListsAll
<1>3. parts \in Seq(Seq(RandomPositions))
  <2>1. parts \in [1..Len(handles) -> Seq(RandomPositions)]
    BY <1>1, <1>2
  <2> HIDE DEF parts
  <2> QED BY <1>1, <2>1
<1>4. DOMAIN parts = DOMAIN handles /\ \A i \in DOMAIN handles : parts[i] = RandomBelow[handles[i]]
  OBVIOUS
<1>5. ToSqueeze(program, handles) = NewIn(drawn, DOMAIN positions[program])
  BY DEF ToSqueeze
<1> HIDE DEF parts
<1>6. PICK i \in DOMAIN handles : r \in PositionsBelow[handles[i]]
  BY DEF Wanted
<1>7. \E j \in DOMAIN RandomBelow[handles[i]] : RandomBelow[handles[i]][j] = r
  BY <1>1, <1>6, RandomBelowListsAll
<1>8. i \in DOMAIN parts /\ \E j \in DOMAIN parts[i] : parts[i][j] = r
  BY <1>4, <1>7
<1>9. \E j \in DOMAIN drawn : drawn[j] = r
  <2>1. PICK k \in DOMAIN parts : \E j \in DOMAIN parts[k] : parts[k][j] = r
    BY <1>8
  <2>2. PICK j \in DOMAIN parts[k] : parts[k][j] = r
    BY <2>1
  <2>3. \E m \in DOMAIN FlattenSeq(parts) : FlattenSeq(parts)[m] = parts[k][j]
    BY <1>3, FlattenHolds
  <2> QED BY <2>2, <2>3
<1>10. drawn \in Seq(RandomPositions)
  BY <1>3, FlattenType
<1> HIDE DEF drawn
<1>11. PICK j \in DOMAIN drawn : drawn[j] = r
  BY <1>9
<1>12. drawn[j] \in DOMAIN positions[program]
       \/ \E k \in DOMAIN NewIn(drawn, DOMAIN positions[program]) :
            NewIn(drawn, DOMAIN positions[program])[k] = drawn[j]
  BY <1>10, NewInListsAll
<1> QED BY <1>5, <1>11, <1>12, Zenon

\* Positions that are everybody's.
RightPositions(known) ==
  /\ DOMAIN known \subseteq PositionHandles
  /\ known = [p \in DOMAIN known |-> ThePosition[p]]

\* A careful program gets everybody's positions.
LEMMA PositionsWithAreRight ==
  ASSUME CarefulCallers, NEW program, NEW handles \in Seq(PositionHandles),
         CarefulToSqueeze(program, handles), RightPositions(positions[program])
  PROVE  PositionsWith(program, handles) =
           [p \in DOMAIN positions[program] \union Wanted(handles) |-> ThePosition[p]]
<1> DEFINE known == positions[program]
           count == Cardinality(RandomPositions \intersect DOMAIN known)
           new   == ToSqueeze(program, handles)
           W     == Wanted(handles)
           value == PositionsFrom(known, count, new)
<1>1. \A i \in DOMAIN new : new[i] = count + i
  BY DEF CarefulToSqueeze
<1>8. \A r \in W \intersect RandomPositions :
        r \in DOMAIN known \/ \E j \in DOMAIN new : new[j] = r
  BY ToSqueezeListsAll, Zenon
<1>2. \A r \in W \intersect RandomPositions : r \in DOMAIN known \/ count + PlaceIn(new, r) = r
  <2>1. SUFFICES ASSUME NEW r \in W \intersect RandomPositions, r \notin DOMAIN known
                 PROVE  count + PlaceIn(new, r) = r
    OBVIOUS
  <2>2. \E j \in DOMAIN new : new[j] = r
    BY <1>8, <2>1
  <2> HIDE DEF new, count
  <2>3. PlaceIn(new, r) \in DOMAIN new /\ new[PlaceIn(new, r)] = r
    BY <2>2, Zenon DEF PlaceIn
  <2> QED BY <1>1, <2>3, Zenon
<1>3. PositionsWith(program, handles) = OrElse(known, [p \in W |-> value[p]])
  BY DEF PositionsWith, Wanted
<1> HIDE DEF new, count, W
<1>4. \A p \in DOMAIN known : known[p] = ThePosition[p]
  <2>1. known = [p \in DOMAIN known |-> ThePosition[p]]
    BY DEF RightPositions
  <2> HIDE DEF known
  <2> QED BY <2>1
<1> HIDE DEF known
<1>5. InTurn(known, count, new, W) /\ HoldsSeeds(W)
  BY <1>2, <1>4, WantedHoldSeeds DEF InTurn, W
<1>6. \A p \in W : value[p] = ThePosition[p]
  BY <1>5, PlacesAgree
<1> HIDE DEF value
<1>7. OrElse(known, [p \in W |-> value[p]]) = [p \in DOMAIN known \union W |-> ThePosition[p]]
  BY <1>4, <1>6 DEF OrElse
<1> QED BY <1>3, <1>7 DEF known, W

-----------------------------------------------------------------------------
(***************************************************************************)
(* What calls leave in the caches.                                         *)
(***************************************************************************)
\* Evaluations that a program may make.
MayEvaluate(program, asked) ==
  \A a \in asked : /\ a \in OracleHandles \X Positions
                   /\ RealIsThere(program, a[1], a[2])
                   /\ ChallengesAreSet(program, a[1])

\* The evaluations that a program makes keep its cache current.
LEMMA EvaluationsStayCurrent ==
  ASSUME NEW program \in Programs, NEW asked, MayEvaluate(program, asked),
         CurrentCache(evaluations[program])
  PROVE  CurrentCache(EvaluationsWith(program, asked))
<1> DEFINE old  == evaluations[program]
           read == UNION {{<<k, a[2]>> : k \in ReadFor(program, a[1], a[2]) \ Oracles} : a \in asked}
           new  == [e \in read |-> Evaluation(program, e[1], e[2])]
<1>1. EvaluationsWith(program, asked) = OrElse(old, new)
  BY DEF EvaluationsWith
<1>2. ASSUME NEW e \in read
      PROVE  e \in VirtualOracles \X Positions /\ new[e] = Definition(e[1], e[2])
  <2>1. PICK a \in asked : \E k \in ReadFor(program, a[1], a[2]) \ Oracles : e = <<k, a[2]>>
    BY <1>2
  <2>2. PICK k \in ReadFor(program, a[1], a[2]) \ Oracles : e = <<k, a[2]>>
    BY <2>1
  <2> DEFINE h == a[1]
             x == a[2]
  <2>3. /\ h \in OracleHandles /\ x \in Positions
        /\ RealIsThere(program, h, x) /\ ChallengesAreSet(program, h)
    BY DEF MayEvaluate
  <2>4. e[1] = k /\ e[2] = x
    BY <2>2
  <2>5. k \in ReadFor(program, h, x) /\ k \notin Oracles
    BY <2>2
  <2> HIDE DEF h, x
  <2>6. Evaluation(program, k, x) = Definition(k, x)
    BY <2>3, <2>5, EvaluationIsDefinition
  <2>7. k \in OracleHandles
    BY <2>3, <2>5, ReadForIsReadUpTo, ReadUpToOnward
  <2>8. k \in VirtualOracles
    BY <2>5, <2>7, OracleHandlesNumbered
  <2>9. e \in VirtualOracles \X Positions
    BY <2>2, <2>3, <2>8 DEF x
  <2>10. new[e] = Evaluation(program, e[1], e[2])
    BY <1>2
  <2> QED BY <2>4, <2>6, <2>9, <2>10
<1>3. DOMAIN new = read
  OBVIOUS
<1> HIDE DEF new, read
<1>4. \A e \in DOMAIN old : e \in VirtualOracles \X Positions /\ old[e] = Definition(e[1], e[2])
  BY DEF CurrentCache
<1> HIDE DEF old
<1>5. OrElse(old, new) = [e \in DOMAIN old \union read |-> IF e \in DOMAIN old THEN old[e] ELSE new[e]]
  BY <1>3, Zenon DEF OrElse
<1>6. CurrentCache(OrElse(old, new))
  BY <1>2, <1>4, <1>5 DEF CurrentCache
<1> QED BY <1>1, <1>6

\* Whatever is made of real oracles in a cache is recorded at its position.
CoveredCache(cache, where) ==
  \A e \in DOMAIN cache : \A o \in Oracles \intersect MadeOf[e[1]] : e[2] \in where[o]

\* What is recorded stays so, and becomes so for every real oracle behind what is asked.
LEMMA RecordedCovers ==
  ASSUME NEW asked, \A a \in asked : a \in OracleHandles \X Positions,
         recorded \in [Oracles -> SUBSET Positions],
         CoveredCache(evaluations["prover"], recorded)
  PROVE  /\ Recorded(asked) \in [Oracles -> SUBSET Positions]
         /\ \A o \in Oracles : recorded[o] \subseteq Recorded(asked)[o]
         /\ \A a \in asked : \A o \in Oracles \intersect MadeOf[a[1]] : a[2] \in Recorded(asked)[o]
<1>1. \A o \in Oracles : Recorded(asked)[o] = recorded[o] \union
        {x \in Positions : \E a \in asked : a[2] = x /\ o \in ReadFor("prover", a[1], x)}
  BY DEF Recorded
<1>2. Recorded(asked) \in [Oracles -> SUBSET Positions]
  BY DEF Recorded
<1>3. ASSUME NEW a \in asked, NEW o \in Oracles \intersect MadeOf[a[1]]
      PROVE  a[2] \in Recorded(asked)[o]
  <2> DEFINE h == a[1]
             x == a[2]
             stop == Oracles \union DOMAIN CachedAt("prover", x)
  <2>1. h \in OracleHandles /\ x \in Positions
    OBVIOUS
  <2>2. ReadFor("prover", h, x) = ReadUpTo(stop)[h]
    BY ReadForIsReadUpTo
  <2>3. CASE o \in ReadUpTo(stop)[h]
    BY <1>1, <2>1, <2>2, <2>3
  <2>4. CASE \E k \in ReadUpTo(stop)[h] \intersect (stop \ Oracles) : o \in MadeOf[k]
    <3>1. PICK k \in DOMAIN CachedAt("prover", x) : o \in MadeOf[k]
      BY <2>4
    <3>2. <<k, x>> \in DOMAIN evaluations["prover"]
      BY <3>1 DEF CachedAt
    <3>3. x \in recorded[o]
      <4>1. \A i \in Oracles \intersect MadeOf[<<k, x>>[1]] : <<k, x>>[2] \in recorded[i]
        BY <3>2 DEF CoveredCache
      <4>2. <<k, x>>[1] = k /\ <<k, x>>[2] = x
        OBVIOUS
      <4> HIDE DEF x
      <4> QED BY <3>1, <4>1, <4>2
    <3> QED BY <1>1, <3>3
  <2>5. o \in ReadUpTo(stop)[h]
        \/ \E k \in ReadUpTo(stop)[h] \intersect (stop \ Oracles) : o \in MadeOf[k]
    <3>1. o \in MadeOf[h] /\ Oracles \subseteq stop
      OBVIOUS
    <3> HIDE DEF stop, h
    <3> QED BY <2>1, <3>1, ReadUpToPast
  <2> QED BY <2>3, <2>4, <2>5
<1> QED BY <1>1, <1>2, <1>3

\* The new cache holds what it held and what is read for what is asked.
LEMMA EvaluationsDomain ==
  ASSUME NEW program, NEW asked, NEW e \in DOMAIN EvaluationsWith(program, asked)
  PROVE  \/ e \in DOMAIN evaluations[program]
         \/ \E a \in asked : \E k \in ReadFor(program, a[1], a[2]) : e = <<k, a[2]>> /\ k \notin Oracles
<1> DEFINE read == UNION {{<<k, a[2]>> : k \in ReadFor(program, a[1], a[2]) \ Oracles} : a \in asked}
           new  == [d \in read |-> Evaluation(program, d[1], d[2])]
<1>1. EvaluationsWith(program, asked) = OrElse(evaluations[program], new)
  BY DEF EvaluationsWith
<1>2. DOMAIN new = read
  OBVIOUS
<1> HIDE DEF new
<1>3. DOMAIN OrElse(evaluations[program], new) = DOMAIN evaluations[program] \union read
  BY <1>2 DEF OrElse
<1>4. e \in DOMAIN evaluations[program] \/ e \in read
  BY <1>1, <1>3
<1> QED BY <1>4

\* The prover's cache stays covered by what is recorded.
LEMMA EvaluationsStayCovered ==
  ASSUME NEW asked, \A a \in asked : a \in OracleHandles \X Positions,
         recorded \in [Oracles -> SUBSET Positions],
         CoveredCache(evaluations["prover"], recorded)
  PROVE  CoveredCache(EvaluationsWith("prover", asked), Recorded(asked))
<1>1. /\ \A o \in Oracles : recorded[o] \subseteq Recorded(asked)[o]
      /\ \A a \in asked : \A o \in Oracles \intersect MadeOf[a[1]] : a[2] \in Recorded(asked)[o]
  BY RecordedCovers
<1>2. SUFFICES ASSUME NEW e \in DOMAIN EvaluationsWith("prover", asked),
                      NEW o \in Oracles \intersect MadeOf[e[1]]
               PROVE  e[2] \in Recorded(asked)[o]
  BY DEF CoveredCache
<1>3. CASE e \in DOMAIN evaluations["prover"]
  BY <1>1, <1>2, <1>3 DEF CoveredCache
<1>4. CASE \E a \in asked : \E k \in ReadFor("prover", a[1], a[2]) : e = <<k, a[2]>> /\ k \notin Oracles
  <2>1. PICK a \in asked : \E k \in ReadFor("prover", a[1], a[2]) : e = <<k, a[2]>>
    BY <1>4
  <2>2. PICK k \in ReadFor("prover", a[1], a[2]) : e = <<k, a[2]>>
    BY <2>1
  <2>3. e[1] = k /\ e[2] = a[2] /\ a[1] \in OracleHandles
    BY <2>2
  <2> DEFINE h == a[1]
             stop == Oracles \union DOMAIN CachedAt("prover", a[2])
  <2>4. k \in ReadUpTo(stop)[h] /\ Oracles \subseteq stop /\ h \in OracleHandles
    BY <2>2, <2>3, ReadForIsReadUpTo
  <2> HIDE DEF stop, h
  <2>5. k \in MadeOf[h]
    BY <2>4, ReadUpToPast
  <2>6. MadeOf[k] \subseteq MadeOf[h]
    BY <2>4, <2>5, MadeOfOnward
  <2>7. o \in MadeOf[h]
    BY <1>2, <2>3, <2>6
  <2> QED BY <1>1, <2>3, <2>7 DEF h
<1> QED BY <1>2, <1>3, <1>4, EvaluationsDomain

\* The cache of whole contents holds them as they are defined.
CurrentContents(cache) ==
  \A v \in DOMAIN cache : v \in VirtualOracles /\ \A x \in Positions : cache[v][x] = Definition(v, x)

\* The whole contents of an oracle, and of all that are read for it, are their definition.
LEMMA WholeContentsAreDefined ==
  ASSUME NEW h \in OracleHandles, ChallengesAreSet("prover", h), CurrentContents(contents),
         NEW k \in ReadWhole(h), NEW x \in Positions
  PROVE  k \in OracleHandles /\ WholeContents(k)[x] = Definition(k, x)
<1> DEFINE known == OrElse(Submitted(x), [c \in DOMAIN contents |-> contents[c][x]])
           stop  == Oracles \union DOMAIN contents
<1>1. DOMAIN known = stop /\ \A o \in Oracles : known[o] = <<o, x>>
  BY DEF OrElse, Submitted
<1>8. \A c \in DOMAIN contents : c \notin Oracles => known[c] = contents[c][x]
  BY DEF OrElse, Submitted
<1>2. ReadWhole(h) = ReadUpTo(stop)[h]
  BY DEF ReadWhole, ReadUpTo
<1>3. WholeContents(k)[x] = ValuesFrom(known, challenges["prover"])[k]
  BY DEF WholeContents
<1> HIDE DEF known
<1>4. /\ k \in OracleHandles
      /\ ReadUpTo(stop)[k] \subseteq ReadUpTo(stop)[h]
      /\ ReadUpTo(stop)[h] \subseteq MadeOf[h]
  BY <1>2, ReadUpToOnward, ReadUpToPast
<1>5. ASSUME NEW c \in ReadUpTo(stop)[k]
      PROVE  IF c \in DOMAIN known THEN known[c] = Definition(c, x)
             ELSE {c} \intersect challenges["prover"] = {c} \intersect Challenged
  <2>1. c \in MadeOf[h]
    BY <1>4, <1>5
  <2>2. CASE c \in Oracles
    BY <1>1, <2>2, DefinitionEquation
  <2>3. CASE c \in DOMAIN contents /\ c \notin Oracles
    <3>1. contents[c][x] = Definition(c, x)
      BY <2>3 DEF CurrentContents
    <3>2. c \in DOMAIN known
      BY <1>1, <2>3
    <3>3. known[c] = contents[c][x]
      BY <1>8, <2>3
    <3>4. known[c] = Definition(c, x)
      BY <3>1, <3>3, Zenon
    <3> QED BY <3>2, <3>4
  <2>4. CASE c \notin stop
    BY <1>1, <2>1, <2>4 DEF ChallengesAreSet
  <2> QED BY <2>2, <2>3, <2>4
<1>6. Settled(known, challenges["prover"], x, k)
  BY <1>1, <1>5 DEF Settled
<1>7. ValuesFrom(known, challenges["prover"])[k] = Definition(k, x)
  BY <1>1, <1>4, <1>6, ValuesAgree
<1> QED BY <1>3, <1>4, <1>7

\* What a query is asked of, and where.
LEMMA QueryType ==
  /\ \A q \in Queries : OracleOf(q) \in OracleHandles /\ HandleOf(q) \in PositionHandles
  /\ [q \in Queries |-> queries[q].position] \in Seq(PositionHandles)
<1> DEFINE R == [oracle : OracleHandles, position : PositionHandles]
<1>1. queries \in Seq(R)
  BY OracleQueriesAssumption
<1> HIDE DEF R
<1>2. Len(queries) \in Nat /\ DOMAIN queries = 1..Len(queries) /\ \A q \in DOMAIN queries : queries[q] \in R
  BY <1>1, SequenceType
<1>3. \A q \in Queries : OracleOf(q) \in OracleHandles /\ HandleOf(q) \in PositionHandles
  BY <1>2 DEF R, Queries, OracleOf, HandleOf
<1> DEFINE p == [q \in Queries |-> queries[q].position]
<1>4. p \in [1..Len(queries) -> PositionHandles]
  BY <1>2, <1>3 DEF Queries, HandleOf
<1> HIDE DEF p
<1>5. p \in Seq(PositionHandles)
  BY <1>2, <1>4
<1> QED BY <1>3, <1>5 DEF p

\* One handle, as a list.
LEMMA OneWanted ==
  ASSUME NEW p \in PositionHandles
  PROVE  <<p>> \in Seq(PositionHandles) /\ Wanted(<<p>>) = PositionsBelow[p]
<1>1. DOMAIN <<p>> = {1} /\ <<p>>[1] = p
  OBVIOUS
<1>2. Wanted(<<p>>) = PositionsBelow[p]
  BY <1>1 DEF Wanted
<1> QED BY <1>2

\* The prover may evaluate what it has the challenges for.
LEMMA ProverMayEvaluate ==
  ASSUME CarefulCallers, challenges \in [Programs -> SUBSET Challenged],
         NEW asked, \A a \in asked : a \in OracleHandles \X Positions /\ CarefulToEvaluate("prover", a[1])
  PROVE  MayEvaluate("prover", asked)
<1> SUFFICES ASSUME NEW a \in asked
             PROVE  RealIsThere("prover", a[1], a[2]) /\ ChallengesAreSet("prover", a[1])
  BY DEF MayEvaluate
<1>1. RealIsThere("prover", a[1], a[2])
  BY DEF RealIsThere, RealAt, Submitted
<1>2. challenges["prover"] \subseteq Challenged
  BY DEF Programs
<1>3. ChallengesAreSet("prover", a[1])
  BY <1>2 DEF ChallengesAreSet, CarefulToEvaluate
<1> QED BY <1>1, <1>3

-----------------------------------------------------------------------------
(***************************************************************************)
(* The inductive invariant.                                                *)
(***************************************************************************)
\* What the prover has answered was recorded in full.
CoveredResponses(given, known, where) ==
  \A q \in DOMAIN given :
    /\ q \in Queries /\ HandleOf(q) \in DOMAIN known
    /\ \A o \in Oracles \intersect MadeOf[OracleOf(q)] : known[HandleOf(q)] \in where[o]

\* The trees are opened where the queries go, with the values that were submitted.
Opened(trans, known) ==
  /\ DOMAIN trans = Trees
  /\ \A t \in Trees : \A x \in DOMAIN trans[t] : \A i \in DOMAIN trees[t] :
       trans[t][x][i] = <<trees[t][i], x>>
  /\ \A q \in Queries :
       /\ PositionsBelow[HandleOf(q)] \subseteq DOMAIN known
       /\ \A o \in Oracles \intersect MadeOf[OracleOf(q)] : \A t \in Trees :
            o \in Range(trees[t]) => known[HandleOf(q)] \in DOMAIN trans[t]

OraclesTypeInv ==
  /\ squeezes \in [RandomPositions -> HashValues]
  /\ challenges \in [Programs -> SUBSET Challenged]
  /\ recorded \in [Oracles -> SUBSET Positions]
  /\ DOMAIN positions = Programs /\ DOMAIN evaluations = Programs /\ DOMAIN responses = Programs

PositionsInv == \A p \in Programs : RightPositions(positions[p])

CachesInv == (\A p \in Programs : CurrentCache(evaluations[p])) /\ CurrentContents(contents)

RecordedInv ==
  /\ CoveredCache(evaluations["prover"], recorded)
  /\ CoveredResponses(responses["prover"], positions["prover"], recorded)

TranscriptInv == transcript # None => Opened(transcript, positions["prover"])

OraclesInv ==
  OraclesTypeInv /\ PositionsInv /\ CachesInv /\ RecordedInv /\ TranscriptInv /\ refused = FALSE

\* The invariant holds in the beginning.
LEMMA InitIsCurrent == Init => OraclesInv
<1> SUFFICES ASSUME Init PROVE OraclesInv
  OBVIOUS
<1>1. OraclesTypeInv
  BY DEF Init, OraclesTypeInv
<1>2. DOMAIN << >> = {}
  OBVIOUS
<1>3. \A p \in Programs : positions[p] = << >> /\ evaluations[p] = << >> /\ responses[p] = << >>
  BY DEF Init
<1>4. << >> = [p \in DOMAIN << >> |-> ThePosition[p]]
  BY <1>2
<1>5. PositionsInv
  BY <1>2, <1>3, <1>4 DEF PositionsInv, RightPositions
<1>6. contents = << >> /\ transcript = None /\ refused = FALSE
  BY DEF Init
<1>7. CachesInv
  BY <1>2, <1>3, <1>6 DEF CachesInv, CurrentCache, CurrentContents
<1>8. RecordedInv
  BY <1>2, <1>3 DEF RecordedInv, CoveredCache, CoveredResponses, Programs
<1> QED BY <1>1, <1>5, <1>6, <1>7, <1>8 DEF OraclesInv, TranscriptInv

\* Everybody's positions do not change.
LEMMA ThePositionStays == squeezes' = squeezes => ThePosition' = ThePosition
BY DEF ThePosition, PositionsFrom, Squeezed, InOrder

-----------------------------------------------------------------------------
(***************************************************************************)
(* What a call does, before its effect is stored.                          *)
(***************************************************************************)
\* A value that is in an opened tree is found in the proof, and is what was submitted.
LEMMA FoundInTranscript ==
  ASSUME NEW o \in Oracles, NEW x,
         \A t \in Trees : \A y \in DOMAIN transcript[t] : \A i \in DOMAIN trees[t] :
           transcript[t][y][i] = <<trees[t][i], y>>,
         \A t \in Trees : o \in Range(trees[t]) => x \in DOMAIN transcript[t]
  PROVE  FromTranscript(x)[o] = <<o, x>>
<1> DEFINE with == {t \in Trees : o \in Range(trees[t]) /\ x \in DOMAIN transcript[t]}
<1>1. with # {}
  BY OracleQueriesAssumption
<1>2. FromTranscript(x)[o] = LET t == CHOOSE t \in with : TRUE IN transcript[t][x][Column(t, o)]
  BY <1>1 DEF FromTranscript
<1> DEFINE t == CHOOSE t \in with : TRUE
<1>3. t \in with
  BY <1>1
<1>4. FromTranscript(x)[o] = transcript[t][x][Column(t, o)]
  BY <1>2
<1> HIDE DEF t
<1>5. \E i \in DOMAIN trees[t] : trees[t][i] = o
  BY <1>3 DEF Range
<1>6. Column(t, o) \in DOMAIN trees[t] /\ trees[t][Column(t, o)] = o
  BY <1>5 DEF Column, PlaceIn
<1>7. transcript[t][x][Column(t, o)] = <<trees[t][Column(t, o)], x>>
  BY <1>3, <1>6
<1> QED BY <1>4, <1>6, <1>7

\* What is submitted is not "unavailable in the proof".
LEMMA SubmittedIsSomething == \A o, x : <<o, x>> # None
BY DEF None

\* The positions after a careful call are everybody's, and those that were known stay.
LEMMA PositionsStayRight ==
  ASSUME CarefulCallers, OraclesTypeInv, PositionsInv, NEW program \in Programs,
         NEW handles \in Seq(PositionHandles), CarefulToSqueeze(program, handles)
  PROVE  /\ RightPositions(PositionsWith(program, handles))
         /\ \A p \in DOMAIN PositionsWith(program, handles) :
              PositionsWith(program, handles)[p] = ThePosition[p]
         /\ DOMAIN PositionsWith(program, handles) = DOMAIN positions[program] \union Wanted(handles)
<1> DEFINE known == positions[program]
           dom   == DOMAIN known \union Wanted(handles)
<1>1. RightPositions(known)
  BY DEF PositionsInv
<1>2. PositionsWith(program, handles) = [p \in dom |-> ThePosition[p]]
  BY <1>1, PositionsWithAreRight
<1>3. dom \subseteq PositionHandles
  <2>1. DOMAIN known \subseteq PositionHandles
    BY <1>1 DEF RightPositions
  <2>2. \A i \in DOMAIN handles : handles[i] \in PositionHandles
    BY SequenceType
  <2>3. \A i \in DOMAIN handles : PositionsBelow[handles[i]] \subseteq PositionHandles
    BY <2>2, PositionsBelowEquation
  <2> QED BY <2>1, <2>3 DEF Wanted
<1> HIDE DEF dom
<1>4. RightPositions([p \in dom |-> ThePosition[p]])
  BY <1>3 DEF RightPositions
<1>5. DOMAIN [p \in dom |-> ThePosition[p]] = dom
      /\ \A p \in dom : [q \in dom |-> ThePosition[q]][p] = ThePosition[p]
  OBVIOUS
<1> QED BY <1>2, <1>4, <1>5 DEF dom

\* Right positions are positions.
LEMMA RightPositionsType ==
  ASSUME OraclesTypeInv, NEW known, RightPositions(known)
  PROVE  \A p \in DOMAIN known : p \in PositionHandles /\ known[p] = ThePosition[p] /\ known[p] \in Positions
<1>1. \A p \in DOMAIN known : known[p] = ThePosition[p]
  BY Zenon DEF RightPositions
<1>2. \A p \in DOMAIN known : p \in PositionHandles
  BY DEF RightPositions
<1> QED BY <1>1, <1>2, ThePositionType DEF OraclesTypeInv

\* The prover answers queries, one or all: what it then holds is current, and recorded.
LEMMA ProverAnswers ==
  ASSUME CarefulCallers, OraclesTypeInv, PositionsInv, CachesInv, RecordedInv,
         NEW qs \in SUBSET Queries, NEW handles \in Seq(PositionHandles),
         \A q \in qs : \E i \in DOMAIN handles : handles[i] = HandleOf(q),
         \A q \in qs : CarefulToEvaluate("prover", OracleOf(q)),
         CarefulToSqueeze("prover", handles),
         NEW known, known = PositionsWith("prover", handles),
         NEW asked, asked = Asked("prover", qs, known)
  PROVE  /\ RightPositions(known)
         /\ CurrentCache(EvaluationsWith("prover", asked))
         /\ Recorded(asked) \in [Oracles -> SUBSET Positions]
         /\ CoveredCache(EvaluationsWith("prover", asked), Recorded(asked))
         /\ CoveredResponses(ResponsesWith("prover", qs, known), known, Recorded(asked))
<1>1. "prover" \in Programs
  BY DEF Programs
<1>2. /\ RightPositions(known)
      /\ DOMAIN known = DOMAIN positions["prover"] \union Wanted(handles)
  BY <1>1, PositionsStayRight
<1>3. \A p \in DOMAIN known : p \in PositionHandles /\ known[p] = ThePosition[p] /\ known[p] \in Positions
  BY <1>2, RightPositionsType
<1>4. \A q \in qs : HandleOf(q) \in DOMAIN known
  BY <1>2, WantedHoldSeeds
<1>5. asked = {<<OracleOf(q), known[HandleOf(q)]>> : q \in qs \ DOMAIN responses["prover"]}
  BY DEF Asked, OracleOf, HandleOf
<1>6. \A a \in asked : a \in OracleHandles \X Positions /\ CarefulToEvaluate("prover", a[1])
  BY <1>3, <1>4, <1>5, QueryType
<1>7. MayEvaluate("prover", asked)
  BY <1>6, ProverMayEvaluate DEF OraclesTypeInv
<1>8. CurrentCache(EvaluationsWith("prover", asked))
  BY <1>1, <1>7, EvaluationsStayCurrent DEF CachesInv
<1>9. \A a \in asked : a \in OracleHandles \X Positions
  BY <1>6
<1>10. recorded \in [Oracles -> SUBSET Positions] /\ CoveredCache(evaluations["prover"], recorded)
  BY DEF OraclesTypeInv, RecordedInv
<1>11. /\ Recorded(asked) \in [Oracles -> SUBSET Positions]
       /\ \A o \in Oracles : recorded[o] \subseteq Recorded(asked)[o]
       /\ \A a \in asked : \A o \in Oracles \intersect MadeOf[a[1]] : a[2] \in Recorded(asked)[o]
  BY <1>9, <1>10, RecordedCovers
<1>12. CoveredCache(EvaluationsWith("prover", asked), Recorded(asked))
  BY <1>9, <1>10, EvaluationsStayCovered
<1>13. DOMAIN ResponsesWith("prover", qs, known) = DOMAIN responses["prover"] \union qs
  BY DEF ResponsesWith, OrElse
<1>14. ASSUME NEW q \in DOMAIN ResponsesWith("prover", qs, known)
       PROVE  /\ q \in Queries /\ HandleOf(q) \in DOMAIN known
              /\ \A o \in Oracles \intersect MadeOf[OracleOf(q)] : known[HandleOf(q)] \in Recorded(asked)[o]
  <2>1. CASE q \in DOMAIN responses["prover"]
    <3>1. /\ q \in Queries /\ HandleOf(q) \in DOMAIN positions["prover"]
          /\ \A o \in Oracles \intersect MadeOf[OracleOf(q)] :
               positions["prover"][HandleOf(q)] \in recorded[o]
      BY <2>1 DEF RecordedInv, CoveredResponses
    <3>2. RightPositions(positions["prover"])
      BY <1>1 DEF PositionsInv
    <3>3. positions["prover"][HandleOf(q)] = ThePosition[HandleOf(q)]
      BY <3>1, <3>2, RightPositionsType
    <3>4. HandleOf(q) \in DOMAIN known /\ known[HandleOf(q)] = positions["prover"][HandleOf(q)]
      BY <1>2, <1>3, <3>1, <3>3
    <3> QED BY <1>11, <3>1, <3>4
  <2>2. CASE q \in qs /\ q \notin DOMAIN responses["prover"]
    <3> DEFINE a == <<OracleOf(q), known[HandleOf(q)]>>
    <3>1. a \in asked
      BY <1>5, <2>2
    <3>2. a[1] = OracleOf(q) /\ a[2] = known[HandleOf(q)]
      OBVIOUS
    <3> HIDE DEF a
    <3>3. \A o \in Oracles \intersect MadeOf[OracleOf(q)] : known[HandleOf(q)] \in Recorded(asked)[o]
      BY <1>11, <3>1, <3>2
    <3> QED BY <1>4, <2>2, <3>3
  <2> QED BY <1>13, <2>1, <2>2
<1>15. CoveredResponses(ResponsesWith("prover", qs, known), known, Recorded(asked))
  BY <1>14 DEF CoveredResponses
<1> QED BY <1>2, <1>8, <1>11, <1>12, <1>15

-----------------------------------------------------------------------------
(***************************************************************************)
(* The invariant after a step.                                             *)
(***************************************************************************)
\* The parts of the invariant in the next state, from what is known of the new values.
LEMMA InvariantAfter ==
  ASSUME squeezes' = squeezes, refused' = FALSE,
         challenges' \in [Programs -> SUBSET Challenged],
         recorded' \in [Oracles -> SUBSET Positions], OraclesTypeInv,
         DOMAIN positions' = Programs, DOMAIN evaluations' = Programs, DOMAIN responses' = Programs,
         \A p \in Programs : RightPositions(positions'[p]),
         \A p \in Programs : CurrentCache(evaluations'[p]),
         CurrentContents(contents'),
         CoveredCache(evaluations'["prover"], recorded'),
         CoveredResponses(responses'["prover"], positions'["prover"], recorded'),
         transcript' # None => Opened(transcript', positions'["prover"])
  PROVE  OraclesInv'
<1>1. OraclesTypeInv'
  BY DEF OraclesTypeInv
<1>2. PositionsInv'
  BY ThePositionStays DEF PositionsInv, RightPositions
<1>3. CachesInv'
  BY DEF CachesInv, CurrentCache, CurrentContents
<1>4. RecordedInv'
  BY DEF RecordedInv, CoveredCache, CoveredResponses
<1>5. TranscriptInv'
  BY DEF TranscriptInv, Opened
<1>6. (refused = FALSE)'
  OBVIOUS
<1> QED BY <1>1, <1>2, <1>3, <1>4, <1>5, <1>6 DEF OraclesInv

\* The invariant, part by part.
LEMMA InvariantNow ==
  ASSUME OraclesInv
  PROVE  /\ OraclesTypeInv /\ PositionsInv /\ CachesInv /\ RecordedInv /\ TranscriptInv /\ refused = FALSE
         /\ challenges \in [Programs -> SUBSET Challenged]
         /\ recorded \in [Oracles -> SUBSET Positions]
         /\ DOMAIN positions = Programs /\ DOMAIN evaluations = Programs /\ DOMAIN responses = Programs
         /\ \A p \in Programs : RightPositions(positions[p])
         /\ \A p \in Programs : CurrentCache(evaluations[p])
         /\ CurrentContents(contents)
         /\ CoveredCache(evaluations["prover"], recorded)
         /\ CoveredResponses(responses["prover"], positions["prover"], recorded)
         /\ transcript # None => Opened(transcript, positions["prover"])
  BY DEF OraclesInv, OraclesTypeInv, PositionsInv, CachesInv, RecordedInv, TranscriptInv

\* A step that changes nothing keeps the invariant.
LEMMA StutteringKeeps ==
  ASSUME OraclesInv, UNCHANGED vars
  PROVE  OraclesInv'
<1>1. /\ squeezes' = squeezes /\ positions' = positions /\ challenges' = challenges
      /\ evaluations' = evaluations /\ contents' = contents /\ responses' = responses
      /\ recorded' = recorded /\ transcript' = transcript /\ refused' = refused
  BY DEF vars
<1> QED BY <1>1, InvariantNow, InvariantAfter

\* Setting a challenge keeps the invariant: no cache holds what depends on it.
LEMMA SetChallengeKeeps ==
  ASSUME OraclesInv, NEW program \in Programs, NEW v \in Challenged, SetChallenge(program, v)
  PROVE  OraclesInv'
<1>1. /\ squeezes' = squeezes /\ positions' = positions
      /\ evaluations' = evaluations /\ contents' = contents /\ responses' = responses
      /\ recorded' = recorded /\ transcript' = transcript /\ refused' = refused
  BY DEF SetChallenge
<1>2. challenges' = [challenges EXCEPT ![program] = @ \union {v}]
  BY DEF SetChallenge
<1>3. challenges' \in [Programs -> SUBSET Challenged]
  BY <1>2, InvariantNow
<1> QED BY <1>1, <1>3, InvariantNow, InvariantAfter

\* The prover takes an oracle whole: the contents it caches are those of the definition.
LEMMA GetOracleEvaluationsKeeps ==
  ASSUME CarefulCallers, OraclesInv, NEW h \in OracleHandles, GetOracleEvaluations(h)
  PROVE  OraclesInv'
<1>1. /\ squeezes' = squeezes /\ positions' = positions /\ challenges' = challenges
      /\ evaluations' = evaluations /\ responses' = responses
      /\ recorded' = recorded /\ transcript' = transcript /\ refused' = refused
  BY DEF GetOracleEvaluations
<1> DEFINE read == CachedWhole \intersect ReadWhole(h)
           new  == [k \in read |-> WholeContents(k)]
<1>2. contents' = OrElse(contents, new)
  BY DEF GetOracleEvaluations
<1>3. ChallengesAreSet("prover", h)
  <2>1. challenges["prover"] \subseteq Challenged
    BY InvariantNow DEF Programs
  <2> QED BY <2>1 DEF GetOracleEvaluations, CarefulToEvaluate, ChallengesAreSet
<1>4. ASSUME NEW k \in read
      PROVE  k \in VirtualOracles /\ \A x \in Positions : new[k][x] = Definition(k, x)
  <2>1. new[k] = WholeContents(k) /\ k \in VirtualOracles /\ k \in ReadWhole(h)
    BY OracleQueriesAssumption
  <2>2. \A x \in Positions : WholeContents(k)[x] = Definition(k, x)
    BY <1>3, <2>1, InvariantNow, WholeContentsAreDefined
  <2> QED BY <2>1, <2>2
<1>5. DOMAIN new = read
  OBVIOUS
<1> HIDE DEF new, read
<1>6. contents' = [k \in DOMAIN contents \union read |->
                     IF k \in DOMAIN contents THEN contents[k] ELSE new[k]]
  BY <1>2, <1>5, Zenon DEF OrElse
<1>7. \A k \in DOMAIN contents : k \in VirtualOracles /\ \A x \in Positions : contents[k][x] = Definition(k, x)
  BY InvariantNow DEF CurrentContents
<1>8. ASSUME NEW k \in DOMAIN contents'
      PROVE  k \in VirtualOracles /\ \A x \in Positions : contents'[k][x] = Definition(k, x)
  <2>1. k \in DOMAIN contents \/ (k \notin DOMAIN contents /\ k \in read)
    BY <1>6
  <2>2. CASE k \in DOMAIN contents
    <3>1. contents'[k] = contents[k]
      BY <1>6, <2>2
    <3> QED BY <1>7, <2>2, <3>1
  <2>3. CASE k \notin DOMAIN contents /\ k \in read
    <3>1. contents'[k] = new[k]
      BY <1>6, <2>3
    <3> QED BY <1>4, <2>3, <3>1
  <2> QED BY <2>1, <2>2, <2>3
<1>9. CurrentContents(contents')
  BY <1>8 DEF CurrentContents
<1> QED BY <1>1, <1>9, InvariantNow, InvariantAfter

\* The prover reads an oracle at a point: what is cached is recorded, for a real oracle is not cached.
LEMMA GetOracleEvaluationAtPointKeeps ==
  ASSUME CarefulCallers, OraclesInv, NEW h \in OracleHandles, NEW x \in Positions,
         NEW record \in BOOLEAN, GetOracleEvaluationAtPoint(h, x, record)
  PROVE  OraclesInv'
<1> DEFINE asked == {<<h, x>>}
           now   == EvaluationsWith("prover", asked)
<1>1. /\ squeezes' = squeezes /\ positions' = positions /\ challenges' = challenges
      /\ contents' = contents /\ responses' = responses
      /\ transcript' = transcript /\ refused' = refused
  BY DEF GetOracleEvaluationAtPoint
<1>2. /\ evaluations' = [evaluations EXCEPT !["prover"] = now]
      /\ recorded' = IF record THEN Recorded(asked) ELSE recorded
      /\ record \/ h \in Oracles
  BY DEF GetOracleEvaluationAtPoint
<1>3. \A a \in asked : a \in OracleHandles \X Positions /\ CarefulToEvaluate("prover", a[1])
  BY DEF GetOracleEvaluationAtPoint
<1>4. "prover" \in Programs
  BY DEF Programs
<1> HIDE DEF asked
<1>5. MayEvaluate("prover", asked)
  BY <1>3, InvariantNow, ProverMayEvaluate
<1>6. CurrentCache(now)
  BY <1>4, <1>5, InvariantNow, EvaluationsStayCurrent
<1>7. /\ Recorded(asked) \in [Oracles -> SUBSET Positions]
      /\ \A o \in Oracles : recorded[o] \subseteq Recorded(asked)[o]
  BY <1>3, InvariantNow, RecordedCovers
<1>8. CoveredCache(now, Recorded(asked))
  BY <1>3, InvariantNow, EvaluationsStayCovered
<1>9. h \in Oracles => \A e \in DOMAIN now : e \in DOMAIN evaluations["prover"]
  <2> SUFFICES ASSUME h \in Oracles, NEW e \in DOMAIN now, e \notin DOMAIN evaluations["prover"]
               PROVE  FALSE
    OBVIOUS
  <2>1. PICK a \in asked : \E k \in ReadFor("prover", a[1], a[2]) : e = <<k, a[2]>> /\ k \notin Oracles
    BY EvaluationsDomain
  <2>2. a[1] = h
    BY DEF asked
  <2>3. PICK k \in ReadFor("prover", h, a[2]) : k \notin Oracles
    BY <2>1, <2>2
  <2>4. ReadFor("prover", h, a[2]) = {h}
    <3> DEFINE stop == Oracles \union DOMAIN CachedAt("prover", a[2])
    <3>1. ReadFor("prover", h, a[2]) = ReadUpTo(stop)[h]
      BY ReadForIsReadUpTo
    <3>2. Oracles \subseteq stop /\ h \in stop /\ h \in 1..nHandles
      BY OracleHandlesNumbered
    <3> HIDE DEF stop
    <3>3. Reaching(nHandles, stop, constituents, ReadUpTo(stop))
      BY <3>2, ReadUpToReaches
    <3> QED BY <3>1, <3>2, <3>3 DEF Reaching
  <2> QED BY <2>3, <2>4
<1>10. recorded' \in [Oracles -> SUBSET Positions] /\ \A o \in Oracles : recorded[o] \subseteq recorded'[o]
  BY <1>2, <1>7, InvariantNow
<1>11. CoveredCache(now, recorded')
  <2>1. CASE record
    BY <1>2, <1>8, <2>1
  <2>2. CASE ~record
    BY <1>2, <1>9, <2>2, InvariantNow DEF CoveredCache
  <2> QED BY <2>1, <2>2
<1> HIDE DEF now
<1>12. /\ DOMAIN evaluations' = Programs /\ evaluations'["prover"] = now
       /\ \A p \in Programs : p # "prover" => evaluations'[p] = evaluations[p]
  BY <1>2, <1>4, InvariantNow
<1>13. \A p \in Programs : CurrentCache(evaluations'[p])
  BY <1>6, <1>12, InvariantNow
<1>14. CoveredResponses(responses'["prover"], positions'["prover"], recorded')
  BY <1>1, <1>10, InvariantNow DEF CoveredResponses
<1>15. CoveredCache(evaluations'["prover"], recorded')
  BY <1>11, <1>12
<1> QED BY <1>1, <1>10, <1>12, <1>13, <1>14, <1>15, InvariantNow, InvariantAfter

\* Obtaining a position keeps the invariant: it is everybody's.
LEMMA ObtainQueryPositionKeeps ==
  ASSUME CarefulCallers, OraclesInv, NEW program \in Programs, NEW p \in PositionHandles,
         ObtainQueryPosition(program, p)
  PROVE  OraclesInv'
<1> DEFINE handles == <<p>>
           known   == PositionsWith(program, handles)
<1>1. /\ squeezes' = squeezes /\ challenges' = challenges
      /\ evaluations' = evaluations /\ contents' = contents /\ responses' = responses
      /\ recorded' = recorded /\ transcript' = transcript /\ refused' = refused
  BY DEF ObtainQueryPosition
<1>2. positions' = [positions EXCEPT ![program] = known]
  BY DEF ObtainQueryPosition
<1>3. /\ RightPositions(known)
      /\ DOMAIN positions[program] \subseteq DOMAIN known
  <2>1. handles \in Seq(PositionHandles) /\ CarefulToSqueeze(program, handles)
    BY OneWanted DEF ObtainQueryPosition
  <2> HIDE DEF handles
  <2> QED BY <2>1, InvariantNow, PositionsStayRight
<1> HIDE DEF known
<1>4. /\ DOMAIN positions' = Programs /\ positions'[program] = known
      /\ \A other \in Programs : other # program => positions'[other] = positions[other]
  BY <1>2, InvariantNow
<1>5. \A other \in Programs : RightPositions(positions'[other])
  BY <1>3, <1>4, InvariantNow
<1>6. "prover" \in Programs
  BY DEF Programs
<1>7. \A h \in DOMAIN positions["prover"] :
        h \in DOMAIN positions'["prover"] /\ positions'["prover"][h] = positions["prover"][h]
  <2>1. DOMAIN positions["prover"] \subseteq DOMAIN positions'["prover"]
    BY <1>3, <1>4, <1>6
  <2>2. \A h \in DOMAIN positions["prover"] : positions["prover"][h] = ThePosition[h]
    BY <1>6, InvariantNow, RightPositionsType
  <2>3. \A h \in DOMAIN positions'["prover"] : positions'["prover"][h] = ThePosition[h]
    BY <1>5, <1>6, InvariantNow, RightPositionsType
  <2> QED BY <2>1, <2>2, <2>3
<1>8. CoveredResponses(responses["prover"], positions'["prover"], recorded)
  BY <1>7, InvariantNow DEF CoveredResponses
<1>9. transcript # None => Opened(transcript, positions'["prover"])
  <2>1. program = "prover" => transcript = None
    BY DEF ObtainQueryPosition, Running
  <2> QED BY <1>4, <1>6, <2>1, InvariantNow
<1> QED BY <1>1, <1>4, <1>5, <1>8, <1>9, InvariantNow, InvariantAfter

\* What the prover's answers make of the invariant, when they are stored.
LEMMA ProverAnswersKeep ==
  ASSUME OraclesInv, NEW qs, NEW known, NEW asked,
         RightPositions(known), CurrentCache(EvaluationsWith("prover", asked)),
         Recorded(asked) \in [Oracles -> SUBSET Positions],
         CoveredCache(EvaluationsWith("prover", asked), Recorded(asked)),
         CoveredResponses(ResponsesWith("prover", qs, known), known, Recorded(asked)),
         positions' = [positions EXCEPT !["prover"] = known],
         evaluations' = [evaluations EXCEPT !["prover"] = EvaluationsWith("prover", asked)],
         responses' = [responses EXCEPT !["prover"] = ResponsesWith("prover", qs, known)],
         recorded' = Recorded(asked),
         UNCHANGED <<squeezes, challenges, contents, refused>>,
         transcript' # None => Opened(transcript', known)
  PROVE  OraclesInv'
<1> DEFINE cache == EvaluationsWith("prover", asked)
           given == ResponsesWith("prover", qs, known)
           where == Recorded(asked)
<1>1. "prover" \in Programs
  BY DEF Programs
<1> HIDE DEF cache, given, where
<1>2. /\ DOMAIN positions' = Programs /\ positions'["prover"] = known
      /\ \A p \in Programs : p # "prover" => positions'[p] = positions[p]
  BY <1>1, InvariantNow
<1>3. /\ DOMAIN evaluations' = Programs /\ evaluations'["prover"] = cache
      /\ \A p \in Programs : p # "prover" => evaluations'[p] = evaluations[p]
  BY <1>1, InvariantNow DEF cache
<1>4. DOMAIN responses' = Programs /\ responses'["prover"] = given
  BY <1>1, InvariantNow DEF given
<1>5. \A p \in Programs : RightPositions(positions'[p])
  BY <1>2, InvariantNow
<1>6. \A p \in Programs : CurrentCache(evaluations'[p])
  BY <1>3, InvariantNow DEF cache
<1>7. recorded' = where /\ where \in [Oracles -> SUBSET Positions]
  BY DEF where
<1>8. CoveredCache(evaluations'["prover"], recorded')
  BY <1>3, <1>7 DEF cache, where
<1>9. CoveredResponses(responses'["prover"], positions'["prover"], recorded')
  BY <1>2, <1>4, <1>7 DEF given, where
<1>10. transcript' # None => Opened(transcript', positions'["prover"])
  BY <1>2
<1> QED BY <1>2, <1>3, <1>4, <1>5, <1>6, <1>7, <1>8, <1>9, <1>10, InvariantNow, InvariantAfter

\* The prover answers one query.
LEMMA ProverObtainsResponseKeeps ==
  ASSUME CarefulCallers, OraclesInv, NEW q \in Queries, ProverObtainsResponse(q)
  PROVE  OraclesInv'
<1> DEFINE handles == <<queries[q].position>>
           known   == PositionsWith("prover", handles)
           asked   == Asked("prover", {q}, known)
<1>1. /\ positions' = [positions EXCEPT !["prover"] = known]
      /\ evaluations' = [evaluations EXCEPT !["prover"] = EvaluationsWith("prover", asked)]
      /\ responses' = [responses EXCEPT !["prover"] = ResponsesWith("prover", {q}, known)]
      /\ recorded' = Recorded(asked)
      /\ UNCHANGED <<squeezes, challenges, contents, transcript, refused>>
  BY DEF ProverObtainsResponse
<1>2. /\ transcript = None /\ CarefulToSqueeze("prover", handles)
      /\ CarefulToEvaluate("prover", OracleOf(q))
  BY DEF ProverObtainsResponse, Running, OracleOf
<1>3. handles \in Seq(PositionHandles) /\ 1 \in DOMAIN handles /\ handles[1] = HandleOf(q)
  BY QueryType, OneWanted DEF HandleOf
<1> HIDE DEF handles
<1>4. \A p \in {q} : /\ p \in Queries /\ \E i \in DOMAIN handles : handles[i] = HandleOf(p)
                     /\ CarefulToEvaluate("prover", OracleOf(p))
  BY <1>2, <1>3
<1>5. {q} \in SUBSET Queries
  OBVIOUS
<1>6. /\ RightPositions(known)
      /\ CurrentCache(EvaluationsWith("prover", asked))
      /\ Recorded(asked) \in [Oracles -> SUBSET Positions]
      /\ CoveredCache(EvaluationsWith("prover", asked), Recorded(asked))
      /\ CoveredResponses(ResponsesWith("prover", {q}, known), known, Recorded(asked))
  BY <1>2, <1>3, <1>4, <1>5, InvariantNow, ProverAnswers
<1> HIDE DEF known, asked
<1>7. transcript' # None => Opened(transcript', known)
  BY <1>1, <1>2
<1>8. UNCHANGED <<squeezes, challenges, contents, refused>>
  BY <1>1
<1> QED BY <1>1, <1>6, <1>7, <1>8, ProverAnswersKeep

\* The transcript is made: every tree is open wherever a query reaches one of its oracles.
LEMMA GetTranscriptKeeps ==
  ASSUME CarefulCallers, OraclesInv, GetTranscript
  PROVE  OraclesInv'
<1> DEFINE handles == [q \in Queries |-> queries[q].position]
           known   == PositionsWith("prover", handles)
           asked   == Asked("prover", Queries, known)
           given   == ResponsesWith("prover", Queries, known)
<1>1. /\ positions' = [positions EXCEPT !["prover"] = known]
      /\ evaluations' = [evaluations EXCEPT !["prover"] = EvaluationsWith("prover", asked)]
      /\ responses' = [responses EXCEPT !["prover"] = given]
      /\ recorded' = Recorded(asked)
      /\ transcript' = [t \in Trees |-> [x \in TreePositions(t, asked) |->
                          [i \in DOMAIN trees[t] |-> Submitted(x)[trees[t][i]]]]]
      /\ UNCHANGED <<squeezes, challenges, contents, refused>>
  BY DEF GetTranscript
<1>2. /\ CarefulToSqueeze("prover", handles)
      /\ \A q \in Queries : CarefulToEvaluate("prover", OracleOf(q))
  BY DEF GetTranscript, OracleOf
<1>3. handles \in Seq(PositionHandles)
      /\ \A q \in Queries : q \in DOMAIN handles /\ handles[q] = HandleOf(q)
  BY QueryType DEF HandleOf
<1>4. "prover" \in Programs
  BY DEF Programs
<1> HIDE DEF handles
<1>5. Queries \in SUBSET Queries /\ \A q \in Queries : \E i \in DOMAIN handles : handles[i] = HandleOf(q)
  BY <1>3
<1>6. /\ RightPositions(known)
      /\ CurrentCache(EvaluationsWith("prover", asked))
      /\ Recorded(asked) \in [Oracles -> SUBSET Positions]
      /\ CoveredCache(EvaluationsWith("prover", asked), Recorded(asked))
      /\ CoveredResponses(given, known, Recorded(asked))
  BY <1>2, <1>3, <1>5, InvariantNow, ProverAnswers
<1>7. \A q \in Queries : PositionsBelow[HandleOf(q)] \subseteq DOMAIN known
  <2>1. DOMAIN known = DOMAIN positions["prover"] \union Wanted(handles)
    BY <1>2, <1>3, <1>4, InvariantNow, PositionsStayRight
  <2>2. \A q \in Queries : PositionsBelow[HandleOf(q)] \subseteq Wanted(handles)
    BY <1>3, WantedHoldSeeds
  <2> QED BY <2>1, <2>2
<1>8. DOMAIN given = DOMAIN responses["prover"] \union Queries
  BY DEF ResponsesWith, OrElse
<1> HIDE DEF known, asked, given
<1>9. \A q \in Queries : \A o \in Oracles \intersect MadeOf[OracleOf(q)] :
        known[HandleOf(q)] \in Recorded(asked)[o]
  BY <1>6, <1>8 DEF CoveredResponses
<1>10. ASSUME NEW t \in Trees
       PROVE  /\ DOMAIN transcript'[t] = TreePositions(t, asked)
              /\ \A x \in DOMAIN transcript'[t] : \A i \in DOMAIN trees[t] :
                   transcript'[t][x][i] = <<trees[t][i], x>>
              /\ \A o \in Range(trees[t]) : Recorded(asked)[o] \subseteq DOMAIN transcript'[t]
  <2>1. transcript'[t] = [x \in TreePositions(t, asked) |->
                            [i \in DOMAIN trees[t] |-> Submitted(x)[trees[t][i]]]]
    BY <1>1
  <2>2. \A i \in DOMAIN trees[t] : trees[t][i] \in Oracles
    BY OracleQueriesAssumption, SequenceType DEF Range
  <2>3. \A x : \A i \in DOMAIN trees[t] : Submitted(x)[trees[t][i]] = <<trees[t][i], x>>
    BY <2>2 DEF Submitted
  <2>4. DOMAIN transcript'[t] = TreePositions(t, asked)
    BY <2>1
  <2>5. \A x \in DOMAIN transcript'[t] : \A i \in DOMAIN trees[t] :
          transcript'[t][x][i] = Submitted(x)[trees[t][i]]
    BY <2>1
  <2>6. \A o \in Range(trees[t]) : Recorded(asked)[o] \subseteq TreePositions(t, asked)
    BY DEF TreePositions
  <2>7. \A x \in DOMAIN transcript'[t] : \A i \in DOMAIN trees[t] :
          transcript'[t][x][i] = <<trees[t][i], x>>
    BY <2>3, <2>5
  <2> QED BY <2>4, <2>6, <2>7
<1>11. DOMAIN transcript' = Trees
  BY <1>1
<1>12. \A q \in Queries : \A o \in Oracles \intersect MadeOf[OracleOf(q)] : \A t \in Trees :
         o \in Range(trees[t]) => known[HandleOf(q)] \in DOMAIN transcript'[t]
  BY <1>9, <1>10
<1>13. Opened(transcript', known)
  BY <1>7, <1>10, <1>11, <1>12 DEF Opened
<1>14. /\ CoveredResponses(ResponsesWith("prover", Queries, known), known, Recorded(asked))
       /\ responses' = [responses EXCEPT !["prover"] = ResponsesWith("prover", Queries, known)]
       /\ UNCHANGED <<squeezes, challenges, contents, refused>>
  BY <1>1, <1>6 DEF given
<1> QED BY <1>1, <1>6, <1>13, <1>14, ProverAnswersKeep

\* The verifier may take from the proof all that a query of its reaches.
LEMMA VerifierMayEvaluate ==
  ASSUME CarefulCallers, OraclesInv, transcript # None, NEW q \in Queries,
         CarefulToEvaluate("verifier", OracleOf(q))
  PROVE  LET x == ThePosition[HandleOf(q)]
         IN /\ x \in Positions /\ HandleOf(q) \in DOMAIN positions["prover"]
            /\ RealIsThere("verifier", OracleOf(q), x) /\ ChallengesAreSet("verifier", OracleOf(q))
            /\ \A o \in Oracles \intersect ReadFor("verifier", OracleOf(q), x) :
                 RealAt("verifier", x)[o] # None
<1> DEFINE x == ThePosition[HandleOf(q)]
           h == OracleOf(q)
<1>1. h \in OracleHandles /\ HandleOf(q) \in PositionHandles /\ "prover" \in Programs /\ "verifier" \in Programs
  BY QueryType DEF Programs
<1>2. x \in Positions
  BY <1>1, InvariantNow, ThePositionType DEF OraclesTypeInv
<1>3. Opened(transcript, positions["prover"]) /\ RightPositions(positions["prover"])
  BY <1>1, InvariantNow
<1>4. HandleOf(q) \in DOMAIN positions["prover"]
  BY <1>1, <1>3, PositionsBelowEquation DEF Opened
<1>5. positions["prover"][HandleOf(q)] = x
  BY <1>3, <1>4, InvariantNow, RightPositionsType
<1> HIDE DEF x, h
<1>6. ReadFor("verifier", h, x) \subseteq MadeOf[h]
  BY <1>1, ReadForIsReadUpTo, ReadUpToPast
<1>7. /\ \A t \in Trees : \A y \in DOMAIN transcript[t] : \A i \in DOMAIN trees[t] :
           transcript[t][y][i] = <<trees[t][i], y>>
      /\ \A o \in Oracles \intersect MadeOf[h] : \A t \in Trees :
           o \in Range(trees[t]) => x \in DOMAIN transcript[t]
  BY <1>3, <1>5 DEF Opened, h
<1>8. \A o \in Oracles \intersect MadeOf[h] : FromTranscript(x)[o] = <<o, x>>
  BY <1>7, FoundInTranscript
<1>9. RealAt("verifier", x) = FromTranscript(x)
  BY DEF RealAt
<1>10. DOMAIN FromTranscript(x) = Oracles
  BY DEF FromTranscript
<1>11. \A o \in Oracles \intersect ReadFor("verifier", h, x) : RealAt("verifier", x)[o] = <<o, x>>
  BY <1>6, <1>8, <1>9
<1>12. RealIsThere("verifier", h, x)
  BY <1>9, <1>10, <1>11 DEF RealIsThere
<1>13. ChallengesAreSet("verifier", h)
  <2>1. challenges["verifier"] \subseteq Challenged
    BY <1>1, InvariantNow
  <2> QED BY <2>1 DEF ChallengesAreSet, CarefulToEvaluate, h
<1>14. \A o \in Oracles \intersect ReadFor("verifier", h, x) : RealAt("verifier", x)[o] # None
  BY <1>11, SubmittedIsSomething
<1> QED BY <1>2, <1>4, <1>12, <1>13, <1>14 DEF x, h

\* The verifier gets its answer from the proof, and never throws.
LEMMA VerifierObtainsResponseKeeps ==
  ASSUME CarefulCallers, OraclesInv, NEW q \in Queries, VerifierObtainsResponse(q)
  PROVE  /\ OraclesInv'
         /\ positions'["prover"] = positions["prover"]
         /\ \A p \in DOMAIN positions'["verifier"] :
              p \in DOMAIN positions["verifier"] \/ p \in PositionsBelow[HandleOf(q)]
         /\ responses'["verifier"] =
              OrElse(responses["verifier"], [p \in {q} |-> Definition(OracleOf(q), ThePosition[HandleOf(q)])])
         /\ q \notin DOMAIN responses["verifier"]
<1> DEFINE handles == <<queries[q].position>>
           known   == PositionsWith("verifier", handles)
           x       == known[queries[q].position]
           at      == <<queries[q].oracle, x>>
           reads   == Oracles \intersect ReadFor("verifier", at[1], at[2])
           found   == \A o \in reads : RealAt("verifier", at[2])[o] # None
           cache   == EvaluationsWith("verifier", {at})
           given   == ResponsesWith("verifier", {q}, known)
<1>1. /\ positions' = [positions EXCEPT !["verifier"] = known]
      /\ refused' = ~found
      /\ evaluations' = IF ~found THEN evaluations ELSE [evaluations EXCEPT !["verifier"] = cache]
      /\ responses' = IF ~found THEN responses ELSE [responses EXCEPT !["verifier"] = given]
  BY DEF VerifierObtainsResponse
<1>2. /\ squeezes' = squeezes /\ challenges' = challenges /\ contents' = contents
      /\ recorded' = recorded /\ transcript' = transcript
  BY DEF VerifierObtainsResponse
<1>3. /\ transcript # None /\ CarefulToEvaluate("verifier", OracleOf(q))
      /\ CarefulToSqueeze("verifier", handles) /\ q \notin DOMAIN responses["verifier"]
  BY DEF VerifierObtainsResponse, Running, OracleOf
<1>4. handles \in Seq(PositionHandles) /\ Wanted(handles) = PositionsBelow[HandleOf(q)]
      /\ HandleOf(q) \in PositionHandles /\ OracleOf(q) \in OracleHandles
  BY QueryType, OneWanted DEF HandleOf
<1>5. "verifier" \in Programs /\ "prover" \in Programs
  BY DEF Programs
<1> HIDE DEF handles, x, at, reads, found, cache, given
<1>6. /\ RightPositions(known)
      /\ \A p \in DOMAIN known : known[p] = ThePosition[p]
      /\ DOMAIN known = DOMAIN positions["verifier"] \union PositionsBelow[HandleOf(q)]
  <2>1. OraclesTypeInv /\ PositionsInv
    BY InvariantNow
  <2>2. /\ RightPositions(known)
        /\ \A p \in DOMAIN known : known[p] = ThePosition[p]
        /\ DOMAIN known = DOMAIN positions["verifier"] \union Wanted(handles)
    BY <1>3, <1>4, <1>5, <2>1, PositionsStayRight
  <2> HIDE DEF known
  <2> QED BY <1>4, <2>2
<1> HIDE DEF known
<1>7. x = ThePosition[HandleOf(q)]
  BY <1>4, <1>6, PositionsBelowEquation DEF HandleOf, x
<1>8. /\ x \in Positions
      /\ RealIsThere("verifier", OracleOf(q), x) /\ ChallengesAreSet("verifier", OracleOf(q))
      /\ \A o \in Oracles \intersect ReadFor("verifier", OracleOf(q), x) : RealAt("verifier", x)[o] # None
  <2>1. LET y == ThePosition[HandleOf(q)]
        IN /\ y \in Positions
           /\ RealIsThere("verifier", OracleOf(q), y) /\ ChallengesAreSet("verifier", OracleOf(q))
           /\ \A o \in Oracles \intersect ReadFor("verifier", OracleOf(q), y) : RealAt("verifier", y)[o] # None
    BY <1>3, VerifierMayEvaluate
  <2> QED BY <1>7, <2>1
<1>9. at = <<OracleOf(q), x>> /\ at[1] = OracleOf(q) /\ at[2] = x
  BY DEF OracleOf, at
<1>10. found
  BY <1>8, <1>9 DEF found, reads
<1>11. MayEvaluate("verifier", {at})
  BY <1>4, <1>8, <1>9 DEF MayEvaluate
<1>12. CurrentCache(cache)
  BY <1>5, <1>11, InvariantNow, EvaluationsStayCurrent DEF cache
<1>13. Evaluation("verifier", OracleOf(q), x) = Definition(OracleOf(q), x)
  <2>1. OracleOf(q) \in ReadFor("verifier", OracleOf(q), x)
    BY <1>4, ReadForIsReadUpTo, ReadUpToOnward
  <2> QED BY <1>4, <1>5, <1>8, <2>1, InvariantNow, EvaluationIsDefinition
<1>14. given = OrElse(responses["verifier"], [p \in {q} |-> Definition(OracleOf(q), x)])
  <2>1. given = OrElse(responses["verifier"],
                       [p \in {q} |-> Evaluation("verifier", queries[p].oracle, known[queries[p].position])])
    BY DEF ResponsesWith, given
  <2>2. \A p \in {q} : Evaluation("verifier", queries[p].oracle, known[queries[p].position])
                         = Definition(OracleOf(q), x)
    BY <1>13 DEF x, OracleOf
  <2> DEFINE new == [p \in {q} |-> Evaluation("verifier", queries[p].oracle, known[queries[p].position])]
  <2>3. new = [p \in {q} |-> Definition(OracleOf(q), x)]
    BY <2>2
  <2> QED BY <2>1, <2>3
<1>15. /\ refused' = FALSE
       /\ evaluations' = [evaluations EXCEPT !["verifier"] = cache]
       /\ responses' = [responses EXCEPT !["verifier"] = given]
  BY <1>1, <1>10
<1>16. /\ DOMAIN positions' = Programs /\ DOMAIN evaluations' = Programs /\ DOMAIN responses' = Programs
       /\ positions'["verifier"] = known /\ positions'["prover"] = positions["prover"]
       /\ evaluations'["verifier"] = cache /\ evaluations'["prover"] = evaluations["prover"]
       /\ responses'["verifier"] = given /\ responses'["prover"] = responses["prover"]
  BY <1>1, <1>5, <1>15, InvariantNow
<1>17. \A p \in Programs : p = "prover" \/ p = "verifier"
  BY DEF Programs
<1>18. \A p \in Programs : RightPositions(positions'[p])
  BY <1>6, <1>16, <1>17, InvariantNow
<1>19. \A p \in Programs : CurrentCache(evaluations'[p])
  BY <1>12, <1>16, <1>17, InvariantNow
<1>20. OraclesInv'
  BY <1>2, <1>15, <1>16, <1>18, <1>19, InvariantNow, InvariantAfter
<1>21. responses'["verifier"] =
         OrElse(responses["verifier"], [p \in {q} |-> Definition(OracleOf(q), ThePosition[HandleOf(q)])])
  BY <1>7, <1>14, <1>16
<1>22. \A p \in DOMAIN positions'["verifier"] :
         p \in DOMAIN positions["verifier"] \/ p \in PositionsBelow[HandleOf(q)]
  BY <1>6, <1>16
<1> QED BY <1>3, <1>16, <1>20, <1>21, <1>22

\* Every step keeps the invariant.
LEMMA NextKeeps ==
  ASSUME CarefulCallers, OraclesInv, [Next]_vars
  PROVE  OraclesInv'
<1>1. "prover" \in Programs /\ "verifier" \in Programs
  BY DEF Programs
<1>2. CASE \E v \in Challenged : SetChallenge("prover", v) \/ SetChallenge("verifier", v)
  BY <1>1, <1>2, SetChallengeKeeps
<1>3. CASE \E h \in OracleHandles : GetOracleEvaluations(h)
  BY <1>3, GetOracleEvaluationsKeeps
<1>4. CASE \E h \in OracleHandles, x \in Positions, record \in BOOLEAN :
             GetOracleEvaluationAtPoint(h, x, record)
  BY <1>4, GetOracleEvaluationAtPointKeeps
<1>5. CASE \E p \in PositionHandles : ObtainQueryPosition("prover", p) \/ ObtainQueryPosition("verifier", p)
  BY <1>1, <1>5, ObtainQueryPositionKeeps
<1>6. CASE \E q \in Queries : ProverObtainsResponse(q)
  BY <1>6, ProverObtainsResponseKeeps
<1>7. CASE GetTranscript
  BY <1>7, GetTranscriptKeeps
<1>8. CASE \E q \in Queries : VerifierObtainsResponse(q)
  BY <1>8, VerifierObtainsResponseKeeps
<1>9. CASE UNCHANGED vars
  BY <1>9, StutteringKeeps
<1> QED BY <1>2, <1>3, <1>4, <1>5, <1>6, <1>7, <1>8, <1>9 DEF Next, ProverStep, VerifierStep

\* The invariant of obtain_query_position, the caches of iop.tcc and what bcs_prover records.
THEOREM OraclesInvariant == ASSUME CarefulCallers PROVE Spec => []OraclesInv
<1>1. Init => OraclesInv
  BY InitIsCurrent
<1>2. OraclesInv /\ [Next]_vars => OraclesInv'
  BY NextKeeps
<1> QED BY <1>1, <1>2, PTL DEF Spec

\* No cache of evaluations or of contents (iop.tcc) goes stale while challenges are set.
THEOREM CachesStayCurrent == ASSUME CarefulCallers PROVE Spec => []CachesAreCurrent
<1>1. OraclesInv => CachesAreCurrent
  BY InvariantNow DEF CachesAreCurrent, CurrentCache, CurrentContents
<1> QED BY <1>1, OraclesInvariant, PTL

\* get_transcript opens every tree wherever a query reaches one of its oracles.
THEOREM TranscriptAnswers == ASSUME CarefulCallers PROVE Spec => []TranscriptAnswersEveryQuery
<1>1. OraclesInv => TranscriptAnswersEveryQuery
  BY InvariantNow DEF TranscriptAnswersEveryQuery, Opened, OracleOf, HandleOf
<1> QED BY <1>1, OraclesInvariant, PTL

\* The verifier never throws: nothing it asks for is "unavailable in the proof".
THEOREM NothingIsUnavailable == ASSUME CarefulCallers PROVE Spec => [](refused = FALSE)
<1>1. OraclesInv => refused = FALSE
  BY InvariantNow
<1> QED BY <1>1, OraclesInvariant, PTL

-----------------------------------------------------------------------------
(***************************************************************************)
(* The refinement of OracleAccess.                                         *)
(***************************************************************************)
\* The positions obtained so far, by anybody, and what they are.
Obtained == DOMAIN positions["prover"] \union DOMAIN positions["verifier"]
Decided  == OrElse(positions["prover"], positions["verifier"])

\* The positions that anybody has obtained are everybody's.
DecidedForAll ==
  /\ Decided = [h \in Obtained |-> ThePosition[h]]
  /\ Obtained \subseteq PositionHandles
  /\ Decided \in [Obtained -> Positions]

\* The invariant says so.
LEMMA DecidedPositions == OraclesInv => DecidedForAll
<1> SUFFICES ASSUME OraclesInv PROVE DecidedForAll
  OBVIOUS
<1> DEFINE f == positions["prover"]
           g == positions["verifier"]
<1>1. /\ \A h \in DOMAIN f : h \in PositionHandles /\ f[h] = ThePosition[h]
      /\ \A h \in DOMAIN g : h \in PositionHandles /\ g[h] = ThePosition[h]
  BY InvariantNow, RightPositionsType DEF Programs
<1>2. Obtained = DOMAIN f \union DOMAIN g
  BY DEF Obtained
<1>3. Decided = [h \in DOMAIN f \union DOMAIN g |-> IF h \in DOMAIN f THEN f[h] ELSE g[h]]
  BY Zenon DEF Decided, OrElse
<1> HIDE DEF f, g
<1>4. \A h \in Obtained : h \in PositionHandles /\ Decided[h] = ThePosition[h]
  BY <1>1, <1>2, <1>3
<1>5. Decided = [h \in Obtained |-> ThePosition[h]]
  BY <1>2, <1>3, <1>4
<1>6. \A h \in Obtained : ThePosition[h] \in Positions
  BY <1>4, InvariantNow, ThePositionType DEF OraclesTypeInv
<1> QED BY <1>4, <1>5, <1>6 DEF DecidedForAll

\* And so in the next state.
LEMMA DecidedPositionsNext == OraclesInv' => DecidedForAll'
BY DecidedPositions, PTL

\* Obtaining positions forgets none.
LEMMA PositionsGrow ==
  \A program, handles : DOMAIN positions[program] \subseteq DOMAIN PositionsWith(program, handles)
BY DEF PositionsWith, OrElse

\* A step after which more positions may be known, and the verifier has no more answers,
\* decides positions.
LEMMA MorePositionsDecide ==
  ASSUME OraclesInv, OraclesInv', squeezes' = squeezes,
         responses'["verifier"] = responses["verifier"],
         DOMAIN positions["prover"] \subseteq DOMAIN positions'["prover"],
         DOMAIN positions["verifier"] \subseteq DOMAIN positions'["verifier"]
  PROVE  Access!Decide
<1>1. /\ Decided = [h \in Obtained |-> ThePosition[h]]
      /\ Decided' = [h \in Obtained' |-> ThePosition[h]]
      /\ Obtained' \subseteq PositionHandles
      /\ Decided' \in [Obtained' -> Positions]
  <2>1. /\ Decided' = [h \in Obtained' |-> ThePosition'[h]]
        /\ Obtained' \subseteq PositionHandles
        /\ Decided' \in [Obtained' -> Positions]
    BY DecidedPositionsNext DEF DecidedForAll
  <2> QED BY <2>1, DecidedPositions, ThePositionStays DEF DecidedForAll
<1>2. Obtained \subseteq Obtained'
  BY DEF Obtained
<1>3. \E known \in SUBSET PositionHandles : Decided' \in [known -> Positions]
  BY <1>1
<1>4. DOMAIN Decided \subseteq DOMAIN Decided' /\ \A h \in DOMAIN Decided : Decided'[h] = Decided[h]
  BY <1>1, <1>2
<1> QED BY <1>3, <1>4 DEF Access!Decide, Access!Extends, Access!PositionsOf, Decided

\* Sets of positions are as they were after a step that does not obtain any.
LEMMA StepsDecide ==
  ASSUME CarefulCallers, OraclesInv, OraclesInv', [Next]_vars,
         ~\E q \in Queries : VerifierObtainsResponse(q)
  PROVE  Access!Decide
<1> SUFFICES /\ squeezes' = squeezes
             /\ responses'["verifier"] = responses["verifier"]
             /\ \A p \in Programs : DOMAIN positions[p] \subseteq DOMAIN positions'[p]
  BY MorePositionsDecide DEF Programs
<1>1. DOMAIN positions = Programs /\ DOMAIN responses = Programs
  BY InvariantNow
<1>2. ASSUME NEW program \in Programs, NEW handles,
             positions' = [positions EXCEPT ![program] = PositionsWith(program, handles)]
      PROVE  \A p \in Programs : DOMAIN positions[p] \subseteq DOMAIN positions'[p]
  <2> SUFFICES ASSUME NEW p \in Programs
               PROVE  DOMAIN positions[p] \subseteq DOMAIN positions'[p]
    OBVIOUS
  <2>1. CASE p = program
    <3>1. positions'[p] = PositionsWith(program, handles)
      BY <1>1, <1>2, <2>1
    <3> QED BY <2>1, <3>1, PositionsGrow
  <2>2. CASE p # program
    BY <1>1, <1>2, <2>2
  <2> QED BY <2>1, <2>2
<1>3. ASSUME NEW given, responses' = [responses EXCEPT !["prover"] = given]
      PROVE  responses'["verifier"] = responses["verifier"]
  BY <1>1, <1>3 DEF Programs
<1>4. "prover" \in Programs /\ "verifier" \in Programs
  BY DEF Programs
<1>5. CASE \E v \in Challenged : SetChallenge("prover", v) \/ SetChallenge("verifier", v)
  BY <1>5 DEF SetChallenge
<1>6. CASE \E h \in OracleHandles : GetOracleEvaluations(h)
  BY <1>6 DEF GetOracleEvaluations
<1>7. CASE \E h \in OracleHandles, x \in Positions, record \in BOOLEAN :
             GetOracleEvaluationAtPoint(h, x, record)
  BY <1>7 DEF GetOracleEvaluationAtPoint
<1>8. CASE \E p \in PositionHandles : ObtainQueryPosition("prover", p) \/ ObtainQueryPosition("verifier", p)
  <2>1. PICK p \in PositionHandles : ObtainQueryPosition("prover", p) \/ ObtainQueryPosition("verifier", p)
    BY <1>8
  <2>2. squeezes' = squeezes /\ responses' = responses
    BY <2>1 DEF ObtainQueryPosition
  <2>3. \E program \in Programs : positions' = [positions EXCEPT ![program] = PositionsWith(program, <<p>>)]
    BY <1>4, <2>1 DEF ObtainQueryPosition
  <2> QED BY <1>2, <2>2, <2>3
<1>9. CASE \E q \in Queries : ProverObtainsResponse(q)
  <2>1. PICK q \in Queries : ProverObtainsResponse(q)
    BY <1>9
  <2>2. /\ squeezes' = squeezes
        /\ \E handles : positions' = [positions EXCEPT !["prover"] = PositionsWith("prover", handles)]
        /\ \E given : responses' = [responses EXCEPT !["prover"] = given]
    BY <2>1 DEF ProverObtainsResponse
  <2> QED BY <1>2, <1>3, <1>4, <2>2
<1>10. CASE GetTranscript
  <2>1. /\ squeezes' = squeezes
        /\ \E handles : positions' = [positions EXCEPT !["prover"] = PositionsWith("prover", handles)]
        /\ \E given : responses' = [responses EXCEPT !["prover"] = given]
    BY <1>10 DEF GetTranscript
  <2> QED BY <1>2, <1>3, <1>4, <2>1
<1>11. CASE UNCHANGED vars
  BY <1>11 DEF vars
<1> QED BY <1>5, <1>6, <1>7, <1>8, <1>9, <1>10, <1>11 DEF Next, ProverStep, VerifierStep

\* The verifier's answer is the one of an oracle that anybody may ask.
LEMMA AnswersAnswer ==
  ASSUME CarefulCallers, OraclesInv, OraclesInv', NEW q \in Queries, VerifierObtainsResponse(q)
  PROVE  Access!Answer(q)
<1>1. /\ positions'["prover"] = positions["prover"]
      /\ \A p \in DOMAIN positions'["verifier"] :
           p \in DOMAIN positions["verifier"] \/ p \in PositionsBelow[HandleOf(q)]
      /\ responses'["verifier"] =
           OrElse(responses["verifier"], [p \in {q} |-> Definition(OracleOf(q), ThePosition[HandleOf(q)])])
      /\ q \notin DOMAIN responses["verifier"]
  BY VerifierObtainsResponseKeeps
<1>2. DOMAIN positions["verifier"] \subseteq DOMAIN positions'["verifier"] /\ squeezes' = squeezes
  <2>1. positions' = [positions EXCEPT !["verifier"] = PositionsWith("verifier", <<queries[q].position>>)]
        /\ squeezes' = squeezes
    BY DEF VerifierObtainsResponse
  <2>2. positions'["verifier"] = PositionsWith("verifier", <<queries[q].position>>)
    BY <2>1, InvariantNow DEF Programs
  <2> QED BY <2>1, <2>2, PositionsGrow
<1>3. PositionsBelow[HandleOf(q)] \subseteq DOMAIN positions["prover"] /\ HandleOf(q) \in PositionsBelow[HandleOf(q)]
  <2>1. transcript # None
    BY DEF VerifierObtainsResponse, Running
  <2> QED BY <2>1, InvariantNow, QueryType, PositionsBelowEquation DEF Opened
<1>4. Obtained' = Obtained /\ HandleOf(q) \in Obtained
  BY <1>1, <1>2, <1>3 DEF Obtained
<1>5. Decided' = Decided /\ Decided[HandleOf(q)] = ThePosition[HandleOf(q)] /\ HandleOf(q) \in DOMAIN Decided
  <2>1. ThePosition' = ThePosition
    BY <1>2, ThePositionStays
  <2>2. /\ Decided' = [h \in Obtained' |-> ThePosition'[h]]
        /\ Decided = [h \in Obtained |-> ThePosition[h]]
    BY DecidedPositions, DecidedPositionsNext DEF DecidedForAll
  <2> QED BY <1>4, <2>1, <2>2
<1> DEFINE old == responses["verifier"]
           val == Definition(OracleOf(q), ThePosition[HandleOf(q)])
<1>6. responses'["verifier"] = [p \in DOMAIN old \union {q} |-> IF p \in DOMAIN old THEN old[p] ELSE [r \in {q} |-> val][p]]
  BY <1>1, Zenon DEF OrElse
<1> HIDE DEF old, val
<1>7. responses'["verifier"] = [p \in DOMAIN old \union {q} |-> IF p = q THEN val ELSE old[p]]
  <2>1. q \notin DOMAIN old
    BY <1>1 DEF old
  <2> QED BY <1>6, <2>1
<1>8. responses'["verifier"] =
        [p \in DOMAIN responses["verifier"] \union {q} |->
           IF p = q THEN Definition(OracleOf(q), Decided[HandleOf(q)]) ELSE responses["verifier"][p]]
  <2>1. val = Definition(OracleOf(q), Decided[HandleOf(q)])
    BY <1>5 DEF val
  <2> QED BY <1>7, <2>1, Zenon DEF old
<1>9. HandleOf(q) \in DOMAIN Decided /\ q \notin DOMAIN responses["verifier"] /\ Decided' = Decided
  BY <1>1, <1>5
<1> QED BY <1>8, <1>9, Zenon DEF Access!Answer, Decided

\* What the verifier hears with the transcript alone is what it would hear with access to the
\* oracles (obtain_query_response of iop.tcc, over bcs_prover and bcs_verifier).
THEOREM OraclesRefinement == ASSUME CarefulCallers PROVE Spec => ImplementsOracleAccess
<1>1. Init => Access!Init
  <2> SUFFICES ASSUME Init PROVE Access!Init
    OBVIOUS
  <2>1. positions["prover"] = << >> /\ positions["verifier"] = << >> /\ responses["verifier"] = << >>
    BY DEF Init, Programs
  <2>2. DOMAIN << >> = {}
    OBVIOUS
  <2>3. OrElse(<< >>, << >>) \in [{} -> Positions] /\ << >> \in [{} -> {}]
    BY <2>2 DEF OrElse
  <2> QED BY <2>1, <2>3, Zenon DEF Access!Init, Access!PositionsOf
<1>2. OraclesInv /\ OraclesInv' /\ [Next]_vars => [Access!Next]_(Access!vars)
  <2> SUFFICES ASSUME OraclesInv, OraclesInv', [Next]_vars PROVE Access!Next
    OBVIOUS
  <2>1. CASE \E q \in Queries : VerifierObtainsResponse(q)
    BY <2>1, AnswersAnswer DEF Access!Next
  <2>2. CASE ~\E q \in Queries : VerifierObtainsResponse(q)
    BY <2>2, StepsDecide DEF Access!Next
  <2> QED BY <2>1, <2>2
<1> QED BY <1>1, <1>2, OraclesInvariant, PTL DEF Spec, ImplementsOracleAccess, Access!Spec
==============================================================================
