------------------------- MODULE InstantRunoffProofs -------------------------
(***************************************************************************)
(* Proofs about InstantRunoff, for any number of candidates, any rankings  *)
(* and tables, any lots and any number of ballots.                         *)
(*                                                                         *)
(* The argument: moving ballots from ranking to ranking keeps every        *)
(* counter at the number of cast ballots that read so without the          *)
(* eliminated candidates.  So the first places that the circuit counts are *)
(* those of the ballots as cast, and the rest is about minima over a pool. *)
(***************************************************************************)
EXTENDS InstantRunoff, LibraryFacts

\* Every counter, every history entry and every set has its type and its bound.
TypeOK ==
  /\ tally \in [Positions -> Nat] /\ SumAt(tally, Positions) <= MaxBallots
  /\ currentTally \in [Positions -> Nat]
  /\ eliminatedCandidates \in SUBSET Candidates
  /\ votesHistory \in Seq([Candidates -> 0..MaxBallots])
  /\ round <= Rounds /\ Cardinality(eliminatedCandidates) <= round

\* Every ballot reads like one of the positions once the eliminated are struck out.
BallotsHaveAPosition ==
  \A s \in Positions : \E p \in Positions : Among(remaining, preference[s]) = preference[p]

\* The inductive invariant.
IInv ==
  /\ TypeOK
  /\ BallotsHaveAPosition
  /\ TallyIsTheBallotsStruck
  /\ MajorityCandidateStays

\* Ballot s counts for c: c is in the race and s names nobody in the race before c.
Supports(s, c) ==
  /\ c \in remaining /\ <<c, c>> \in preference[s]
  /\ \A d \in remaining : <<d, c>> \in preference[s] => d = c
-----------------------------------------------------------------------------
\* Candidates, positions and the rounds are finite in number.
LEMMA Finite ==
  /\ IsFiniteSet(Candidates) /\ Cardinality(Candidates) = nCand
  /\ IsFiniteSet(Positions)
  /\ Rounds \in Nat /\ Rounds <= nCand - 1
<1>1. IsFiniteSet(Candidates) /\ Cardinality(Candidates) = nCand
  BY InstantRunoffAssumption, FS_Interval DEF Candidates
<1>2. IsFiniteSet(Positions)
  BY InstantRunoffAssumption, FS_Interval DEF Positions
<1> QED BY <1>1, <1>2, InstantRunoffAssumption DEF Rounds

\* SumAt leaves out the counters that are zero; the sum is that of all.
LEMMA SumAtIsSum ==
  ASSUME NEW f \in [Positions -> Nat], NEW P \in SUBSET Positions
  PROVE  IsFiniteSet(P) /\ SumAt(f, P) = Sum(f, P) /\ Sum(f, P) \in Nat
<1>1. IsFiniteSet(P)
  BY Finite, FS_Subset
<1>2. SumAt(f, P) = Sum(f, {p \in P : f[p] > 0})
  BY DEF SumAt, Sum
<1> QED BY <1>1, <1>2, SumSupport, SumType

\* What a ranking says is an order of the candidates it names.
LEMMA PreferenceOrders ==
  ASSUME NEW s \in Positions
  PROVE  /\ preference[s] \in SUBSET (Candidates \X Candidates)
         /\ \A c, d : /\ <<c, c>> \in preference[s] /\ <<d, d>> \in preference[s]
                      => <<c, d>> \in preference[s] \/ <<d, c>> \in preference[s]
         /\ \A c, d : <<d, c>> \in preference[s]
                      => <<c, c>> \in preference[s] /\ <<d, d>> \in preference[s]
<1> DEFINE r == rankingAt[s]
<1>1. preference[s] = {pair \in Candidates \X Candidates :
                         \E i, j \in 1..Len(r) : i <= j /\ pair = <<r[i], r[j]>>}
  BY DEF preference
<1>2. r \in Seq(Candidates) /\ Len(r) \in Nat
  BY InstantRunoffAssumption
<1> HIDE DEF r
<1>3. \A i, j \in 1..Len(r) : i <= j => <<r[i], r[j]>> \in preference[s]
  BY <1>1, <1>2
<1>4. \A c, d : <<c, d>> \in preference[s] =>
        \E i, j \in 1..Len(r) : i <= j /\ c = r[i] /\ d = r[j]
  BY <1>1
<1>5. ASSUME NEW c, NEW d, <<c, c>> \in preference[s], <<d, d>> \in preference[s]
      PROVE  <<c, d>> \in preference[s] \/ <<d, c>> \in preference[s]
  <2>1. PICK i \in 1..Len(r) : c = r[i]
    BY <1>4, <1>5
  <2>2. PICK j \in 1..Len(r) : d = r[j]
    BY <1>4, <1>5
  <2>3. i <= j \/ j <= i
    BY <1>2
  <2> QED BY <1>3, <2>1, <2>2, <2>3
<1>6. ASSUME NEW c, NEW d, <<d, c>> \in preference[s]
      PROVE  <<c, c>> \in preference[s] /\ <<d, d>> \in preference[s]
  <2>1. PICK i \in 1..Len(r), j \in 1..Len(r) : d = r[i] /\ c = r[j]
    BY <1>4, <1>6
  <2>2. i <= i /\ j <= j
    BY <1>2
  <2> QED BY <1>3, <2>1, <2>2
<1> QED BY <1>1, <1>5, <1>6

\* The table lists for c the positions that name c, and nobody before c.
LEMMA FirstRanked ==
  ASSUME NEW c \in Candidates, NEW p \in Positions
  PROVE  p \in getFirstRankedPos[c] <=> /\ <<c, c>> \in preference[p]
                                        /\ \A d : <<d, c>> \in preference[p] => d = c
<1> DEFINE r == rankingAt[p]
<1>1. r \in Seq(Candidates) /\ IsInjective(r)
  BY InstantRunoffAssumption
<1>2. preference[p] = {pair \in Candidates \X Candidates :
                         \E i, j \in 1..Len(r) : i <= j /\ pair = <<r[i], r[j]>>}
  BY DEF preference
<1>3. p \in getFirstRankedPos[c] <=> Len(r) > 0 /\ r[1] = c
  BY InstantRunoffAssumption
<1> HIDE DEF r
<1>4. \A i \in 1..Len(r) : r[i] \in Candidates
  BY <1>1
<1>5. ASSUME Len(r) > 0, r[1] = c
      PROVE  <<c, c>> \in preference[p] /\ \A d : <<d, c>> \in preference[p] => d = c
  <2>1. 1 \in 1..Len(r)
    BY <1>1, <1>5
  <2>2. <<c, c>> \in preference[p]
    BY <1>2, <1>5, <2>1
  <2>3. ASSUME NEW d, <<d, c>> \in preference[p] PROVE d = c
    <3>1. PICK i \in 1..Len(r), j \in 1..Len(r) : i <= j /\ d = r[i] /\ c = r[j]
      BY <1>2, <2>3
    <3>2. j = 1
      BY <1>1, <1>5, <2>1, <3>1 DEF IsInjective
    <3> QED BY <1>5, <3>1, <3>2
  <2> QED BY <2>2, <2>3
<1>6. ASSUME <<c, c>> \in preference[p], \A d : <<d, c>> \in preference[p] => d = c
      PROVE  Len(r) > 0 /\ r[1] = c
  <2>1. PICK j \in 1..Len(r) : c = r[j]
    BY <1>2, <1>6
  <2>2. 1 \in 1..Len(r) /\ 1 <= j /\ Len(r) > 0
    BY <1>1, <2>1
  <2>3. <<r[1], c>> \in preference[p]
    BY <1>2, <1>4, <2>1, <2>2
  <2> QED BY <1>6, <2>2, <2>3
<1> QED BY <1>3, <1>5, <1>6

\* A ballot counts for at most one candidate.
LEMMA SupportsOne ==
  ASSUME NEW s \in Positions, NEW c, NEW d, Supports(s, c), Supports(s, d)
  PROVE  c = d
BY PreferenceOrders DEF Supports

\* As long as c is in the race, a ballot that ranks c first counts for c.
LEMMA FirstRankedSupports ==
  ASSUME NEW c \in remaining, NEW s \in getFirstRankedPos[c]
  PROVE  s \in Positions /\ Supports(s, c)
<1>1. c \in Candidates
  BY DEF remaining
<1>2. s \in Positions
  BY <1>1, InstantRunoffAssumption
<1> QED BY <1>1, <1>2, FirstRanked DEF Supports

-----------------------------------------------------------------------------
\* The ballots that read like p without the eliminated: p names nobody eliminated.
LEMMA ReadsLike ==
  ASSUME NEW s \in Positions, NEW p \in Positions,
         Among(remaining, preference[s]) = preference[p], NEW c \in Candidates
  PROVE  p \in getFirstRankedPos[c] <=> Supports(s, c)
<1>1. \A d, e : <<d, e>> \in preference[p] <=>
                  <<d, e>> \in preference[s] /\ d \in remaining /\ e \in remaining
  BY DEF Among
<1>2. p \in getFirstRankedPos[c] <=> /\ <<c, c>> \in preference[p]
                                     /\ \A d : <<d, c>> \in preference[p] => d = c
  BY FirstRanked
<1> QED BY <1>1, <1>2 DEF Supports

\* The counters of some positions together are the cast ballots that read like one of them.
LEMMA CountersAreBallots ==
  ASSUME TypeOK, BallotsHaveAPosition, TallyIsTheBallotsStruck,
         NEW P \in SUBSET Positions, NEW U \in SUBSET Positions,
         \A s \in Positions :
           s \in U <=> \E p \in P : Among(remaining, preference[s]) = preference[p]
  PROVE  SumAt(currentTally, P) = Sum(tally, U)
<1> DEFINE reads(s, p) == Among(remaining, preference[s]) = preference[p]
           at == [s \in Positions |-> CHOOSE p \in Positions : reads(s, p)]
           pile == [p \in P |-> {s \in Positions : at[s] = p}]
<1>1. \A s \in Positions : at[s] \in Positions /\ reads(s, at[s])
  BY DEF BallotsHaveAPosition
<1>2. \A s, p \in Positions : reads(s, p) <=> at[s] = p
  <2> SUFFICES ASSUME NEW s \in Positions, NEW p \in Positions
               PROVE  reads(s, p) <=> at[s] = p
    OBVIOUS
  <2>1. reads(s, p) => preference[p] = preference[at[s]]
    BY <1>1
  <2>2. preference[p] = preference[at[s]] => p = at[s]
    BY <1>1, InstantRunoffAssumption DEF IsInjective, preference
  <2> QED BY <1>1, <2>1, <2>2
<1> HIDE DEF at
<1>3. tally \in [Positions -> Nat] /\ currentTally \in [Positions -> Nat]
  BY DEF TypeOK
<1>4. \A p \in P : currentTally[p] = Sum(tally, pile[p])
  <2> SUFFICES ASSUME NEW p \in P PROVE currentTally[p] = Sum(tally, pile[p])
    OBVIOUS
  <2>1. {s \in Positions : reads(s, p)} = pile[p] /\ pile[p] \in SUBSET Positions
    BY <1>2
  <2>2. currentTally[p] = SumAt(tally, {s \in Positions : reads(s, p)})
    BY DEF TallyIsTheBallotsStruck
  <2>3. currentTally[p] = SumAt(tally, pile[p])
    BY <2>1, <2>2, Zenon
  <2> QED BY <1>3, <2>1, <2>3, SumAtIsSum
<1>5. IsFiniteSet(P) /\ IsFiniteSet(Positions) /\ \A s \in Positions : tally[s] \in Nat
  BY <1>3, Finite, FS_Subset
<1>6. pile \in [P -> SUBSET Positions]
      /\ \A p, q \in P : p # q => pile[p] \intersect pile[q] = {}
  OBVIOUS
<1>7. \A s \in Positions : s \in U <=> \E p \in P : s \in pile[p]
  BY <1>2
<1> HIDE DEF pile
<1>8. Sum(currentTally, P) = Sum(tally, U)
  BY <1>4, <1>5, <1>6, <1>7, SumFamily
<1> QED BY <1>3, <1>8, SumAtIsSum

\* The first places that the circuit counts in the tally it has moved are the cast ballots
\* that count for the candidate.
LEMMA VotesAreBallots ==
  ASSUME TypeOK, BallotsHaveAPosition, TallyIsTheBallotsStruck, NEW c \in Candidates
  PROVE  /\ VotesCandRankedFirst(c) = Sum(tally, {s \in Positions : Supports(s, c)})
         /\ VotesCandRankedFirst(c) \in 0..MaxBallots
<1> DEFINE S == {s \in Positions : Supports(s, c)}
<1>1. getFirstRankedPos[c] \in SUBSET Positions
  BY InstantRunoffAssumption
<1>2. \A s \in Positions :
        s \in S <=> \E p \in getFirstRankedPos[c] :
                      Among(remaining, preference[s]) = preference[p]
  BY <1>1, ReadsLike DEF BallotsHaveAPosition
<1>3. VotesCandRankedFirst(c) = Sum(tally, S)
  BY <1>1, <1>2, CountersAreBallots DEF VotesCandRankedFirst
<1>4. tally \in [Positions -> Nat] /\ IsFiniteSet(Positions) /\ S \in SUBSET Positions
  BY Finite DEF TypeOK
<1> HIDE DEF S
<1>5. Sum(tally, S) \in Nat /\ Sum(tally, S) <= Sum(tally, Positions)
  BY <1>4, SumAtIsSum, SumSubset
<1>6. Sum(tally, Positions) <= MaxBallots
  BY <1>4, SumAtIsSum DEF TypeOK
<1>7. Sum(tally, Positions) \in Nat /\ MaxBallots \in Nat
  BY <1>4, SumAtIsSum, InstantRunoffAssumption
<1>8. VotesCandRankedFirst(c) \in 0..MaxBallots
  BY <1>3, <1>5, <1>6, <1>7
<1> QED BY <1>3, <1>8 DEF S
-----------------------------------------------------------------------------
\* Moving the ballots of a candidate keeps every counter at the ballots that read so.
LEMMA MovingBallots ==
  ASSUME TypeOK, BallotsHaveAPosition, TallyIsTheBallotsStruck, NEW c \in Candidates,
         currentTally' = RemoveCandidate(c), UNCHANGED tally,
         eliminatedCandidates' = eliminatedCandidates \union {c}
  PROVE  /\ currentTally' \in [Positions -> Nat]
         /\ BallotsHaveAPosition'
         /\ TallyIsTheBallotsStruck'
<1> DEFINE reads(s, p) == Among(remaining, preference[s]) = preference[p]
           readsAfter(s, p) == Among(remaining', preference[s]) = preference[p]
           to(p) == getCandRemovedPos[p][c]
<1>1. \A p \in Positions : to(p) \in Positions
                           /\ preference[to(p)] = Among(Candidates \ {c}, preference[p])
  <2> SUFFICES ASSUME NEW p \in Positions
               PROVE  /\ to(p) \in Positions
                      /\ preference[to(p)] = Among(Candidates \ {c}, preference[p])
    OBVIOUS
  <2>1. to(p) \in Positions
    BY InstantRunoffAssumption
  <2>2. preference[to(p)] = Among(Candidates \ {c}, preference[p])
    BY InstantRunoffAssumption, Zenon
  <2> QED BY <2>1, <2>2
<1>2. remaining' = remaining \ {c} /\ remaining \in SUBSET Candidates
  BY DEF remaining
<1>3. \A s, p \in Positions : reads(s, p) => readsAfter(s, to(p))
  <2> SUFFICES ASSUME NEW s \in Positions, NEW p \in Positions, reads(s, p)
               PROVE  readsAfter(s, to(p))
    OBVIOUS
  <2>1. Among(remaining', preference[s])
          = Among(Candidates \ {c}, Among(remaining, preference[s]))
    BY <1>2 DEF Among
  <2> QED BY <1>1, <2>1
<1>4. \A s, p, q \in Positions : readsAfter(s, p) /\ readsAfter(s, q) => p = q
  BY InstantRunoffAssumption, ZenonT(40) DEF IsInjective, preference
<1>5. tally \in [Positions -> Nat] /\ currentTally \in [Positions -> Nat]
  BY DEF TypeOK
<1>6. ASSUME NEW p \in Positions
      PROVE  /\ currentTally'[p] \in Nat
             /\ currentTally'[p] = SumAt(tally, {s \in Positions : readsAfter(s, p)})
  <2> DEFINE P == {q \in Positions : to(q) = p}
             U == {s \in Positions : readsAfter(s, p)}
  <2>1. currentTally'[p] = SumAt(currentTally, P)
    BY DEF RemoveCandidate
  <2>2. P \in SUBSET Positions /\ U \in SUBSET Positions
    OBVIOUS
  <2>3. \A s \in Positions : s \in U <=> \E q \in P : reads(s, q)
    <3> SUFFICES ASSUME NEW s \in Positions
                 PROVE  readsAfter(s, p) <=> \E q \in Positions : to(q) = p /\ reads(s, q)
      OBVIOUS
    <3>1. PICK q \in Positions : reads(s, q)
      BY DEF BallotsHaveAPosition
    <3>2. readsAfter(s, to(q)) /\ to(q) \in Positions
      BY <1>1, <1>3, <3>1
    <3>3. readsAfter(s, p) => to(q) = p
      BY <1>4, <3>2
    <3>4. ASSUME NEW u \in Positions, to(u) = p, reads(s, u) PROVE readsAfter(s, p)
      BY <1>3, <3>4
    <3> QED BY <3>1, <3>3, <3>4
  <2> HIDE DEF P, U
  <2>4. SumAt(currentTally, P) = Sum(tally, U)
    BY <2>2, <2>3, CountersAreBallots
  <2>5. SumAt(tally, U) = Sum(tally, U) /\ Sum(tally, U) \in Nat
    BY <1>5, <2>2, SumAtIsSum
  <2> QED BY <2>1, <2>4, <2>5 DEF U
<1>7. currentTally' \in [Positions -> Nat]
  BY <1>6 DEF RemoveCandidate
<1>8. BallotsHaveAPosition'
  BY <1>1, <1>3 DEF BallotsHaveAPosition
<1>9. TallyIsTheBallotsStruck'
  BY <1>6 DEF TallyIsTheBallotsStruck
<1> QED BY <1>7, <1>8, <1>9
-----------------------------------------------------------------------------
\* Votes, history and lots: values below the one that marks a candidate out of the pool.
Values == 0..(2^bits - 2)

\* The bounds of InstantRunoffAssumption, as the comparisons need them.
LEMMA ValuesSuffice ==
  /\ 2^bits \in Int
  /\ 0..MaxBallots \subseteq Values
  /\ Candidates \subseteq Values
BY InstantRunoffAssumption DEF Values, Candidates

\* MinValueAtIdx is the least of the values in the pool.
LEMMA MinimumOfPool ==
  ASSUME NEW in \in [Candidates -> Values], NEW idx \in SUBSET Candidates, idx # {}
  PROVE  /\ \E c \in idx : MinValueAtIdx(in, idx) = in[c]
         /\ \A c \in idx : MinValueAtIdx(in, idx) <= in[c]
         /\ \A c \in Candidates \ idx : ModifiedList(in, idx)[c] # MinValueAtIdx(in, idx)
<1> DEFINE list == ModifiedList(in, idx)
           S == {list[c] : c \in Candidates}
<1>1. 2^bits - 1 \in Int /\ \A v \in Values : v \in Int /\ v < 2^bits - 1
  BY ValuesSuffice DEF Values
<1>2. \A c \in Candidates : list[c] = IF c \in idx THEN in[c] ELSE 2^bits - 1
  BY DEF ModifiedList
<1>3. \A c \in Candidates : in[c] \in Values
  OBVIOUS
<1> HIDE DEF list
<1>4. S \in SUBSET Int
  BY <1>1, <1>2, <1>3
<1>5. IsFiniteSet(S) /\ S # {}
  <2>1. IsFiniteSet(S)
    BY Finite, ImageIsFinite
  <2>2. PICK d \in idx : TRUE
    OBVIOUS
  <2>3. list[d] \in S
    BY <2>2
  <2> QED BY <2>1, <2>3
<1>6. Min(S) \in S /\ \A y \in S : Min(S) <= y
  BY <1>4, <1>5, MinMaxExist
<1>7. MinValueAtIdx(in, idx) = Min(S)
  BY DEF MinValueAtIdx, MinValue, list
<1>8. \A c \in Candidates : Min(S) <= list[c]
  BY <1>6
<1>9. PICK e \in Candidates : Min(S) = list[e]
  BY <1>6
<1> HIDE DEF S
<1>10. Min(S) \in Values /\ e \in idx
  <2>1. PICK d \in idx : TRUE
    OBVIOUS
  <2>2. Min(S) <= in[d] /\ in[d] < 2^bits - 1 /\ in[d] \in Int
    BY <1>1, <1>2, <1>3, <1>8, <2>1
  <2> QED BY <1>1, <1>2, <1>3, <1>9, <2>2
<1>11. \E c \in idx : Min(S) = in[c]
  BY <1>2, <1>9, <1>10
<1>12. \A c \in idx : Min(S) <= in[c]
  BY <1>2, <1>8
<1>13. \A c \in Candidates \ idx : list[c] # Min(S)
  BY <1>1, <1>2, <1>10
<1> QED BY <1>7, <1>11, <1>12, <1>13 DEF list

\* MinimumIndicatorAtIdx marks those in the pool with the least value in it, and nobody else.
LEMMA MinimumIndicators ==
  ASSUME NEW in \in [Candidates -> Values], NEW idx \in SUBSET Candidates, idx # {}
  PROVE  /\ MinimumIndicatorAtIdx(in, idx) \in SUBSET idx
         /\ MinimumIndicatorAtIdx(in, idx) # {}
         /\ \A c \in MinimumIndicatorAtIdx(in, idx), d \in idx :
              /\ in[c] <= in[d]
              /\ in[c] = in[d] => d \in MinimumIndicatorAtIdx(in, idx)
<1> DEFINE M == MinimumIndicatorAtIdx(in, idx)
           least == MinValueAtIdx(in, idx)
<1>1. M = {c \in Candidates : ModifiedList(in, idx)[c] = least}
  BY DEF MinimumIndicatorAtIdx, IdxEqual, MinValueAtIdx
<1>2. \A c \in idx : ModifiedList(in, idx)[c] = in[c]
  BY DEF ModifiedList
<1> HIDE DEF M, least
<1>3. /\ \E c \in idx : least = in[c]
      /\ \A c \in idx : least <= in[c]
      /\ \A c \in Candidates \ idx : ModifiedList(in, idx)[c] # least
  BY MinimumOfPool DEF least
<1>4. M = {c \in idx : in[c] = least}
  BY <1>1, <1>2, <1>3
<1> QED BY <1>3, <1>4 DEF M

\* The lots leave one member of the pool, and the sum of what they leave is that member.
LEMMA LotsDecide ==
  ASSUME NEW pool \in SUBSET Candidates, pool # {}, NEW lot \in Lots
  PROVE  CandToRemove(pool, lot) \in pool
<1> DEFINE M == MinimumIndicatorAtIdx(lot, pool)
<1>1. lot \in [Candidates -> Candidates] /\ IsInjective(lot)
  BY InstantRunoffAssumption DEF Injection
<1>2. lot \in [Candidates -> Values]
  BY <1>1, ValuesSuffice
<1>3. M \in SUBSET pool /\ M # {} /\ \A c \in M, d \in pool : lot[c] <= lot[d]
  BY <1>2, MinimumIndicators
<1>4. PICK c \in M : TRUE
  BY <1>3
<1> HIDE DEF M
<1>5. \A d \in M : d = c
  <2> SUFFICES ASSUME NEW d \in M PROVE d = c
    OBVIOUS
  <2>1. lot[c] <= lot[d] /\ lot[d] <= lot[c] /\ lot[c] \in Nat /\ lot[d] \in Nat
    BY <1>1, <1>3 DEF Candidates
  <2>2. lot[c] = lot[d]
    BY <2>1
  <2> QED BY <1>1, <1>3, <2>2 DEF IsInjective
<1>6. M = {c}
  BY <1>4, <1>5
<1>7. c \in Nat
  BY <1>3, <1>4, InstantRunoffAssumption DEF Candidates
<1>8. SumSet(M) = c
  BY <1>6, <1>7, SumSetOne
<1>9. CandToRemove(pool, lot) = c
  BY <1>8 DEF CandToRemove, M
<1> QED BY <1>3, <1>4, <1>9
-----------------------------------------------------------------------------
\* The look back is a recursion: there is a function of the steps that satisfies it.
LEMMA LookBackRecursion ==
  ASSUME round \in Nat, NEW start
  PROVE  \E pool : /\ ActivePool(start) = pool[round]
                   /\ pool[0] = start
                   /\ \A i \in 1..round :
                        pool[i] = MinimumIndicatorAtIdx(HistoryAt(i), pool[i - 1])
<1> DEFINE step(i, p) == MinimumIndicatorAtIdx(HistoryAt(i), p)
           next(g, n) == [i \in 0..n |-> IF i = 0 THEN start ELSE step(i, g[i - 1])]
           N == {n \in Nat : \E g : g = next(g, n)}
<1> HIDE DEF step
<1>1. 0 \in N
  <2> DEFINE g0 == [i \in 0..0 |-> start]
  <2>1. g0 = next(g0, 0)
    OBVIOUS
  <2> QED BY <2>1
<1>2. ASSUME NEW n \in Nat, n \in N PROVE n + 1 \in N
  <2>1. PICK g : g = next(g, n)
    BY <1>2
  <2> DEFINE h == [i \in 0..(n + 1) |-> IF i = n + 1 THEN step(i, g[n]) ELSE g[i]]
  <2>2. \A i \in 0..n : h[i] = g[i]
    OBVIOUS
  <2>3. \A i \in 0..n : g[i] = IF i = 0 THEN start ELSE step(i, g[i - 1])
    BY <2>1, Zenon
  <2>4. \A i \in 0..(n + 1) : h[i] = IF i = 0 THEN start ELSE step(i, h[i - 1])
    BY <2>2, <2>3
  <2>5. h = [i \in 0..(n + 1) |-> h[i]]
    OBVIOUS
  <2>6. h = next(h, n + 1)
    <3> HIDE DEF h
    <3> QED BY <2>4, <2>5
  <2>7. n + 1 \in Nat
    OBVIOUS
  <2> HIDE DEF h, next
  <2> QED BY <2>6, <2>7
<1> HIDE DEF N
<1>3. round \in N
  BY <1>1, <1>2, NatSetInduction
<1>4. \E g : g = next(g, round)
  BY <1>3 DEF N
<1> DEFINE pool == CHOOSE g : g = next(g, round)
<1>5. ActivePool(start) = pool[round]
  BY DEF ActivePool, step
<1>6. pool = next(pool, round)
  BY <1>4
<1> HIDE DEF pool
<1>7. \A i \in 0..round : pool[i] = IF i = 0 THEN start ELSE step(i, pool[i - 1])
  BY <1>6, Zenon
<1>8. pool[0] = start /\ \A i \in 1..round : pool[i] = step(i, pool[i - 1])
  BY <1>7
<1> QED BY <1>5, <1>8 DEF step

\* The look back leaves those in the pool at the start against whom nobody in it had fewer
\* votes at the latest step in which the two differ.
LEMMA LookBack ==
  ASSUME TypeOK, NEW start \in SUBSET Candidates, start # {}
  PROVE  /\ ActivePool(start) \in SUBSET start
         /\ ActivePool(start) # {}
         /\ \A c \in ActivePool(start), d \in start :
              \/ \A i \in 1..round : HistoryAt(i)[c] = HistoryAt(i)[d]
              \/ \E k \in 1..round : /\ HistoryAt(k)[c] < HistoryAt(k)[d]
                                     /\ \A i \in 1..(k - 1) : HistoryAt(i)[c] = HistoryAt(i)[d]
<1>1. round \in Nat /\ \A i \in 1..round : HistoryAt(i) \in [Candidates -> Values]
  <2>1. round \in Nat
    BY DEF TypeOK, round
  <2> SUFFICES ASSUME NEW i \in 1..round PROVE HistoryAt(i) \in [Candidates -> Values]
    BY <2>1
  <2>2. round + 1 - i \in 1..Len(votesHistory)
    BY <2>1 DEF round
  <2>3. HistoryAt(i) \in [Candidates -> 0..MaxBallots]
    BY <2>2 DEF TypeOK, HistoryAt
  <2> QED BY <2>3, ValuesSuffice
<1>2. PICK pool : /\ ActivePool(start) = pool[round]
                  /\ pool[0] = start
                  /\ \A i \in 1..round :
                       pool[i] = MinimumIndicatorAtIdx(HistoryAt(i), pool[i - 1])
  BY <1>1, LookBackRecursion
<1> DEFINE same(i, c, d) == HistoryAt(i)[c] = HistoryAt(i)[d]
           fewer(k, c, d) == /\ HistoryAt(k)[c] < HistoryAt(k)[d]
                             /\ \A i \in 1..(k - 1) : same(i, c, d)
           holds(n) == /\ pool[n] \in SUBSET start
                       /\ pool[n] # {}
                       /\ \A c \in pool[n], d \in start :
                            \/ d \in pool[n] /\ \A i \in 1..n : same(i, c, d)
                            \/ \E k \in 1..n : fewer(k, c, d)
           N == {n \in Nat : n <= round => holds(n)}
<1>3. 0 \in N
  BY <1>2
<1>4. ASSUME NEW n \in Nat, n \in N PROVE n + 1 \in N
  <2>1. SUFFICES ASSUME n + 1 <= round PROVE holds(n + 1)
    OBVIOUS
  <2>2. holds(n) /\ n + 1 \in 1..round
    BY <1>1, <1>4, <2>1
  <2>3. pool[n + 1] = MinimumIndicatorAtIdx(HistoryAt(n + 1), pool[n])
    BY <1>2, <2>2
  <2> DEFINE H == HistoryAt(n + 1)
  <2>4. H \in [Candidates -> Values] /\ \A c \in Candidates : H[c] \in Int
    BY <1>1, <2>2 DEF Values
  <2>5. pool[n] \in SUBSET Candidates
    BY <2>2
  <2>6. /\ pool[n + 1] \in SUBSET pool[n]
        /\ pool[n + 1] # {}
        /\ \A c \in pool[n + 1], d \in pool[n] : /\ H[c] <= H[d]
                                                 /\ H[c] = H[d] => d \in pool[n + 1]
    BY <2>2, <2>3, <2>4, <2>5, MinimumIndicators
  <2>7. ASSUME NEW c \in pool[n + 1], NEW d \in start
        PROVE  \/ d \in pool[n + 1] /\ \A i \in 1..(n + 1) : same(i, c, d)
               \/ \E k \in 1..(n + 1) : fewer(k, c, d)
    <3>1. c \in pool[n] /\ c \in Candidates /\ d \in Candidates
      BY <2>5, <2>6
    <3>2. CASE \E k \in 1..n : fewer(k, c, d)
      <4>1. PICK k \in 1..n : fewer(k, c, d)
        BY <3>2
      <4> HIDE DEF fewer
      <4>2. k \in 1..(n + 1)
        OBVIOUS
      <4> QED BY <4>1, <4>2
    <3>3. CASE d \in pool[n] /\ \A i \in 1..n : same(i, c, d)
      <4>1. H[c] <= H[d] /\ (H[c] = H[d] => d \in pool[n + 1])
        BY <2>6, <3>3
      <4>2. H[c] \in Int /\ H[d] \in Int
        BY <2>4, <3>1
      <4>3. CASE H[c] = H[d]
        <5>1. \A i \in 1..(n + 1) : i \in 1..n \/ i = n + 1
          OBVIOUS
        <5> QED BY <3>3, <4>1, <4>3, <5>1
      <4>4. CASE H[c] < H[d]
        <5>1. fewer(n + 1, c, d)
          BY <3>3, <4>4
        <5>2. n + 1 \in 1..(n + 1)
          OBVIOUS
        <5> HIDE DEF fewer
        <5> QED BY <5>1, <5>2
      <4> QED BY <4>1, <4>2, <4>3, <4>4
    <3> QED BY <2>2, <3>1, <3>2, <3>3
  <2> QED BY <2>2, <2>6, <2>7
<1> HIDE DEF N
<1>5. round \in N
  BY <1>1, <1>3, <1>4, NatSetInduction
<1>6. holds(round)
  BY <1>1, <1>5 DEF N
<1> QED BY <1>2, <1>6
-----------------------------------------------------------------------------
\* The first places counted in a round.
Votes == [c \in Candidates |-> VotesCandRankedFirst(c)]

\* A round takes c out: of those with the fewest first places, the one that the look back
\* and the lots leave.
Removes(c) ==
  /\ eliminatedCandidates' = eliminatedCandidates \union {c}
  /\ currentTally' = RemoveCandidate(c) /\ UNCHANGED tally
  /\ votesHistory' = Append(votesHistory, Votes)
  /\ \A d \in remaining : Votes[c] <= Votes[d]
  /\ \E d \in remaining : Votes[c] = Votes[d]
  /\ \A d \in Candidates : Votes[d] = Votes[c] =>
       \/ \A i \in 1..round : HistoryAt(i)[c] = HistoryAt(i)[d]
       \/ \E k \in 1..round : /\ HistoryAt(k)[c] < HistoryAt(k)[d]
                              /\ \A i \in 1..(k - 1) : HistoryAt(i)[c] = HistoryAt(i)[d]

\* Before a round, two or more candidates are in the race.
LEMMA SomeoneRemains ==
  ASSUME TypeOK, round < Rounds, NEW c
  PROVE  /\ remaining \in SUBSET Candidates
         /\ \E d \in remaining : d # c
<1>1. IsFiniteSet(eliminatedCandidates) /\ Cardinality(eliminatedCandidates) \in Nat
  BY Finite, FS_Subset, FS_CardinalityType DEF TypeOK
<1>2. round \in Nat /\ Cardinality(eliminatedCandidates) <= round
  BY DEF TypeOK, round
<1>3. Cardinality(eliminatedCandidates \union {c}) <= Cardinality(eliminatedCandidates) + 1
  BY <1>1, FS_AddElement
<1>4. Cardinality(eliminatedCandidates \union {c}) \in Nat
  BY <1>1, FS_AddElement, FS_CardinalityType
<1>5. nCand \in Nat /\ Rounds \in Nat /\ Rounds <= nCand - 1
  BY Finite, InstantRunoffAssumption
<1>6. Cardinality(eliminatedCandidates \union {c}) < Cardinality(Candidates)
  BY <1>1, <1>2, <1>3, <1>4, <1>5, Finite
<1>7. ~(Candidates \subseteq eliminatedCandidates \union {c})
  <2> SUFFICES ASSUME Candidates \subseteq eliminatedCandidates \union {c} PROVE FALSE
    OBVIOUS
  <2>1. IsFiniteSet(eliminatedCandidates \union {c})
    BY <1>1, FS_AddElement
  <2>2. Cardinality(Candidates) <= Cardinality(eliminatedCandidates \union {c})
    BY <2>1, FS_Subset
  <2> QED BY <1>4, <1>5, <1>6, <2>2, Finite
<1> QED BY <1>7 DEF remaining

\* A round removes a candidate in that sense.
LEMMA RoundRemoves ==
  ASSUME IInv, EvaluateRound
  PROVE  \E c \in Candidates : Removes(c)
<1> DEFINE low == IdxEqual(Votes, MinValueAtIdx(Votes, remaining))
           pool == ActivePool(low)
<1>1. PICK lot \in Lots : LET c == CandToRemove(pool, lot)
                          IN /\ currentTally' = RemoveCandidate(c)
                             /\ eliminatedCandidates' = eliminatedCandidates \union {c}
  BY DEF EvaluateRound, Votes
<1>2. votesHistory' = Append(votesHistory, Votes) /\ UNCHANGED tally /\ round < Rounds
  BY DEF EvaluateRound, Votes
<1>3. TypeOK /\ BallotsHaveAPosition /\ TallyIsTheBallotsStruck
  BY DEF IInv
<1>4. Votes \in [Candidates -> Values]
  BY <1>3, VotesAreBallots, ValuesSuffice DEF Votes
<1>5. remaining \in SUBSET Candidates /\ remaining # {}
  BY <1>2, <1>3, SomeoneRemains
<1>6. /\ \E d \in remaining : MinValueAtIdx(Votes, remaining) = Votes[d]
      /\ \A d \in remaining : MinValueAtIdx(Votes, remaining) <= Votes[d]
  BY <1>4, <1>5, MinimumOfPool
<1>7. low = {d \in Candidates : Votes[d] = MinValueAtIdx(Votes, remaining)}
  BY DEF IdxEqual
<1> HIDE DEF low
<1>8. low \in SUBSET Candidates /\ low # {}
  BY <1>5, <1>6, <1>7
<1>9. /\ pool \in SUBSET low
      /\ pool # {}
      /\ \A c \in pool, d \in low :
           \/ \A i \in 1..round : HistoryAt(i)[c] = HistoryAt(i)[d]
           \/ \E k \in 1..round : /\ HistoryAt(k)[c] < HistoryAt(k)[d]
                                  /\ \A i \in 1..(k - 1) : HistoryAt(i)[c] = HistoryAt(i)[d]
  BY <1>3, <1>8, LookBack
<1> DEFINE c == CandToRemove(pool, lot)
<1>10. c \in pool
  <2> HIDE DEF pool
  <2>1. pool \in SUBSET Candidates
    BY <1>8, <1>9
  <2> QED BY <1>9, <2>1, LotsDecide
<1>11. c \in Candidates /\ Votes[c] = MinValueAtIdx(Votes, remaining)
  BY <1>7, <1>9, <1>10
<1>12. \A d \in Candidates : Votes[d] = Votes[c] => d \in low
  BY <1>7, <1>11
<1>13. /\ eliminatedCandidates' = eliminatedCandidates \union {c}
       /\ currentTally' = RemoveCandidate(c)
  BY <1>1
<1> HIDE DEF c, pool
<1>14. /\ \A d \in remaining : Votes[c] <= Votes[d]
       /\ \E d \in remaining : Votes[c] = Votes[d]
  BY <1>6, <1>11
<1>15. \A d \in Candidates : Votes[d] = Votes[c] =>
       \/ \A i \in 1..round : HistoryAt(i)[c] = HistoryAt(i)[d]
       \/ \E k \in 1..round : /\ HistoryAt(k)[c] < HistoryAt(k)[d]
                              /\ \A i \in 1..(k - 1) : HistoryAt(i)[c] = HistoryAt(i)[d]
  BY <1>9, <1>10, <1>12
<1>16. Removes(c)
  BY <1>2, <1>13, <1>14, <1>15 DEF Removes
<1> QED BY <1>11, <1>16
-----------------------------------------------------------------------------
\* While all are in the race, every ranking is read as it stands.
LEMMA NobodyStruck ==
  ASSUME NEW s \in Positions
  PROVE  Among(Candidates, preference[s]) = preference[s]
BY PreferenceOrders DEF Among

\* So a counter is the number of ballots with its ranking.
LEMMA OwnBallots ==
  ASSUME NEW f \in [Positions -> Nat], NEW p \in Positions
  PROVE  SumAt(f, {s \in Positions : Among(Candidates, preference[s]) = preference[p]}) = f[p]
<1> DEFINE S == {s \in Positions : Among(Candidates, preference[s]) = preference[p]}
<1>1. \A s \in Positions : preference[s] = preference[p] => s = p
  BY InstantRunoffAssumption DEF IsInjective, preference
<1>2. S = {p}
  BY <1>1, NobodyStruck
<1> HIDE DEF S
<1>3. Sum(f, {}) = 0 /\ IsFiniteSet({})
  BY SumEquation, FS_EmptySet
<1>4. Sum(f, {} \union {p}) = f[p] + Sum(f, {})
  BY <1>3, SumAdd
<1>5. {} \union {p} = {p}
  OBVIOUS
<1>6. Sum(f, {p}) = f[p]
  BY <1>3, <1>4, <1>5
<1>7. SumAt(f, {p}) = Sum(f, {p})
  BY SumAtIsSum
<1> QED BY <1>2, <1>6, <1>7 DEF S

\* The inductive invariant holds of the empty tally.
LEMMA RunoffInit ==
  ASSUME Init
  PROVE  IInv
<1>1. tally \in [Positions -> Nat] /\ currentTally = tally /\ remaining = Candidates
  BY DEF Init, remaining
<1>2. SumAt(tally, Positions) = 0 /\ 0 <= MaxBallots
  <2>1. SumAt(tally, Positions) = Sum(tally, Positions)
    BY <1>1, SumAtIsSum
  <2>2. Sum(tally, Positions) = 0
    BY Finite, SumZeros DEF Init
  <2> QED BY <2>1, <2>2, InstantRunoffAssumption
<1>3. TypeOK
  BY <1>1, <1>2, Finite, FS_EmptySet DEF Init, TypeOK, round
<1>4. BallotsHaveAPosition
  BY <1>1, NobodyStruck DEF BallotsHaveAPosition
<1>5. TallyIsTheBallotsStruck
  BY <1>1, OwnBallots DEF TallyIsTheBallotsStruck
<1>6. MajorityCandidateStays
  BY <1>1 DEF MajorityCandidateStays, Winners
<1> QED BY <1>3, <1>4, <1>5, <1>6 DEF IInv

\* Counting a ballot keeps the inductive invariant.
LEMMA CountingKeepsIInv ==
  ASSUME IInv, NEW p \in Positions, CountBallot(p)
  PROVE  IInv' /\ remaining = Candidates
<1>1. TypeOK /\ round = 0
  BY DEF IInv, CountBallot
<1>2. eliminatedCandidates = {}
  <2>1. IsFiniteSet(eliminatedCandidates) /\ Cardinality(eliminatedCandidates) \in Nat
    BY <1>1, Finite, FS_Subset, FS_CardinalityType DEF TypeOK
  <2>2. Cardinality(eliminatedCandidates) = 0
    BY <1>1, <2>1 DEF TypeOK
  <2> QED BY <2>1, <2>2, FS_EmptySet
<1>3. remaining = Candidates /\ remaining' = Candidates
  BY <1>2 DEF remaining, CountBallot
<1>4. tally \in [Positions -> Nat] /\ tally' \in [Positions -> Nat] /\ currentTally' = tally'
  BY <1>1 DEF TypeOK, CountBallot
<1>5. SumAt(tally', Positions) <= MaxBallots
  <2>1. tally'[p] = tally[p] + 1 /\ \A s \in Positions \ {p} : tally'[s] = tally[s]
    BY <1>4 DEF CountBallot
  <2>2. Sum(tally', Positions) = Sum(tally, Positions) + 1
    BY <1>4, <2>1, Finite, SumIncrement
  <2>3. SumAt(tally, Positions) = Sum(tally, Positions) /\ Sum(tally, Positions) \in Nat
    BY <1>4, SumAtIsSum
  <2>4. SumAt(tally', Positions) = Sum(tally', Positions)
    BY <1>4, SumAtIsSum
  <2>5. SumAt(tally, Positions) < MaxBallots
    BY DEF CountBallot
  <2> QED BY <2>2, <2>3, <2>4, <2>5, InstantRunoffAssumption
<1>6. TypeOK'
  BY <1>1, <1>4, <1>5 DEF TypeOK, CountBallot, round
<1>7. BallotsHaveAPosition'
  BY <1>3, NobodyStruck DEF BallotsHaveAPosition
<1>8. TallyIsTheBallotsStruck'
  <2> SUFFICES ASSUME NEW q \in Positions
               PROVE  currentTally'[q] = SumAt(tally', {s \in Positions :
                                           Among(Candidates, preference[s]) = preference[q]})
    BY <1>3 DEF TallyIsTheBallotsStruck
  <2> QED BY <1>4, OwnBallots
<1>9. MajorityCandidateStays'
  BY <1>3 DEF MajorityCandidateStays, Winners
<1> QED BY <1>3, <1>6, <1>7, <1>8, <1>9 DEF IInv

\* A candidate with most first places among the ballots has more of them than anybody else
\* in every round, and so is not the one a round removes.
LEMMA MajorityIsNotRemoved ==
  ASSUME IInv, round < Rounds, NEW c \in Candidates, c \in remaining, Removes(c)
  PROVE  ~ (2 * SumAt(tally, getFirstRankedPos[c]) > SumAt(tally, Positions))
<1> DEFINE S(d) == {s \in Positions : Supports(s, d)}
           first == getFirstRankedPos[c]
<1>1. TypeOK /\ BallotsHaveAPosition /\ TallyIsTheBallotsStruck
  BY DEF IInv
<1>2. tally \in [Positions -> Nat] /\ \A s \in Positions : tally[s] \in Nat
  BY <1>1 DEF TypeOK
<1>3. PICK d \in remaining : d # c
  BY <1>1, SomeoneRemains
<1>4. d \in Candidates
  BY DEF remaining
<1>5. Sum(tally, S(c)) <= Sum(tally, S(d))
  BY <1>1, <1>4, VotesAreBallots DEF Removes, Votes
<1>6. S(c) \in SUBSET Positions /\ S(d) \in SUBSET Positions /\ S(c) \intersect S(d) = {}
  BY <1>3, SupportsOne
<1>7. first \in SUBSET S(c)
  BY FirstRankedSupports
<1> HIDE DEF S, first
<1>8. IsFiniteSet(S(c)) /\ IsFiniteSet(S(d)) /\ IsFiniteSet(Positions)
  BY <1>6, Finite, FS_Subset
<1>9. Sum(tally, S(c) \union S(d)) = Sum(tally, S(c)) + Sum(tally, S(d))
  BY <1>2, <1>6, <1>8, SumUnion
<1>10. Sum(tally, S(c) \union S(d)) <= Sum(tally, Positions)
  BY <1>2, <1>6, <1>8, SumSubset
<1>11. Sum(tally, first) <= Sum(tally, S(c))
  BY <1>2, <1>6, <1>7, <1>8, SumSubset
<1>12. /\ Sum(tally, S(c)) \in Nat /\ Sum(tally, S(d)) \in Nat
       /\ Sum(tally, first) \in Nat /\ Sum(tally, Positions) \in Nat
       /\ SumAt(tally, first) = Sum(tally, first)
       /\ SumAt(tally, Positions) = Sum(tally, Positions)
  BY <1>2, <1>6, <1>7, SumAtIsSum
<1>13. ~ (2 * SumAt(tally, first) > SumAt(tally, Positions))
  BY <1>5, <1>9, <1>10, <1>11, <1>12
<1> QED BY <1>13 DEF first

\* A round keeps the inductive invariant.
LEMMA RoundKeepsIInv ==
  ASSUME IInv, round < Rounds, NEW c \in Candidates, Removes(c)
  PROVE  IInv'
<1>1. TypeOK /\ BallotsHaveAPosition /\ TallyIsTheBallotsStruck
  BY DEF IInv
<1>2. /\ currentTally' \in [Positions -> Nat] /\ BallotsHaveAPosition'
      /\ TallyIsTheBallotsStruck'
  BY <1>1, MovingBallots DEF Removes
<1>3. Votes \in [Candidates -> 0..MaxBallots]
  BY <1>1, VotesAreBallots DEF Votes
<1>4. votesHistory' \in Seq([Candidates -> 0..MaxBallots]) /\ round' = round + 1 /\ round \in Nat
  BY <1>1, <1>3 DEF TypeOK, Removes, round
<1>5. eliminatedCandidates' \in SUBSET Candidates
      /\ Cardinality(eliminatedCandidates') <= round'
  <2>1. IsFiniteSet(eliminatedCandidates) /\ Cardinality(eliminatedCandidates) \in Nat
    BY <1>1, Finite, FS_Subset, FS_CardinalityType DEF TypeOK
  <2>2. Cardinality(eliminatedCandidates \union {c}) <= Cardinality(eliminatedCandidates) + 1
    BY <2>1, FS_AddElement
  <2>3. Cardinality(eliminatedCandidates \union {c}) \in Nat
    BY <2>1, FS_AddElement, FS_CardinalityType
  <2> QED BY <1>1, <1>4, <2>1, <2>2, <2>3 DEF TypeOK, Removes
<1>6. TypeOK'
  <2>1. SumAt(tally', Positions) <= MaxBallots /\ tally' \in [Positions -> Nat]
    BY <1>1 DEF TypeOK, Removes
  <2> QED BY <1>2, <1>4, <1>5, <2>1, Finite DEF TypeOK
<1>7. MajorityCandidateStays'
  <2>1. tally' = tally /\ remaining' = remaining \ {c}
    BY DEF Removes, remaining
  <2> SUFFICES ASSUME NEW d \in Candidates,
                      2 * SumAt(tally, getFirstRankedPos[d]) > SumAt(tally, Positions)
               PROVE  d \in remaining \ {c}
    BY <2>1 DEF MajorityCandidateStays, Winners
  <2>2. d \in remaining
    BY DEF IInv, MajorityCandidateStays, Winners
  <2>3. d # c
    BY <2>2, MajorityIsNotRemoved
  <2> QED BY <2>2, <2>3
<1> QED BY <1>2, <1>6, <1>7 DEF IInv
-----------------------------------------------------------------------------
\* A step leaves everything alone, counts a ballot or removes a candidate.
LEMMA RunoffStep ==
  ASSUME IInv, [Next]_vars
  PROVE  \/ UNCHANGED vars
         \/ \E p \in Positions : CountBallot(p)
         \/ EvaluateRound /\ round < Rounds /\ \E c \in Candidates : Removes(c)
BY RoundRemoves DEF Next, EvaluateRound

\* The inductive invariant of the evaluation, for any ballots, tables and lots.
THEOREM RunoffInvariant == Spec => []IInv
<1>1. Init => IInv
  BY RunoffInit
<1>2. IInv /\ [Next]_vars => IInv'
  <2> SUFFICES ASSUME IInv, [Next]_vars PROVE IInv'
    OBVIOUS
  <2>1. CASE UNCHANGED vars
    <3>1. remaining' = remaining /\ round' = round
      BY <2>1 DEF vars, remaining, round
    <3>2. TypeOK'
      BY <2>1, <3>1 DEF vars, IInv, TypeOK
    <3>3. BallotsHaveAPosition'
      BY <3>1 DEF IInv, BallotsHaveAPosition
    <3>4. TallyIsTheBallotsStruck'
      BY <2>1, <3>1 DEF vars, IInv, TallyIsTheBallotsStruck
    <3>5. MajorityCandidateStays'
      BY <2>1, <3>1 DEF vars, IInv, MajorityCandidateStays, Winners
    <3> QED BY <3>2, <3>3, <3>4, <3>5 DEF IInv
  <2>2. CASE \E p \in Positions : CountBallot(p)
    BY <2>2, CountingKeepsIInv
  <2>3. CASE round < Rounds /\ \E c \in Candidates : Removes(c)
    BY <2>3, RoundKeepsIInv
  <2> QED BY <2>1, <2>2, <2>3, RunoffStep
<1> QED BY <1>1, <1>2, PTL DEF Spec

\* The tables of modifiedTally move ballots so that, after any rounds, every counter holds
\* the cast ballots that read so without the eliminated candidates.
THEOREM TallyFollowsTheBallots == Spec => []TallyIsTheBallotsStruck
<1>1. IInv => TallyIsTheBallotsStruck
  BY DEF IInv
<1> QED BY <1>1, RunoffInvariant, PTL

\* A candidate with more than half of the first places wins whatever the ties, the lots and
\* the order of elimination.
THEOREM MajorityWins == Spec => []MajorityCandidateStays
<1>1. IInv => MajorityCandidateStays
  BY DEF IInv
<1> QED BY <1>1, RunoffInvariant, PTL

\* The latest difference of two candidates in the votes of the rounds so far and of the
\* present one.
LEMMA LatestDifference ==
  ASSUME IInv, NEW c \in Candidates, Removes(c), NEW d \in remaining
  PROVE  LET differ == {i \in 1..round' : votesHistory'[i][c] # votesHistory'[i][d]}
         IN differ # {} => votesHistory'[Max(differ)][c] < votesHistory'[Max(differ)][d]
<1> DEFINE h == votesHistory'
           differ == {i \in 1..round' : h[i][c] # h[i][d]}
<1>1. TypeOK /\ BallotsHaveAPosition /\ TallyIsTheBallotsStruck
  BY DEF IInv
<1>2. d \in Candidates
  BY DEF remaining
<1>3. round \in Nat /\ votesHistory \in Seq([Candidates -> 0..MaxBallots])
  BY <1>1 DEF TypeOK, round
<1>4. Votes \in [Candidates -> 0..MaxBallots]
  BY <1>1, VotesAreBallots DEF Votes
<1>5. /\ round' = round + 1 /\ h[round + 1] = Votes
      /\ \A i \in 1..round : h[i] = votesHistory[i]
  BY <1>3, <1>4 DEF Removes, round
<1>6. \A i \in 1..round : HistoryAt(i) = h[round + 1 - i]
  <2> SUFFICES ASSUME NEW i \in 1..round PROVE HistoryAt(i) = h[round + 1 - i]
    OBVIOUS
  <2>1. round + 1 - i \in 1..round
    BY <1>3
  <2> QED BY <1>5, <2>1 DEF HistoryAt
<1> HIDE DEF h
<1>7. SUFFICES ASSUME differ # {}
               PROVE  h[Max(differ)][c] < h[Max(differ)][d]
  BY DEF h
<1>8. Max(differ) \in differ /\ \A i \in differ : i <= Max(differ)
  <2>1. IsFiniteSet(1..round')
    BY <1>3, <1>5, FS_Interval
  <2>2. differ \in SUBSET (1..round') /\ 1..round' \in SUBSET Int
    BY <1>3, <1>5
  <2> HIDE DEF differ
  <2>3. IsFiniteSet(differ) /\ differ \in SUBSET Int
    BY <2>1, <2>2, FS_Subset
  <2> QED BY <1>7, <2>3, MinMaxExist
<1> DEFINE m == Max(differ)
<1> HIDE DEF m
<1>9. m \in 1..(round + 1) /\ h[m][c] # h[m][d]
      /\ \A i \in 1..(round + 1) : h[i][c] # h[i][d] => i <= m
  BY <1>5, <1>8 DEF m
<1>10. CASE Votes[c] # Votes[d]
  <2>1. round + 1 \in 1..(round + 1)
    BY <1>3
  <2>2. m = round + 1
    BY <1>3, <1>5, <1>9, <1>10, <2>1
  <2>3. Votes[c] <= Votes[d]
    BY DEF Removes
  <2>4. Votes[c] \in Nat /\ Votes[d] \in Nat
    BY <1>2, <1>4
  <2> QED BY <1>5, <1>10, <2>2, <2>3, <2>4 DEF m
<1>11. CASE Votes[c] = Votes[d]
  <2>1. m # round + 1
    BY <1>5, <1>9, <1>11
  <2>2. m \in 1..round /\ round + 1 - m \in 1..round
    BY <1>3, <1>9, <2>1
  <2>3. HistoryAt(round + 1 - m) = h[m]
    <3>1. round + 1 - (round + 1 - m) = m
      BY <1>3, <2>2
    <3> QED BY <1>6, <2>2, <3>1
  <2>4. ~ \A i \in 1..round : HistoryAt(i)[c] = HistoryAt(i)[d]
    BY <1>9, <2>2, <2>3
  <2>5. PICK k \in 1..round : /\ HistoryAt(k)[c] < HistoryAt(k)[d]
                              /\ \A i \in 1..(k - 1) : HistoryAt(i)[c] = HistoryAt(i)[d]
    BY <1>2, <1>11, <2>4 DEF Removes
  <2>6. round + 1 - k \in 1..round /\ HistoryAt(k) = h[round + 1 - k]
    BY <1>3, <1>6
  <2>7. h[round + 1 - k] \in [Candidates -> 0..MaxBallots]
    <3>1. votesHistory[round + 1 - k] \in [Candidates -> 0..MaxBallots]
      BY <1>3, <2>6 DEF round
    <3> QED BY <1>5, <2>6, <3>1
  <2>8. h[round + 1 - k][c] \in Nat /\ h[round + 1 - k][d] \in Nat
    BY <1>2, <2>7
  <2>9. round + 1 - k <= m
    BY <1>3, <1>9, <2>5, <2>6, <2>8
  <2>10. ~ (round + 1 - k < m)
    <3> SUFFICES ASSUME round + 1 - k < m PROVE FALSE
      OBVIOUS
    <3>1. round + 1 - m \in 1..(k - 1)
      BY <1>3, <2>2
    <3>2. h[m][c] = h[m][d]
      BY <2>3, <2>5, <3>1
    <3> QED BY <1>9, <3>2
  <2>11. round + 1 - k = m
    BY <1>3, <1>9, <2>9, <2>10
  <2> QED BY <2>5, <2>6, <2>11 DEF m
<1> QED BY <1>10, <1>11

\* The NSW rule: the candidate a round takes out had, at the latest round in which they
\* differ, fewer votes than whoever stays.
THEOREM LatestVotesDecide == Spec => EarlierVotesDecideTies
<1> DEFINE Rule == \A c \in eliminatedCandidates' \ eliminatedCandidates :
                     \A d \in remaining \ {c} :
                       LET differ == {i \in 1..round' : votesHistory'[i][c] # votesHistory'[i][d]}
                       IN differ # {} =>
                            votesHistory'[Max(differ)][c] < votesHistory'[Max(differ)][d]
<1>1. IInv /\ [Next]_vars => [Rule]_vars
  <2> SUFFICES ASSUME IInv, [Next]_vars PROVE Rule \/ UNCHANGED vars
    OBVIOUS
  <2>1. CASE \E p \in Positions : CountBallot(p)
    BY <2>1 DEF CountBallot
  <2>2. CASE \E c \in Candidates : Removes(c)
    <3>1. PICK c \in Candidates : Removes(c)
      BY <2>2
    <3>2. eliminatedCandidates' \ eliminatedCandidates \subseteq {c}
      BY <3>1 DEF Removes
    <3> QED BY <3>1, <3>2, LatestDifference
  <2> QED BY <2>1, <2>2, RunoffStep
<1> QED BY <1>1, RunoffInvariant, PTL DEF Spec, EarlierVotesDecideTies

\* When everybody in the race has a first place, a round takes somebody out who was in it.
THEOREM RoundsEliminate == Spec => EveryRoundEliminates
<1> DEFINE Rule == round' # round /\ (\A c \in remaining : VotesCandRankedFirst(c) > 0)
                     => Cardinality(eliminatedCandidates') = Cardinality(eliminatedCandidates) + 1
<1>1. IInv /\ [Next]_vars => [Rule]_vars
  <2> SUFFICES ASSUME IInv, [Next]_vars PROVE Rule \/ UNCHANGED vars
    OBVIOUS
  <2>1. CASE \E p \in Positions : CountBallot(p)
    BY <2>1 DEF CountBallot, round
  <2>2. CASE \E c \in Candidates : Removes(c)
    <3>1. PICK c \in Candidates : Removes(c)
      BY <2>2
    <3>2. SUFFICES ASSUME \A d \in remaining : VotesCandRankedFirst(d) > 0
                   PROVE  Cardinality(eliminatedCandidates')
                            = Cardinality(eliminatedCandidates) + 1
      OBVIOUS
    <3>3. remaining \in SUBSET Candidates
      BY DEF remaining
    <3>4. Votes[c] > 0
      BY <3>1, <3>2, <3>3 DEF Removes, Votes
    <3>5. c \in remaining
      <4> SUFFICES ASSUME c \notin remaining PROVE FALSE
        OBVIOUS
      <4>1. {s \in Positions : Supports(s, c)} = {}
        BY DEF Supports
      <4>2. Votes[c] = Sum(tally, {s \in Positions : Supports(s, c)})
        BY VotesAreBallots DEF Votes, IInv
      <4>3. Sum(tally, {}) = 0
        BY SumEquation, FS_EmptySet
      <4> QED BY <3>4, <4>1, <4>2, <4>3
    <3>6. IsFiniteSet(eliminatedCandidates) /\ c \notin eliminatedCandidates
      BY <3>5, Finite, FS_Subset DEF IInv, TypeOK, remaining
    <3> QED BY <3>1, <3>6, FS_AddElement DEF Removes
  <2> QED BY <2>1, <2>2, RunoffStep
<1> QED BY <1>1, RunoffInvariant, PTL DEF Spec, EveryRoundEliminates
-----------------------------------------------------------------------------
\* The first remaining candidate of a ballot, by places as RunoffCount says it and by
\* preferences as it is said here.
LEMMA CountsForIsSupports ==
  ASSUME NEW s \in Positions, NEW c \in remaining
  PROVE  Count!CountsFor(s, c) <=> Supports(s, c)
<1> DEFINE r == rankingAt[s]
<1>1. r \in Seq(Candidates) /\ IsInjective(r) /\ Len(r) \in Nat
  BY InstantRunoffAssumption
<1>2. preference[s] = {pair \in Candidates \X Candidates :
                         \E i, j \in 1..Len(r) : i <= j /\ pair = <<r[i], r[j]>>}
  BY DEF preference
<1>3. Count!CountsFor(s, c) <=>
        \E i \in 1..Len(r) : r[i] = c /\ \A j \in 1..(i - 1) : r[j] \notin remaining
  BY DEF Count!CountsFor
<1> HIDE DEF r
<1>4. \A i \in 1..Len(r) : r[i] \in Candidates
  BY <1>1
<1>5. ASSUME NEW i \in 1..Len(r), r[i] = c, \A j \in 1..(i - 1) : r[j] \notin remaining
      PROVE  Supports(s, c)
  <2>1. <<c, c>> \in preference[s]
    BY <1>1, <1>2, <1>4, <1>5
  <2>2. ASSUME NEW d \in remaining, <<d, c>> \in preference[s] PROVE d = c
    <3>1. PICK k \in 1..Len(r), j \in 1..Len(r) : k <= j /\ d = r[k] /\ c = r[j]
      BY <1>2, <2>2
    <3>2. j = i
      BY <1>1, <1>5, <3>1 DEF IsInjective
    <3>3. k = i \/ k \in 1..(i - 1)
      BY <1>1, <3>1, <3>2
    <3> QED BY <1>5, <2>2, <3>1, <3>3
  <2> QED BY <2>1, <2>2 DEF Supports
<1>6. ASSUME Supports(s, c)
      PROVE  \E i \in 1..Len(r) : r[i] = c /\ \A j \in 1..(i - 1) : r[j] \notin remaining
  <2>1. PICK i \in 1..Len(r) : c = r[i]
    BY <1>2, <1>6 DEF Supports
  <2>2. ASSUME NEW j \in 1..(i - 1), r[j] \in remaining PROVE FALSE
    <3>1. j \in 1..Len(r) /\ j <= i /\ j # i
      BY <1>1
    <3>2. <<r[j], c>> \in preference[s]
      BY <1>2, <1>4, <2>1, <3>1
    <3>3. r[j] = r[i]
      BY <1>6, <2>1, <2>2, <3>2 DEF Supports
    <3> QED BY <1>1, <3>1, <3>3 DEF IsInjective
  <2> QED BY <2>1, <2>2
<1> QED BY <1>3, <1>5, <1>6

\* So the first places that the circuit counts are the support of RunoffCount.
LEMMA VotesAreSupport ==
  ASSUME IInv, NEW c \in remaining
  PROVE  Count!Support(c) = Votes[c]
<1>1. c \in Candidates
  BY DEF remaining
<1>2. {p \in Positions : Count!CountsFor(p, c)} = {s \in Positions : Supports(s, c)}
  BY CountsForIsSupports
<1>3. Count!Support(c) = Sum(tally, {p \in Positions : Count!CountsFor(p, c)})
  BY DEF Count!Support, Count!MapThenSumSet, Count!MapThenFoldSet,
     Sum, MapThenSumSet, MapThenFoldSet
<1>4. Votes[c] = Sum(tally, {s \in Positions : Supports(s, c)})
  BY <1>1, VotesAreBallots DEF IInv, Votes
<1> QED BY <1>2, <1>3, <1>4

\* A round that takes out somebody in the race is an elimination of RunoffCount.
LEMMA RemovesIsEliminate ==
  ASSUME IInv, round < Rounds, NEW c \in remaining, Removes(c)
  PROVE  Count!Eliminate(c)
<1> DEFINE support == [d \in remaining |-> Count!Support(d)]
<1>1. \A d \in remaining : support[c] <= support[d]
  BY VotesAreSupport DEF Removes
<1>2. remaining' = remaining \ {c} /\ tally' = tally
  BY DEF Removes, remaining
<1>3. remaining' # {}
  BY <1>2, SomeoneRemains DEF IInv
<1> QED BY <1>1, <1>2, <1>3 DEF Count!Eliminate

\* Moving ballots, looking back and drawing lots implement an instant-runoff count, which
\* moves nothing.
THEOREM RunoffRefinement == Spec => ImplementsRunoffCount
<1>1. Init => Count!Init
  BY DEF Init, Count!Init, remaining
<1>2. IInv /\ [Next]_vars => [Count!Next]_Count!vars
  <2> SUFFICES ASSUME IInv, [Next]_vars PROVE Count!Next \/ UNCHANGED Count!vars
    OBVIOUS
  <2>1. CASE UNCHANGED vars
    BY <2>1 DEF vars, Count!vars, remaining
  <2>2. CASE \E p \in Positions : CountBallot(p)
    <3>1. PICK p \in Positions : CountBallot(p)
      BY <2>2
    <3>2. remaining = Candidates
      BY <3>1, CountingKeepsIInv
    <3>3. remaining' = remaining /\ tally' = [tally EXCEPT ![p] = @ + 1]
      BY <3>1 DEF CountBallot, remaining
    <3>4. Count!CountBallot(p)
      BY <3>2, <3>3 DEF Count!CountBallot
    <3> QED BY <3>4 DEF Count!Next
  <2>3. CASE round < Rounds /\ \E c \in Candidates : Removes(c)
    <3>1. PICK c \in Candidates : Removes(c)
      BY <2>3
    <3>2. CASE c \in remaining
      BY <2>3, <3>1, <3>2, RemovesIsEliminate DEF Count!Next
    <3>3. CASE c \notin remaining
      BY <3>1, <3>3 DEF Removes, remaining, Count!vars
    <3> QED BY <3>2, <3>3
  <2> QED BY <2>1, <2>2, <2>3, RunoffStep
<1> QED BY <1>1, <1>2, RunoffInvariant, PTL DEF Spec, ImplementsRunoffCount, Count!Spec
=============================================================================
