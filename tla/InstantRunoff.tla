---------------------------- MODULE InstantRunoff ----------------------------
(***************************************************************************)
(* The circuit that evaluates an instant-runoff election with the NSW tie  *)
(* breaker (circom/circuits/src/tallying/irv): the input is a tally with a *)
(* counter per ranking; every round counts first places, finds the minimum *)
(* among those not eliminated, breaks the tie by the votes of the earlier  *)
(* rounds, then by public lots, and moves the ballots of the candidate to  *)
(* remove to the rankings without it.                                      *)
(*                                                                         *)
(* The positions of the tally stand for rankings: rankingAt says which.    *)
(* eliminatedRankings is zero in every round and left out.                 *)
(***************************************************************************)
EXTENDS Naturals, Sequences, FiniteSetsExt

CONSTANTS
  nCand,             \* number of candidates; they are 0..nCand-1
  nRounds,           \* rounds asked for
  bits,              \* width of the comparisons
  nRankings,         \* length of the tally
  rankingAt,         \* the ranking, a sequence of candidates, that a position stands for
  getCandRemovedPos, \* the table: position without the candidate, per position and candidate
  getFirstRankedPos, \* the table: positions with the candidate first, per candidate
  Lots,              \* the lots a round can be given: a place for every candidate
  MaxBallots         \* bound on the number of ballots

Candidates == 0..(nCand - 1)
Positions  == 0..(nRankings - 1)

\* What the ranking of each position says: a candidate is named if paired with itself, and
\* named before those it is paired with.
preference ==
  [p \in Positions |->
     LET r == rankingAt[p]
     IN {pair \in Candidates \X Candidates :
           \E i, j \in 1..Len(r) : i <= j /\ pair = <<r[i], r[j]>>}]

\* What a ranking says once everybody outside R is struck out.
Among(R, pairs) == {pair \in pairs : pair[1] \in R /\ pair[2] \in R}

\* Votes, ballots and lots are below 2^bits - 1, which marks a candidate out of the pool;
\* no two candidates draw the same place; the tables say what rankingAt says.
ASSUME InstantRunoffAssumption ==
  /\ nCand \in Nat \ {0, 1} /\ nRounds \in Nat /\ bits \in Nat
  /\ nRankings \in Nat /\ MaxBallots \in Nat
  /\ MaxBallots < 2^bits - 1 /\ nCand < 2^bits
  /\ Lots \subseteq Injection(Candidates, Candidates)
  /\ rankingAt \in [Positions -> Seq(Candidates)] /\ IsInjective(preference)
  /\ \A p \in Positions : IsInjective(rankingAt[p])
  /\ getCandRemovedPos \in [Positions -> [Candidates -> Positions]]
  /\ \A p \in Positions, c \in Candidates :
        preference[getCandRemovedPos[p][c]] = Among(Candidates \ {c}, preference[p])
  /\ \A c \in Candidates :
        getFirstRankedPos[c] = {p \in Positions : Len(rankingAt[p]) > 0 /\ rankingAt[p][1] = c}

\* The template resets a number of rounds that would eliminate everybody.
Rounds == IF nRounds >= nCand THEN nCand - 1 ELSE nRounds

VARIABLES
  tally,                 \* the input
  currentTally,          \* counter per ranking, in the round at hand
  eliminatedCandidates,  \* the candidates whose bit is set
  votesHistory           \* per finished round, the first places of each candidate

vars == <<tally, currentTally, eliminatedCandidates, votesHistory>>

round     == Len(votesHistory)
remaining == Candidates \ eliminatedCandidates

\* The sum of the counters of some positions.
SumAt(counters, P) == MapThenSumSet(LAMBDA p : counters[p], {p \in P : counters[p] > 0})

VotesCandRankedFirst(c) == SumAt(currentTally, getFirstRankedPos[c])

\* Faulty: those out of the pool keep their value.
ModifiedListUnfiltered(in, idx) == in

\* Faulty: the branches of ifThenElse are swapped.
ModifiedListSwapped(in, idx) == [c \in Candidates |-> IF c \in idx THEN 2^bits - 1 ELSE in[c]]

\* The list with the maximal value at everything out of the pool.
ModifiedList(in, idx) == [c \in Candidates |-> IF c \in idx THEN in[c] ELSE 2^bits - 1]

MinValue(in) == Min({in[c] : c \in Candidates})
MinValueAtIdx(in, idx) == MinValue(ModifiedList(in, idx))

\* Marks every candidate with the value, in or out of the race.
IdxEqual(in, test) == {c \in Candidates : in[c] = test}

MinimumIndicatorAtIdx(in, idx) ==
  LET list == ModifiedList(in, idx) IN IdxEqual(list, MinValue(list))

\* The votes that step i of the look back compares: the latest round first.
HistoryAt(i) == votesHistory[round + 1 - i]

\* Faulty: the look back ends after one round.
ActivePoolOneRound(minIndicators) ==
  IF round = 0 THEN minIndicators ELSE MinimumIndicatorAtIdx(HistoryAt(1), minIndicators)

\* Those still tied after the whole look back.
ActivePool(minIndicators) ==
  LET pool[i \in 0..round] ==
        IF i = 0 THEN minIndicators ELSE MinimumIndicatorAtIdx(HistoryAt(i), pool[i - 1])
  IN pool[round]

\* The sum of the indices that lots leave, which is the index when one is left.
CandToRemove(pool, lot) == SumSet(MinimumIndicatorAtIdx(lot, pool))

\* Faulty: the counter of a position that the ballots leave is not reduced.
RemoveCandidateKeeping(c) ==
  [p \in Positions |-> currentTally[p]
     + SumAt(currentTally, {s \in Positions \ {p} : getCandRemovedPos[s][c] = p})]

\* Faulty: the ballots that name the candidate arrive nowhere.
RemoveCandidateLosing(c) ==
  [p \in Positions |-> IF getCandRemovedPos[p][c] = p THEN currentTally[p] ELSE 0]

\* modifiedTally: the ballots of every ranking with c go to the ranking without it.
RemoveCandidate(c) ==
  [p \in Positions |->
     SumAt(currentTally, {s \in Positions : getCandRemovedPos[s][c] = p})]
-----------------------------------------------------------------------------
Init ==
  /\ tally = [p \in Positions |-> 0] /\ currentTally = tally
  /\ eliminatedCandidates = {} /\ votesHistory = <<>>

\* The tally the circuit is given is the sum of the ballots.
CountBallot(p) ==
  /\ round = 0
  /\ SumAt(tally, Positions) < MaxBallots
  /\ tally' = [tally EXCEPT ![p] = @ + 1] /\ currentTally' = tally'
  /\ UNCHANGED <<eliminatedCandidates, votesHistory>>

\* One round of the evaluation, for any lots.
EvaluateRound ==
  /\ round < Rounds
  /\ LET votes == [c \in Candidates |-> VotesCandRankedFirst(c)]
         pool  == ActivePool(IdxEqual(votes, MinValueAtIdx(votes, remaining)))
     IN /\ votesHistory' = Append(votesHistory, votes)
        /\ \E lot \in Lots :
             LET c == CandToRemove(pool, lot)
             IN /\ currentTally' = RemoveCandidate(c)
                /\ eliminatedCandidates' = eliminatedCandidates \union {c}
  /\ UNCHANGED tally

Next == (\E p \in Positions : CountBallot(p)) \/ EvaluateRound

Spec == Init /\ [][Next]_vars

\* out[c] = 1
Winners == remaining
-----------------------------------------------------------------------------
(***************************************************************************)
(* Properties.                                                             *)
(***************************************************************************)
\* What a ranking holds after any rounds of moving is what the ballots say: its counter is
\* the number of cast ballots that read so once the eliminated candidates are struck out.
TallyIsTheBallotsStruck ==
  \A p \in Positions :
    currentTally[p] =
      SumAt(tally, {s \in Positions : Among(remaining, preference[s]) = preference[p]})

\* A candidate whom more than half of the ballots rank first wins, in whatever order
\* the others are eliminated.
MajorityCandidateStays ==
  \A c \in Candidates :
    2 * SumAt(tally, getFirstRankedPos[c]) > SumAt(tally, Positions) => c \in Winners

\* The candidate taken out by a round is the one the NSW rule names: against everybody else in
\* the race, at the latest round in which the two differ it had fewer votes.
EarlierVotesDecideTies ==
  [][\A c \in eliminatedCandidates' \ eliminatedCandidates :
       \A d \in remaining \ {c} :
         LET differ == {i \in 1..round' : votesHistory'[i][c] # votesHistory'[i][d]}
         IN differ # {} => votesHistory'[Max(differ)][c] < votesHistory'[Max(differ)][d]]_vars

\* A round in which everybody in the race has a vote takes somebody out.  Without a vote,
\* the minimum is also that of those eliminated before, who can be drawn again.
EveryRoundEliminates ==
  [][round' # round /\ (\A c \in remaining : VotesCandRankedFirst(c) > 0)
       => Cardinality(eliminatedCandidates') = Cardinality(eliminatedCandidates) + 1]_vars

Count == INSTANCE RunoffCount WITH ballots <- tally, Ranking <- rankingAt

\* The moving of ballots, the look back and the lots together are an instant-runoff count.
ImplementsRunoffCount == Count!Spec

\* "The winner is the candidate who was never eliminated": when somebody has a vote, a
\* complete evaluation leaves one.
CompleteEvaluationHasOneWinner ==
  round = nCand - 1 /\ (\E p \in Positions : tally[p] > 0 /\ Len(rankingAt[p]) > 0)
    => Cardinality(Winners) = 1
=============================================================================
