------------------------------ MODULE Election ------------------------------
(***************************************************************************)
(* An election as the circuits see it: voters cast ballots that the        *)
(* validity circuit of the kind of election accepts, the ballots are added *)
(* up entry by entry, and a result function is evaluated on the tally.     *)
(* The commitments, which are added with the ballots, are left out.        *)
(*                                                                         *)
(* The comparisons of the result functions have as many bits as the        *)
(* comments of fullresultcircuit ask for.                                  *)
(***************************************************************************)
EXTENDS ResultCircuits

CONSTANTS
  Kinds,      \* the kinds of election that are run
  MaxVoters,  \* bound on the number of ballots
  threshold,  \* the threshold of computeThresholdIndicator
  mEntries    \* how many of the highest entries are asked for

\* The highest value a ballot assigns.
HighestAssignable ==
  [single |-> 1, multi |-> maxVotesCand, condorcet |-> 1, majority |-> 1,
   pointlist |-> Max({orderedPoints[i] : i \in DOMAIN orderedPoints}),
   tournament |-> Max({a, b}) * (nVotes - 1)]

\* The lowest value: the least entry for which the comparison of a multi vote has enough bits.
LowestAssignable(k) == IF k = "multi" THEN maxVotesCand + 1 - Power2[bitsVotes] ELSE 0

\* Something can be assigned, and the field is far greater than what all voters assign together.
ASSUME ElectionAssumption ==
  /\ Kinds \subseteq {"single", "multi", "pointlist", "tournament", "condorcet", "majority"}
  /\ MaxVoters \in Nat \ {0, 1} /\ threshold \in 0..MaxVoters /\ mEntries \in 1..nVotes
  /\ \A k \in Kinds : 0 < HighestAssignable[k] /\ 4 * (MaxVoters * HighestAssignable[k]) < P
  /\ "multi" \in Kinds => 4 * (MaxVoters * Power2[bitsVotes]) < P
  /\ "majority" \in Kinds => 8 * MaxVoters < P

Matrix(S, T) == [Candidates -> [S -> T]]
Vectors      == [Candidates -> FieldElements]

\* The inputs that satisfy the circuit of a kind, or that it computes from a ranking.  Field
\* elements close enough to be compared are in the order of some ranks 0..nVotes, and the bits
\* of a majority judgement are the field elements that AssertBit admits.  ({v : v \in S} is S,
\* and has TLC list it once.)
Rankings == [Candidates -> 0..nVotes]
Ballots ==
  [single     |-> {v : v \in {w \in Vectors : AssertSingleVote(w)}},
   multi      |-> {v : v \in {w \in Vectors : AssertMultiVote(w)}},
   pointlist  |-> {v : v \in {w \in Vectors : AssertPointlistBorda(w)}},
   tournament |-> {BordaTournamentStyleBallot(r) : r \in Rankings},
   condorcet  |-> {CondorcetBallot(r) : r \in Rankings},
   majority   |-> {m \in Matrix(Grades, 0..1) : AssertMajorityJudgement(m)}]

MatrixKinds == {"condorcet", "majority"}
Columns(k)  == IF k = "condorcet" THEN Candidates ELSE Grades

VARIABLES
  kind,    \* the kind of election
  voters,  \* ballots counted
  tally,   \* their sum
  result   \* what the evaluation gave: see NoResult

vars == <<kind, voters, tally, result>>

\* The function evaluated, whether its constraints can be satisfied, the candidates marked in
\* its output and, for the functions with rounds, in each of them.
NoResult == [of |-> "none", satisfied |-> TRUE, winners |-> {}, rounds |-> [r \in {} |-> {}]]

\* "at least ceil(log2(#Voters * highest assignable value))"
bits == NumBits(MaxVoters * HighestAssignable[kind] - 1)
-----------------------------------------------------------------------------
Init ==
  /\ kind \in Kinds
  /\ voters = 0
  /\ tally = IF kind \in MatrixKinds THEN [c \in Candidates |-> [g \in Columns(kind) |-> 0]]
                                     ELSE [c \in Candidates |-> 0]
  /\ result = NoResult

\* The tally is the sum of the accepted ballots.
CastBallot ==
  /\ result = NoResult /\ voters < MaxVoters
  /\ voters' = voters + 1
  /\ \E ballot \in Ballots[kind] :
       tally' = [c \in Candidates |->
         IF kind \in MatrixKinds THEN [g \in Columns(kind) |-> tally[c][g] + ballot[c][g]]
         ELSE tally[c] + ballot[c]]
  /\ UNCHANGED <<kind, result>>

Evaluate(of, satisfied, winners, rounds) ==
  /\ result = NoResult
  /\ result' = [of |-> of, satisfied |-> satisfied, winners |-> winners, rounds |-> rounds]
  /\ UNCHANGED <<kind, voters, tally>>

EvaluateMostVotes ==
  /\ kind \notin MatrixKinds
  /\ Evaluate("most", MaxSatisfied(bits, tally), MaximumIndicator(bits, tally), NoResult.rounds)

EvaluateLeastVotes ==
  /\ kind \notin MatrixKinds
  /\ Evaluate("least", MinSatisfied(bits, tally), MinimumIndicator(bits, tally), NoResult.rounds)

EvaluateThreshold ==
  /\ kind \notin MatrixKinds
  /\ Evaluate("threshold", ThresholdSatisfied(bits, tally, threshold),
              ThresholdIndicator(bits, tally, threshold), NoResult.rounds)

EvaluateHighestEntries ==
  /\ kind \notin MatrixKinds
  /\ Evaluate("highest", HighestMSatisfied(bits, tally, mEntries),
              HighestMEntries(bits, tally, mEntries), NoResult.rounds)

EvaluateSmithSet ==
  /\ kind = "condorcet"
  /\ Evaluate("smith", SmithSatisfied(bits, tally), SmithSetOut, RunningSmithSet(bits, tally))

\* "median" with hints that satisfy the constraints, where there are any, "calculated" with
\* those of the witness calculator.
EvaluateMajorityJudgement ==
  /\ kind = "majority"
  /\ \E of \in {"median", "calculated"} :
     LET run == MajorityJudgementRounds(bits, tally, of = "calculated")
     IN Evaluate(of, \A r \in Candidates : run[r].satisfied, run[nVotes - 1].winners,
                 [r \in Candidates |-> run[r].winners])

Next ==
  \/ CastBallot
  \/ EvaluateMostVotes \/ EvaluateLeastVotes \/ EvaluateThreshold \/ EvaluateHighestEntries
  \/ EvaluateSmithSet \/ EvaluateMajorityJudgement

Spec == Init /\ [][Next]_vars
-----------------------------------------------------------------------------
(***************************************************************************)
(* Properties.                                                             *)
(***************************************************************************)
MaxEntry == MaxVoters * HighestAssignable[kind]
MinEntry == MaxVoters * LowestAssignable(kind)

\* Entries stay between the least and the most that the voters can assign together, so that no
\* sum wraps in the field: negative entries only for multi votes, whose circuit admits them.
TypeOK ==
  /\ kind \in Kinds /\ voters \in 0..MaxVoters
  /\ IF kind \in MatrixKinds THEN tally \in Matrix(Columns(kind), 0..MaxEntry)
                             ELSE tally \in [Candidates -> MinEntry..MaxEntry]
  /\ result.satisfied \in BOOLEAN /\ result.winners \subseteq Candidates

\* No ballot that a circuit accepts counts for more than the rules grant a voter, as its total
\* goes: whatever the ballots were, their sum shows the number of voters, or at most that many
\* votes.  Of a single vote the total may be less ("exactly one vote is one", says its comment, but
\* the ballot without a vote is accepted), and of a multi vote it is net: entries below zero make room for others (NobodyVotesMoreThanGranted).
EveryBallotWeighsTheSame ==
  LET total == SumOver(Candidates, tally)
      points == SumOver(DOMAIN orderedPoints, orderedPoints)
  IN /\ kind = "single"     => total <= voters
     /\ kind = "multi"      => /\ total <= voters * maxChoices
                               /\ \A c \in Candidates : tally[c] <= voters * maxVotesCand
     /\ kind = "pointlist"  => total = voters * points
     /\ kind = "tournament" /\ a = 2 * b => total = voters * b * nVotes * (nVotes - 1)
     /\ kind = "condorcet"  => \A i, j \in Candidates : tally[i][j] + tally[j][i] <= voters
     /\ kind = "majority"   => \A c \in Candidates : SumOver(Grades, tally[c]) = voters

\* What the list functions reveal is what the tally says, if there is a proof at all.
ResultsFollowTheTally ==
  LET above(c) == Cardinality({d \in Candidates : tally[d] > tally[c]})
      below(c) == Cardinality({d \in Candidates : tally[d] < tally[c]})
  IN result.satisfied =>
       /\ result.of = "most"      => result.winners = {c \in Candidates : above(c) = 0}
       /\ result.of = "least"     => result.winners = {c \in Candidates : below(c) = 0}
       /\ result.of = "threshold" => result.winners = {c \in Candidates : tally[c] >= threshold}
       /\ result.of = "highest"   => result.winners = {c \in Candidates : above(c) < mEntries}

\* With the documented bits there is a proof of the result of every list function and of the
\* Smith set, but for three kinds of elections: those in which an entry is as great as the bound
\* on the voters allows and that bound is a power of two; those of multi votes in which the
\* entries of a candidate add up to less than zero; and, where candidates are counted too, those
\* with more candidates than the bits can tell apart.
OnlyAFullTallyIsUnprovable ==
  ~result.satisfied /\ kind # "majority" =>
    \/ IF kind = "condorcet" THEN \E c, d \in Candidates : tally[c][d] >= Power2[bits]
                             ELSE \E c \in Candidates : tally[c] \notin 0..(Power2[bits] - 1)
    \/ result.of \in {"highest", "smith"} /\ nVotes > Power2[bits]

\* A set whose members all win over everybody outside.
Dominates(S) == \A i \in S, j \in Candidates \ S : tally[i][j] > tally[j][i]
SmithSet ==
  CHOOSE S \in SUBSET Candidates :
    S # {} /\ Dominates(S) /\ \A T \in SUBSET Candidates : T # {} /\ Dominates(T) => S \subseteq T

\* No round of computeSmithSet marks a candidate outside the Smith set.
RoundsStayInSmithSet ==
  result.of = "smith" /\ result.satisfied =>
    \A r \in DOMAIN result.rounds : result.rounds[r] \subseteq SmithSet

\* The grade that half of the voters or more gave or exceeded.
HighestMedian(c) ==
  Max({g \in Grades : 2 * SumOver(g..(nGrades - 1), tally[c]) >= voters})

\* With no more grades than the comparisons can tell apart, the first round of a majority
\* judgement keeps the candidates with the highest median grade: with hints that satisfy its
\* constraints, and with those of the witness calculator whenever it gets a witness by them.
FirstRoundKeepsHighestMedian ==
  (result.of = "median" \/ (result.of = "calculated" /\ result.satisfied))
      /\ nGrades <= Power2[bits] =>
    result.rounds[0]
      = {c \in Candidates : \A d \in Candidates : HighestMedian(c) >= HighestMedian(d)}

\* "each vote is at most maxVotesCand and that the sum of all votes is at most maxChoices": the
\* candidates who come out above zero have no more votes together than the voters were granted.
NobodyVotesMoreThanGranted ==
  kind = "multi" =>
    SumOver({c \in Candidates : tally[c] > 0}, tally) <= voters * maxChoices
=============================================================================
