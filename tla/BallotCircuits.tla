--------------------------- MODULE BallotCircuits ---------------------------
(***************************************************************************)
(* The circuits of circom/circuits/src/voting: which vectors and matrices  *)
(* of field elements are ballots, and which ballot a ranking makes.        *)
(***************************************************************************)
EXTENDS FieldGates

CONSTANTS
  nVotes,         \* number of candidates
  nGrades,        \* grades of majority judgement
  bitsVotes,      \* width of a ballot entry
  maxVotesCand,   \* votes for one candidate of a multi vote
  maxChoices,     \* votes of a multi vote
  orderedPoints,  \* the points of a Borda list, a list of its own
  a,              \* tournament points for a candidate ranked worse
  b               \* tournament points for a candidate ranked the same

Candidates == 0..(nVotes - 1)
Grades     == 0..(nGrades - 1)

\* What a ballot may assign has bitsVotes bits, and the field is far greater than all of it
\* together; points are distinct and not zero, since the zeros of a ballot are counted apart.
ASSUME BallotAssumption ==
  /\ {nVotes, nGrades, bitsVotes, maxVotesCand, maxChoices, a, b} \subseteq Nat
  /\ 0 < nVotes /\ nVotes < Power2[bitsVotes] /\ 0 < nGrades /\ maxVotesCand < Power2[bitsVotes]
  /\ 4 * nVotes * Power2[bitsVotes] < P /\ nGrades < P
  /\ DOMAIN orderedPoints = 0..(Size(orderedPoints) - 1) /\ Size(orderedPoints) \in 1..nVotes
  /\ \A i, j \in DOMAIN orderedPoints :
       orderedPoints[i] \in Nat \ {0} /\ (orderedPoints[i] = orderedPoints[j] => i = j)

\* Faulty: entries are checked and the sum is not.
AssertSingleVoteUnsummed(ballot) == \A c \in Candidates : AssertBit(ballot[c])

AssertSingleVote(ballot) ==
  /\ \A c \in Candidates : AssertBit(ballot[c])
  /\ AssertBit(SumOver(Candidates, ballot))

\* Nothing asserts that an entry is not negative.
AssertMultiVote(ballot) ==
  /\ \A c \in Candidates : AssertLtEq(bitsVotes, ballot[c], maxVotesCand)
  /\ AssertLtEq(bitsVotes + NumBits(nVotes), SumOver(Candidates, ballot), maxChoices)

AssertPointlistBorda(ballot) ==
  /\ CountEqual(ballot, 0) = nVotes - Size(orderedPoints)
  /\ \A i \in DOMAIN orderedPoints : CountEqual(ballot, orderedPoints[i]) = 1

AssertMajorityJudgement(ballot) ==
  \A c \in Candidates :
    (\A g \in Grades : AssertBit(ballot[c][g])) /\ SumOver(Grades, ballot[c]) = 1

\* computeBordaTournamentStyleBallot: a candidate is not counted against itself.
BordaTournamentStyleBallot(ranking) ==
  [c \in Candidates |-> a * CountGreater(NumBits(nVotes), ranking, ranking[c])
                         + b * (CountEqual(ranking, ranking[c]) - 1)]

\* computeCondorcetBallot: both entries of a pair from the comparison of the smaller index
\* with the greater; a greater rank is a worse one.
CondorcetBallot(ranking) ==
  LET entryIJ(i, j) == IF GreaterThan(bitsVotes, ranking[i], ranking[j])
                            \/ ranking[i] = ranking[j] THEN 0 ELSE 1
      entryJI(i, j) == IF GreaterThan(bitsVotes, ranking[i], ranking[j]) THEN 1 ELSE 0
  IN [i \in Candidates |-> [j \in Candidates |->
        IF i < j THEN entryIJ(i, j) ELSE IF i > j THEN entryJI(j, i) ELSE 0]]
=============================================================================
