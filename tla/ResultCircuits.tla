--------------------------- MODULE ResultCircuits ---------------------------
(***************************************************************************)
(* The result functions of circom/circuits/src/tallying/utilities.circom   *)
(* on matrices: the Smith set of a comparison matrix and the winner of a   *)
(* majority judgement.                                                     *)
(***************************************************************************)
EXTENDS BallotCircuits

-----------------------------------------------------------------------------
(* computeSmithSet *)
IsGreater(bits, tally, i, j) == i # j /\ GreaterThan(bits, tally[i][j], tally[j][i])

WonMatches(bits, tally) ==
  [i \in Candidates |-> Cardinality({j \in Candidates : IsGreater(bits, tally, i, j)})]

SmithSatisfied(bits, tally) ==
  /\ \A i, j \in Candidates : i # j => Comparable(bits, tally[j][i], tally[i][j])
  /\ MaxSatisfied(bits, WonMatches(bits, tally))

\* Faulty: those that lose to a member join it.
JoinsSmithSetFromBelow(bits, tally, i, S) == \E k \in S : IsGreater(bits, tally, k, i)

\* i wins over a member of the set so far.
JoinsSmithSet(bits, tally, i, S) == \E k \in S : IsGreater(bits, tally, i, k)

\* runningSmithSet: first those with most won matches, then nVotes - 1 times whoever
\* wins over one of the last set.  The last set itself is not kept.
RunningSmithSet(bits, tally) ==
  LET run[i \in Candidates] ==
        IF i = 0 THEN MaximumIndicator(bits, WonMatches(bits, tally))
        ELSE {j \in Candidates : JoinsSmithSet(bits, tally, j, run[i - 1])}
  IN run

\* The output out, which no line of the template assigns: a signal without a constraint, which
\* the witness calculators leave at zero.
SmithSetOut == {}
-----------------------------------------------------------------------------
(* computeMajorityJudgement *)

SumFrom(list, i) == SumOver({j \in DOMAIN list : j >= i}, list) % P

\* The index at which getIndexMedian stops counting, from the last grade down.
MedianIdx(bits, list, half) ==
  Size(list) - 1 - Cardinality({i \in DOMAIN list : LessThan(bits, SumFrom(list, i), half)})

\* Faulty: the count begins with the first grade.
IndexMedianFromBelow(bits, list, half) ==
  Cardinality({i \in DOMAIN list :
    LessThan(bits, SumOver({j \in DOMAIN list : j <= i}, list), half)})

\* getIndexMedian: out <== n - idx
IndexMedian(bits, list, half) == Size(list) - MedianIdx(bits, list, half)

IndexMedianSatisfied(bits, list, half) ==
  /\ AssertBit(half * 2 - SumOver(DOMAIN list, list))
  /\ \A i \in DOMAIN list : Comparable(bits, SumFrom(list, i), half)

FieldHalf(x) == (x * ((P + 1) \div 2)) % P

\* sum_halve <-- sum / 2 is a hint, no constraint.  The witness calculator divides in the field;
\* line 183 finds a bit for that value and for one other, half of sum + 1.
SumHalve(bits, list, calculated) ==
  LET sum == SumOver(DOMAIN list, list)
  IN IF calculated \/ IndexMedianSatisfied(bits, list, FieldHalf(sum)) THEN FieldHalf(sum)
     ELSE FieldHalf(sum + 1)

\* A round of the loop on runningTally: winners is runningWinnerIdx, occurences counts the grade at
\* bestMedian with -1 for those who lose, next is the tally of the next round, in which
\* the least occurence is taken off and all but the winners are set to zero.
Round(bits, tally, calculated) ==
  LET half       == [c \in Candidates |-> SumHalve(bits, tally[c], calculated)]
      median     == [c \in Candidates |-> IndexMedian(bits, tally[c], half[c])]
      best       == MinValue(bits, median)
      winners    == IdxEqual(median, best)
      occurences == [c \in Candidates |-> IF c \notin winners THEN P - 1
                                          ELSE IF best \in Grades THEN tally[c][best] ELSE 0]
      least      == MinValue(bits, occurences)
  IN [winners   |-> winners,
      satisfied |-> /\ \A c \in Candidates : IndexMedianSatisfied(bits, tally[c], half[c])
                    /\ MinSatisfied(bits, median) /\ MinSatisfied(bits, occurences),
      next      |-> [c \in Candidates |-> [g \in Grades |->
                       IF c \notin winners THEN 0
                       ELSE IF g = best THEN (tally[c][g] - least) % P ELSE tally[c][g]]]]

\* As many rounds as there are candidates; the winners of the last are winnerIdx.
MajorityJudgementRounds(bits, tally, calculated) ==
  LET run[r \in Candidates] ==
        Round(bits, IF r = 0 THEN tally ELSE run[r - 1].next, calculated)
  IN run
=============================================================================
