----------------------------- MODULE RunoffCount -----------------------------
(***************************************************************************)
(* What an instant-runoff election promises, stated on the ballots as they *)
(* were cast: a ballot counts for the first of its candidates that is      *)
(* still in the race, and each elimination takes out a candidate with the  *)
(* fewest ballots.  Nothing is ever moved from one pile to another; that   *)
(* is how circom/circuits/src/tallying/irv computes it (InstantRunoff).    *)
(***************************************************************************)
EXTENDS Naturals, Sequences, FiniteSetsExt

CONSTANTS
  Candidates,  \* the candidates
  Positions,   \* the kinds of ballot
  Ranking      \* for each kind, a sequence of candidates in order of preference

VARIABLES
  ballots,   \* for each kind, how many there are
  remaining  \* the candidates still in the race

vars == <<ballots, remaining>>

\* A ballot counts for c: it names c, and nobody it names before c remains.
CountsFor(p, c) ==
  LET r == Ranking[p]
  IN \E i \in 1..Len(r) : r[i] = c /\ \A j \in 1..(i - 1) : r[j] \notin remaining

Support(c) == MapThenSumSet(LAMBDA p : ballots[p], {p \in Positions : CountsFor(p, c)})

Init == ballots = [p \in Positions |-> 0] /\ remaining = Candidates

\* A ballot is counted, while all candidates are in the race.
CountBallot(p) ==
  /\ remaining = Candidates
  /\ ballots' = [ballots EXCEPT ![p] = @ + 1]
  /\ UNCHANGED remaining

\* A candidate whom nobody has fewer ballots than leaves; one always stays.
Eliminate(c) ==
  /\ LET support == [d \in remaining |-> Support(d)]
     IN \A d \in remaining : support[c] <= support[d]
  /\ remaining' = remaining \ {c}
  /\ remaining' # {}
  /\ UNCHANGED ballots

Next ==
  \/ \E p \in Positions : CountBallot(p)
  \/ \E c \in remaining : Eliminate(c)

Spec == Init /\ [][Next]_vars
=============================================================================
