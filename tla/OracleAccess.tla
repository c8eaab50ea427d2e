---------------------------- MODULE OracleAccess ----------------------------
(***************************************************************************)
(* What an interactive oracle proof promises its verifier: every query     *)
(* position is decided once, for everybody, and a query is answered with   *)
(* the value of its oracle at its position.  Nothing is opened, cached or  *)
(* missing; that is how iop/iop.tcc and the BCS transformation provide it  *)
(* (OracleQueries).                                                        *)
(***************************************************************************)
CONSTANTS
  Handles,      \* query positions
  Positions,    \* what they can be
  Queries,      \* the queries
  OracleOf(_),  \* the oracle of a query
  HandleOf(_),  \* its position
  Value(_, _)   \* the value of an oracle at a position

VARIABLES
  position,  \* the positions decided so far
  answers    \* the answers given so far

vars == <<position, answers>>

Extends(f, g) == DOMAIN f \subseteq DOMAIN g /\ \A x \in DOMAIN f : g[x] = f[x]

PositionsOf(known) == [known -> Positions]

Init == position \in PositionsOf({}) /\ answers \in [{} -> {}]

\* Positions are decided, none of them a second time.
Decide ==
  /\ \E known \in SUBSET Handles : position' \in PositionsOf(known)
  /\ Extends(position, position')
  /\ UNCHANGED answers

Answer(q) ==
  /\ HandleOf(q) \in DOMAIN position
  /\ q \notin DOMAIN answers
  /\ answers' = [p \in DOMAIN answers \union {q} |->
                   IF p = q THEN Value(OracleOf(q), position[HandleOf(q)]) ELSE answers[p]]
  /\ UNCHANGED position

Next == Decide \/ \E q \in Queries : Answer(q)

Spec == Init /\ [][Next]_vars
=============================================================================
