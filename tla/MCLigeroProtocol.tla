-------------------------- MODULE MCLigeroProtocol --------------------------
(***************************************************************************)
(* Instances of LigeroProtocol over the field with 97 elements: rows of 4  *)
(* and codewords of 16.  shares has two rows of constraints, of which the  *)
(* third and the seventh, in one column, are the same but for a factor 2;  *)
(* its last row of variables is not full.  choice has a primary input that *)
(* goes on in the second row of variables.                                 *)
(***************************************************************************)
EXTENDS LigeroProtocol
LOCAL INSTANCE TLC

Zero == << >>
Wire(w) == w :> 1
Constraint(a, b, c) == [A |-> a, B |-> b, C |-> c]

\* out = s^2 + x s for a public x and a private s
Square == Constraint(Wire(3), Wire(3), Wire(4))
Sum    == Constraint(Wire(4) @@ Wire(5), Wire(0), Wire(1))
shares ==
  [public_inputs |-> 1, public_outputs |-> 1, wires |-> 6,
   constraints |-> <<Square, Constraint(Wire(2), Wire(3), Wire(5)), Sum, Square, Square, Square,
                     Constraint((4 :> 2) @@ (5 :> 2), Wire(0), 1 :> 2)>>]

\* o1 = i1 p and o2 = i2 p for public i1 and i2 and a private bit p
choice ==
  [public_inputs |-> 2, public_outputs |-> 2, wires |-> 6,
   constraints |-> <<Constraint(Wire(3), Wire(5), Wire(1)), Constraint(Wire(4), Wire(5), Wire(2)),
                     Constraint(Wire(5), Wire(5) @@ (0 :> 96), Zero)>>]

Proof(circuit, witness, statement, caller, zk) ==
  [circuit |-> circuit, witness |-> witness, statement |-> statement, caller |-> caller,
   make_zk |-> zk]

right == <<1, 24, 5, 3, 9, 15>>
wrong == <<1, 30, 5, 3, 9, 15>>
bit   == <<1, 5, 6, 5, 6, 1>>

MCSetups ==
  {Proof(shares, right, << >>, "main", TRUE),
   Proof(shares, wrong, << >>, "main", TRUE),
   Proof(shares, right, <<24, 5>>, "library", FALSE),
   Proof(shares, wrong, <<30, 5>>, "library", TRUE),
   Proof(choice, bit, << >>, "main", TRUE),
   Proof(choice, bit, <<5, 6, 5, 7>>, "library", TRUE),
   Proof(choice, bit, <<8, 6, 5, 6>>, "library", FALSE)}

MCMasks ==
  {[lincheck |-> [M \in Matrices |-> [h \in Repetitions |-> [k \in 0..2 |-> (7 * h + 11 * k + (IF M = "A" THEN 1 ELSE IF M = "B" THEN 5 ELSE 8)) % P]]],
    rowcheck |-> [h \in Repetitions |-> [k \in 0..2 |-> (13 * h + k) % P]],
    masking  |-> << <<9, 8, 7, 6>>, <<1, 0, 2, 4>> >>]}

\* The fourth variable of choice is not seen at position 3 under Blind and Blind doubled.
First == [n \in 0..7 |-> 3 * n + 1]
Blind == [n \in 0..7 |-> CASE n = 0 -> 82 [] n = 2 -> 14 [] OTHER -> 1]
Pairs == {<<First, Blind>>, <<Blind, [n \in 0..7 |-> (2 * Blind[n]) % P]>>}
MCCombinations ==
  {[lincheck |-> lincheck, rowcheck |-> << <<95, 1>>, last >>] :
     lincheck \in Pairs, last \in {<<95, 1>>, <<3, 4>>}}
MCLDTCoefficients == {[i \in LDTInstances |-> [n \in 1..22 |-> (n * n + i) % P]]}
MCPositions == {[encoded |-> <<n, (5 * n + 4) % 16>>, ldt |-> <<(11 * n) % 16>>] : n \in 0..15}
=============================================================================
