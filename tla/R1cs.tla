-------------------------------- MODULE R1cs --------------------------------
(***************************************************************************)
(* Rank one constraint systems (relations/r1cs.tcc) and how the ligero     *)
(* executable (libiop/main) makes one, and an assignment of its variables, *)
(* out of what circom and snarkjs wrote.                                   *)
(*                                                                         *)
(* A circuit is what the files of circom say: the numbers of wires and of  *)
(* public outputs and inputs, and for each constraint three maps from      *)
(* wires to coefficients.  Wire 0 is the constant 1, then come outputs,    *)
(* public inputs and the others.  A witness gives all wires in this order. *)
(* Maps are read into lists of terms, whose order does not matter, as JSON *)
(* objects do not repeat a key.                                            *)
(***************************************************************************)
EXTENDS CosetDomains

Matrices == {"A", "B", "C"}

\* What circom writes: wires are public or private or the constant.
IsCircuit(circuit) ==
  /\ circuit.public_inputs \in Nat /\ circuit.public_outputs \in Nat
  /\ circuit.wires \in Nat /\ circuit.public_inputs + circuit.public_outputs < circuit.wires
  /\ Len(circuit.constraints) \in Nat /\ DOMAIN circuit.constraints = 1..Len(circuit.constraints)
  /\ \A n \in DOMAIN circuit.constraints, M \in Matrices :
       LET terms == circuit.constraints[n][M]
       IN DOMAIN terms \subseteq 0..(circuit.wires - 1) /\ \A wire \in DOMAIN terms : terms[wire] \in Field

\* What snarkjs writes.
IsWitness(circuit, witness) ==
  witness \in Seq(Field) /\ Len(witness) = circuit.wires /\ witness[1] = 1

-----------------------------------------------------------------------------
(***************************************************************************)
(* Parsing.                                                                *)
(***************************************************************************)
\* parse_r1cs_log
PrimaryInputSize(circuit)   == circuit.public_inputs + circuit.public_outputs
AuxiliaryInputSize(circuit) == circuit.wires - PrimaryInputSize(circuit)

\* A linear combination without terms gets one with index 0 and coefficient 0.
ParsedCombination(terms) == IF DOMAIN terms = {} THEN [x \in {0} |-> 0] ELSE terms

\* parse_r1cs_json
ParsedConstraints(circuit) ==
  [n \in DOMAIN circuit.constraints |->
     [M \in Matrices |-> ParsedCombination(circuit.constraints[n][M])]]

\* Faulty: the constant 1 is not skipped.
PrimaryInputWithOne(circuit, witness) == SubSeq(witness, 1, PrimaryInputSize(circuit))

\* parse_witness_json: the first entry is skipped, the rest are split.  The number of wires
\* counts the constant, so that one auxiliary input more than there are keeps its zero.
PrimaryInput(circuit, witness) == SubSeq(witness, 2, PrimaryInputSize(circuit) + 1)
AuxiliaryInput(circuit, witness) ==
  [n \in 1..AuxiliaryInputSize(circuit) |->
     LET entry == PrimaryInputSize(circuit) + 1 + n
     IN IF entry <= Len(witness) THEN witness[entry] ELSE 0]

-----------------------------------------------------------------------------
(***************************************************************************)
(* The system and its matrices.                                            *)
(***************************************************************************)
num_variables(circuit)   == PrimaryInputSize(circuit) + AuxiliaryInputSize(circuit)
num_constraints(circuit) == Len(circuit.constraints)

\* linear_combination::evaluate; assignment does not hold the constant.
Evaluated(terms, assignment) ==
  Total([x \in DOMAIN terms |-> (IF x = 0 THEN 1 ELSE assignment[x]) * terms[x]])

is_satisfied(constraints, primary_input, auxiliary_input) ==
  \A n \in DOMAIN constraints :
    LET value(M) == Evaluated(constraints[n][M], primary_input \o auxiliary_input)
    IN (value("A") * value("B")) % P = value("C")

\* A_matrix, B_matrix and C_matrix, with the rows that Ligero adds at the end; rows count
\* from 0 and are maps from columns to coefficients.
Matrix(constraints, M, height) ==
  [n \in 0..(height - 1) |-> IF n < Len(constraints) THEN constraints[n + 1][M] ELSE << >>]

\* What the files say without being parsed: the witness satisfies the circuit.
CircuitHolds(circuit, witness) ==
  \A n \in DOMAIN circuit.constraints :
    LET value(M) == Total([wire \in DOMAIN circuit.constraints[n][M] |->
                            circuit.constraints[n][M][wire] * witness[wire + 1]])
    IN (value("A") * value("B")) % P = value("C")
=============================================================================
