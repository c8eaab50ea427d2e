--------------------------- MODULE LigeroProtocol ---------------------------
(***************************************************************************)
(* Ligero over cosets of multiplicative subgroups: ligero_iop with its     *)
(* parameters, the interleaved R1CS protocol (encoded/ligero) and the      *)
(* direct low degree test behind its reducer (ldt), for a system read by   *)
(* R1cs.  The values of z = (1, primary, auxiliary) and of A z, B z, C z   *)
(* are cut into rows over the systematic domain, each row is extended to   *)
(* the codeword domain, and random combinations of the rows are tested.    *)
(***************************************************************************)
EXTENDS R1cs

CONSTANTS
  InverseRatio,             \* 1 / height_width_ratio_
  RS_extra_dimensions,
  NumInteractions,          \* num_interaction_phase_repetitions_
  EncodingIndependence,     \* encoding_independence_
  NumLDTInstances,          \* num_output_LDT_instances_
  Setups,                   \* what is proved, by whom and to whom, see LigeroInit
  MemoryValues,             \* field elements that may follow a vector in memory
  Masks,                    \* what the prover may draw to hide the oracles
  Combinations,             \* random linear combinations that may be drawn
  LDTCoefficients,          \* coefficients of the low degree test that may be drawn
  Positions                 \* query positions that may be drawn: encoded and ldt

VARIABLES
  setup,           \* circuit, witness, caller, make_zk and the verifier's statement
  iop,             \* the members of ligero_iop and of its parameters
  oracles,         \* what the prover submitted, by handle
  combinations,    \* the random linear combinations, of lincheck and rowcheck
  responses,       \* coefficients of the response polynomials
  ldt,             \* for each combined oracle, the drawn coefficients and its polynomial
  positions,
  outcome          \* "none", "refused", "accepted" or "rejected"

ligeroVars == <<setup, iop, oracles, combinations, responses, ldt, positions, outcome>>

Repetitions == 1..NumInteractions
LDTInstances == 1..NumLDTInstances

\* A lincheck for each matrix, and the rowcheck.
Tests == Matrices \union {"rowcheck"}

-----------------------------------------------------------------------------
(***************************************************************************)
(* Parameters (ligero_iop_parameters, ligero_iop).                         *)
(***************************************************************************)
CeilDiv(m, n) == (m + n - 1) \div n

\* 1 << n
TwoTo[n \in Nat] == IF n = 0 THEN 1 ELSE 2 * TwoTo[n - 1]

\* ceil(sqrt(num_vars / ratio)), rounded to the next power of 2.
SystematicDomainDim(num_vars) ==
  CHOOSE d \in 0..(num_vars * InverseRatio) :
    /\ TwoTo[2 * d] >= num_vars * InverseRatio
    /\ \A e \in 0..(d - 1) : TwoTo[2 * e] < num_vars * InverseRatio

\* configure_encoded_ligero_params and the constructors of ligero_iop and of
\* interleaved_r1cs_protocol, for the system that was parsed.
Configured(circuit) ==
  LET num_vars == num_variables(circuit) + 1
      dim      == SystematicDomainDim(num_vars)
      vectors  == CeilDiv(num_constraints(circuit), TwoTo[dim])
  IN [constraints            |-> ParsedConstraints(circuit),
      num_vars               |-> num_vars,
      systematic_domain_size |-> TwoTo[dim],
      num_oracles_input      |-> CeilDiv(num_vars, TwoTo[dim]),
      num_oracles_vectors    |-> vectors,
      matrices |-> [M \in Matrices |-> Matrix(ParsedConstraints(circuit), M, vectors * TwoTo[dim])],
      codeword_domain        |-> [order |-> TwoTo[dim + RS_extra_dimensions], shift |-> 1],
      \* Shifted by element_outside_of_subset.
      systematic_domain          |-> [order |-> TwoTo[dim], shift |-> Generator],
      extended_systematic_domain |-> [order |-> 2 * TwoTo[dim], shift |-> Generator]]

\* What is drawn for a configuration: one element for each place of a mask, a masking polynomial
\* of the degree of a row, a combination of all rows, a coefficient for each tested oracle but the
\* first, and positions in the codeword domain.
DrawsFit(config) ==
  LET size   == config.systematic_domain_size
      height == config.num_oracles_vectors * size
      tested == config.num_oracles_input + 3 * config.num_oracles_vectors + 1
  IN /\ \A masks \in Masks :
          /\ \A M \in Matrices, h \in Repetitions, k \in 0..(size - 2) : masks.lincheck[M][h][k] \in Field
          /\ \A h \in Repetitions, k \in 0..(EncodingIndependence - 1) : masks.rowcheck[h][k] \in Field
          /\ \A i \in LDTInstances : masks.masking[i] \in Seq(Field) /\ Len(masks.masking[i]) <= size
     /\ \A drawn \in Combinations, h \in Repetitions :
          /\ \A n \in 0..(height - 1) : drawn.lincheck[h][n] \in Field
          /\ \A i \in 1..config.num_oracles_vectors : drawn.rowcheck[h][i] \in Field
     /\ \A drawn \in LDTCoefficients, i \in LDTInstances :
          drawn[i] \in Seq(Field) /\ Len(drawn[i]) + 1 >= tested
     /\ \A drawn \in Positions :
          /\ drawn.encoded \in Seq(0..(config.codeword_domain.order - 1))
          /\ drawn.ldt \in Seq(0..(config.codeword_domain.order - 1))

\* The codeword domain has room for a response, which is twice as long as a row, and the field has
\* a subgroup of its size, as multiplicative_subgroup_base checks unless NDEBUG is set.
ASSUME LigeroAssumption ==
  /\ InverseRatio \in Nat \ {0} /\ RS_extra_dimensions \in Nat \ {0}
  /\ NumInteractions \in Nat /\ NumLDTInstances \in Nat /\ EncodingIndependence \in Nat
  /\ MemoryValues \subseteq Field
  /\ \A s \in Setups :
       /\ IsCircuit(s.circuit) /\ IsWitness(s.circuit, s.witness)
       /\ s.statement \in Seq(Field) /\ s.make_zk \in BOOLEAN
       /\ (P - 1) % Configured(s.circuit).codeword_domain.order = 0
       /\ DrawsFit(Configured(s.circuit))

systematic_domain_size == iop.systematic_domain_size
num_oracles_input      == iop.num_oracles_input
num_oracles_vectors    == iop.num_oracles_vectors
codeword_domain        == iop.codeword_domain
matrix_width           == num_oracles_input * systematic_domain_size
matrix_height          == num_oracles_vectors * systematic_domain_size
response_size          == 2 * systematic_domain_size

Places(number) == 0..(number - 1)

\* The ith row of a vector, over the systematic domain.
Row(vector, i) ==
  [k \in Places(systematic_domain_size) |-> vector[(i - 1) * systematic_domain_size + k]]

SumOfRows(f, g) == [k \in DOMAIN f |-> (f[k] + g[k]) % P]

\* The codeword of a row.
Encoded(row) == EvaluatedOver(CoefficientsFrom(row, iop.systematic_domain), codeword_domain)

\* Faulty: the systematic domain is taken to come first.
ReindexedInOrder(index) == index

\* reindex_by_subgroup: where an element of the systematic domain is in the extended one;
\* from systematic_domain_size on, where the elements outside of it are.
Reindexed(index) ==
  IF index < systematic_domain_size THEN 2 * index
  ELSE 2 * (index - systematic_domain_size) + 1

-----------------------------------------------------------------------------
(***************************************************************************)
(* The prover.                                                             *)
(***************************************************************************)
\* The caller is the ligero executable or another user of the library, whose verifier has a
\* statement of its own.
LigeroInit ==
  /\ setup \in Setups
  /\ iop = Configured(setup.circuit)
  /\ oracles = << >> /\ combinations = << >> /\ responses = << >> /\ ldt = << >>
  /\ positions = << >> /\ outcome = "none"

own_input == PrimaryInput(setup.circuit, setup.witness)
auxiliary == AuxiliaryInput(setup.circuit, setup.witness)

\* The primary input of the verifier; main.cpp passes the one that was proved.
stated_input == IF setup.caller = "main" THEN own_input ELSE setup.statement

\* main.cpp: no proof is made of what the witness does not satisfy.
Refuse ==
  /\ setup.caller = "main" /\ oracles = << >> /\ outcome = "none"
  /\ ~is_satisfied(iop.constraints, own_input, auxiliary)
  /\ outcome' = "refused"
  /\ UNCHANGED <<setup, iop, oracles, combinations, responses, ldt, positions>>

\* A primary input behind the constant, on as many columns as there are.
AdditionalInput(primary) ==
  [x \in Places(matrix_width) |-> IF x = 0 THEN 1 ELSE IF x <= Len(primary) THEN primary[x] ELSE 0]

\* auxiliary_only_witness, and what is read behind its end when the last row is not full.
AuxiliaryOnlyWitness(memory) ==
  [x \in Places(matrix_width) |->
     IF x >= iop.num_vars THEN memory[x] ELSE IF x <= Len(own_input) THEN 0
     ELSE auxiliary[x - Len(own_input)]]

extended_witness ==
  [x \in Places(matrix_width) |->
     IF x < iop.num_vars /\ x > Len(own_input) THEN auxiliary[x - Len(own_input)]
     ELSE AdditionalInput(own_input)[x]]

\* a_result_vector and the others.
Result(M) ==
  LET rows == iop.matrices[M]
  IN [n \in Places(matrix_height) |-> Total([x \in DOMAIN rows[n] |-> rows[n][x] * extended_witness[x]])]

\* submit_zero_sum_blinding_vector, for a drawn element of each place but the last
ZeroSumBlinding(drawn) ==
  LET last == systematic_domain_size - 1
  IN Encoded([k \in Places(systematic_domain_size) |->
       IF k < last THEN drawn[k] ELSE Minus(0, Total([m \in 0..(last - 1) |-> drawn[m]]))])

\* submit_zero_blinding_vector: zero on the systematic domain.
ZeroBlinding(drawn) ==
  LET place == [k \in Places(EncodingIndependence) |-> Reindexed(systematic_domain_size + k)]
      elems == [x \in Places(2 * systematic_domain_size) |->
                  IF \E k \in DOMAIN place : place[k] = x
                  THEN drawn[CHOOSE k \in DOMAIN place : place[k] = x] ELSE 0]
  IN EvaluatedOver(CoefficientsFrom(elems, iop.extended_systematic_domain), codeword_domain)

\* The first round: submit_witness_oracles, submit_blinding_vector_oracles and
\* submit_masking_polynomial.
SubmitOracles ==
  /\ oracles = << >> /\ outcome = "none"
  /\ setup.caller = "main" => is_satisfied(iop.constraints, own_input, auxiliary)
  /\ \E memory \in [iop.num_vars..(matrix_width - 1) -> MemoryValues],
        masks \in IF setup.make_zk THEN Masks ELSE {<< >>} :
       oracles' =
         [w |-> [i \in 1..num_oracles_input |-> Encoded(Row(AuxiliaryOnlyWitness(memory), i))],
          result |-> [M \in Matrices |-> [i \in 1..num_oracles_vectors |-> Encoded(Row(Result(M), i))]],
          blinding |->
            IF setup.make_zk
            THEN [name \in Tests |-> [h \in Repetitions |->
                    IF name = "rowcheck" THEN ZeroBlinding(masks.rowcheck[h])
                    ELSE ZeroSumBlinding(masks.lincheck[name][h])]]
            ELSE << >>,
          masking |->
            IF setup.make_zk
            THEN [i \in LDTInstances |-> EvaluatedOver(masks.masking[i], codeword_domain)]
            ELSE << >>]
  /\ UNCHANGED <<setup, iop, combinations, responses, ldt, positions, outcome>>

\* A blinding vector at a position, or nothing.
Blinding(name, h, a) == IF setup.make_zk THEN oracles.blinding[name][h][a] ELSE 0

\* r^T M: the random combination r of the rows of a matrix.
RandomizedMatrix(M, r) ==
  LET rows == iop.matrices[M]
  IN [x \in Places(matrix_width) |->
        Total([n \in {n \in DOMAIN rows : x \in DOMAIN rows[n]} |-> r[n] * rows[n][x]])]

\* Lincheck, for all positions of the codeword domain: r (M z) - (r^T M) z, row by row; the
\* primary input is added to the oracles, which hold zeros in its place.
LincheckEvaluations(M, h, primary) ==
  LET r     == combinations.lincheck[h]
      s     == RandomizedMatrix(M, r)
      input == AdditionalInput(primary)
      r_row == [i \in 1..num_oracles_vectors |-> Encoded(Row(r, i))]
      s_row == [i \in 1..num_oracles_input |-> Encoded(Row(s, i))]
      witness_row == [i \in 1..num_oracles_input |-> SumOfRows(oracles.w[i], Encoded(Row(input, i)))]
  IN [a \in Places(codeword_domain.order) |->
        (Minus(Total([i \in 1..num_oracles_vectors |-> r_row[i][a] * oracles.result[M][i][a]]),
               Total([i \in 1..num_oracles_input |-> s_row[i][a] * witness_row[i][a]]))
           + Blinding(M, h, a)) % P]

\* Rowcheck: the random combination of the rows of (A z)(B z) - C z.
RowcheckEvaluations(h) ==
  [a \in Places(codeword_domain.order) |->
     (Total([i \in 1..num_oracles_vectors |->
              combinations.rowcheck[h][i]
                * Minus((oracles.result["A"][i][a] * oracles.result["B"][i][a]) % P,
                        oracles.result["C"][i][a])])
        + Blinding("rowcheck", h, a)) % P]

\* The first response_size coefficients of the polynomial with these values.
Response(evaluations) == SubSeq(CoefficientsFrom(evaluations, codeword_domain), 1, response_size)

\* The second round: the combinations are drawn, all linchecks with the same, and
\* calculate_and_submit_proof answers them.
DrawCombinations ==
  /\ oracles # << >> /\ combinations = << >>
  /\ combinations' \in Combinations
  /\ UNCHANGED <<setup, iop, oracles, responses, ldt, positions, outcome>>

SubmitResponses ==
  /\ combinations # << >> /\ responses = << >>
  /\ responses' =
       [name \in Tests |-> [h \in Repetitions |->
          Response(IF name = "rowcheck" THEN RowcheckEvaluations(h)
                   ELSE LincheckEvaluations(name, h, own_input))]]
  /\ UNCHANGED <<setup, iop, oracles, combinations, ldt, positions, outcome>>

\* concatenated_vector_handles, and the masking polynomial of the instance.
TestedOracles(i) ==
  oracles.w \o oracles.result["A"] \o oracles.result["B"] \o oracles.result["C"]
    \o (IF setup.make_zk THEN << oracles.masking[i] >> ELSE << >>)

\* combined_LDT_virtual_oracle; all oracles are of the maximal degree.
Combined(i, drawn) ==
  LET tested == TestedOracles(i)
      factor == <<1>> \o drawn
  IN [a \in Places(codeword_domain.order) |-> Total([n \in DOMAIN tested |-> factor[n] * tested[n][a]])]

\* The third round: the reducer combines the tested oracles, and direct_LDT_protocol sends the
\* polynomial of each combination.
SubmitPolynomial ==
  /\ responses # << >> /\ ldt = << >>
  /\ \E drawn \in LDTCoefficients :
       ldt' = [i \in LDTInstances |->
                 [coefficients |-> drawn[i],
                  polynomial   |-> SubSeq(CoefficientsFrom(Combined(i, drawn[i]), codeword_domain),
                                          1, systematic_domain_size)]]
  /\ UNCHANGED <<setup, iop, oracles, combinations, responses, positions, outcome>>

-----------------------------------------------------------------------------
(***************************************************************************)
(* The verifier.                                                           *)
(***************************************************************************)
\* What a response is on the systematic domain.
SystematicResponse(name, h) ==
  LET evaluations == EvaluatedOver(responses[name][h], iop.extended_systematic_domain)
  IN [d \in Places(systematic_domain_size) |-> evaluations[Reindexed(d)]]

\* The consistency test: a response against what the oracles say at the queried positions.
Consistent(name, h, evaluations, queried) ==
  \A k \in DOMAIN queried :
    evaluations[queried[k]]
      = Evaluation(responses[name][h], ElementByIndex(codeword_domain, queried[k]))

\* interleaved_lincheck_ot_protocol::verifier_predicate
LincheckAccepts(M, h, queried) ==
  /\ LET d == SystematicResponse(M, h) IN Total(d) = 0
  /\ Consistent(M, h, LincheckEvaluations(M, h, stated_input), queried)

\* interleaved_rowcheck_protocol::verifier_predicate
RowcheckAccepts(h, queried) ==
  /\ LET d == SystematicResponse("rowcheck", h) IN \A k \in DOMAIN d : d[k] = 0
  /\ Consistent("rowcheck", h, RowcheckEvaluations(h), queried)

\* direct_LDT_protocol::verifier_predicate
DirectTestAccepts(i, queried) ==
  LET combined == Combined(i, ldt[i].coefficients)
  IN \A k \in DOMAIN queried :
       combined[queried[k]]
         = Evaluation(ldt[i].polynomial, ElementByIndex(codeword_domain, queried[k]))

LigeroVerifierPredicate ==
  /\ ldt # << >> /\ outcome = "none"
  /\ \E drawn \in Positions :
       /\ positions' = drawn
       /\ outcome' =
            IF /\ \A h \in Repetitions :
                    /\ \A M \in Matrices : LincheckAccepts(M, h, drawn.encoded)
                    /\ RowcheckAccepts(h, drawn.encoded)
               /\ \A i \in LDTInstances : DirectTestAccepts(i, drawn.ldt)
            THEN "accepted" ELSE "rejected"
  /\ UNCHANGED <<setup, iop, oracles, combinations, responses, ldt>>

LigeroNext ==
  \/ Refuse \/ SubmitOracles \/ DrawCombinations \/ SubmitResponses \/ SubmitPolynomial
  \/ LigeroVerifierPredicate

LigeroSpec == LigeroInit /\ [][LigeroNext]_ligeroVars

-----------------------------------------------------------------------------
(***************************************************************************)
(* Properties.                                                             *)
(***************************************************************************)
\* The ligero executable, from the files it is given to the verdict: it refuses to prove
\* exactly when the witness does not satisfy the circuit as circom means it, and what it
\* proves is accepted, whatever is drawn, and whatever follows the witness in memory, which
\* the last row takes in when it is not full.
ExecutableFollowsTheCircuit ==
  setup.caller = "main" =>
    outcome \in {"none", IF CircuitHolds(setup.circuit, setup.witness) THEN "accepted" ELSE "refused"}

\* The errors of the constraints and of the primary input, as they are.
ConstraintError(n) ==
  IF n >= Len(iop.constraints) THEN 0
  ELSE Minus((Result("A")[n] * Result("B")[n]) % P, Result("C")[n])
InputError(x) ==
  Minus(AdditionalInput(stated_input)[x], AdditionalInput(own_input)[x])

\* Any caller, of any witness and to a verifier with any primary input: the verdict is decided
\* by nothing but these errors.  A proof is accepted exactly if, in every interaction, the
\* drawn combination of the rows of errors is zero in each column, and the error of the input
\* cannot be seen at any of the positions.
VerdictFollowsTheErrors ==
  outcome \in {"accepted", "rejected"} =>
    (outcome = "accepted" <=>
       \A h \in Repetitions :
         /\ \A d \in Places(systematic_domain_size) :
              Total([i \in 1..num_oracles_vectors |->
                      combinations.rowcheck[h][i]
                        * ConstraintError((i - 1) * systematic_domain_size + d)]) = 0
         /\ \A M \in Matrices, k \in DOMAIN positions.encoded :
              LET s     == RandomizedMatrix(M, combinations.lincheck[h])
                  error == [x \in Places(matrix_width) |-> InputError(x)]
              IN Total([i \in 1..num_oracles_input |->
                         Encoded(Row(s, i))[positions.encoded[k]]
                           * Encoded(Row(error, i))[positions.encoded[k]]]) = 0)
=============================================================================
