----------------------------- MODULE FriProtocol -----------------------------
(***************************************************************************)
(* The FRI low degree test (protocols/ldt/fri) of one oracle over a coset  *)
(* of a multiplicative subgroup: in each reduction the prover submits its  *)
(* codewords, receives a challenge for each interaction and folds every    *)
(* coset of the domain to the value of its interpolation at the challenge; *)
(* the last codeword is sent as a polynomial.  The verifier follows random *)
(* positions down the reductions, reading the coset around each, out of    *)
(* leaves that hold a coset each (CosetDomains).                           *)
(***************************************************************************)
EXTENDS CosetDomains

CONSTANTS
  CodewordDomain,          \* the domain of the tested oracle
  PolyDegreeBound,         \* poly_degree_bound_
  LocalizationParameters,  \* localization_parameters_
  InteractiveRepetitions,  \* num_interactive_repetitions_
  QueryRepetitions,        \* num_query_repetitions_
  Polynomials,             \* sequences of coefficients: what the tested oracle may hold
  Challenges               \* the field elements the verifier may draw

Interactions   == 1..InteractiveRepetitions
num_reductions == Len(LocalizationParameters)
Reductions     == 0..(num_reductions - 1)

LocalizerDegree(i) == 2^LocalizationParameters[i + 1]

final_polynomial_degree_bound ==
  LET bound[i \in 0..num_reductions] ==
        IF i = 0 THEN PolyDegreeBound ELSE bound[i - 1] \div LocalizerDegree(i - 1)
  IN bound[num_reductions]

\* Faulty: the shift stays that of the codeword domain.
LocalizedShiftless(domain, degree) == [order |-> domain.order \div degree, shift |-> domain.shift]

\* The image of a domain under the localizer polynomial x^degree.
Localized(domain, degree) ==
  [order |-> domain.order \div degree, shift |-> Power[domain.shift][degree]]

domains ==
  LET d[i \in 0..num_reductions] ==
        IF i = 0 THEN CodewordDomain ELSE Localized(d[i - 1], LocalizerDegree(i - 1))
  IN d

\* The constructor of FRI_protocol_parameters refuses other degree bounds.
ASSUME FriAssumption ==
  /\ CodewordDomain \in [order : Nat \ {0}, shift : Field \ {0}]
  /\ (P - 1) % CodewordDomain.order = 0
  /\ LocalizationParameters \in Seq(Nat) /\ num_reductions > 0
  /\ \A i \in Reductions :
       LocalizerDegree(i) \in Nat \ {0} /\ domains[i].order % LocalizerDegree(i) = 0
  /\ PolyDegreeBound \in Nat \ {0} /\ PolyDegreeBound < CodewordDomain.order
  /\ final_polynomial_degree_bound * (CodewordDomain.order \div domains[num_reductions].order)
       = PolyDegreeBound
  /\ InteractiveRepetitions \in Nat \ {0} /\ QueryRepetitions \in Nat \ {0}
  /\ \A c \in Polynomials : c \in Seq(Field) /\ Len(c) <= CodewordDomain.order
  /\ Challenges \subseteq Field

VARIABLES
  coefficients,       \* of the polynomial whose values the tested oracle holds
  codewords,          \* codewords[i + 1][j]: f_i of interaction j
  challenges,         \* challenges[i + 1][j]: x_i of interaction j
  final_polynomials,  \* for each interaction, once they are sent
  s0_positions,       \* the random query position of each query repetition
  transcript_is_valid,
  decision            \* "none", "accepted" or "rejected"

vars == <<coefficients, codewords, challenges, final_polynomials, s0_positions,
          transcript_is_valid, decision>>

-----------------------------------------------------------------------------
(***************************************************************************)
(* Folding.                                                                *)
(***************************************************************************)
\* The prover's running cur_h: the first element of coset j, except that it stays where it
\* is once a coset has been found to contain x.
RunningH(domain, size, x) ==
  LET h[j \in 0..(NumCosets(domain, size) - 1)] ==
        IF j = 0 THEN domain.shift
        ELSE IF Power[x][size] = Power[h[j - 1]][size] THEN h[j - 1]
        ELSE (h[j - 1] * RootOfUnity(domain.order)) % P
  IN h

\* evaluate_next_f_i_over_entire_domain: coset by coset, the sum over its elements of
\* f / (x g^-k - h), times x^size h^(1 - size) - h over size; if x is ever in the domain, the
\* evaluation that was marked last is corrected.
NextCodeword(f, domain, size, x) ==
  LET cosets == 0..(NumCosets(domain, size) - 1)
      g      == RootOfUnity(size)
      h      == RunningH(domain, size, x)
      In(j)  == Power[x][size] = Power[h[j]][size]
      marked == {j \in cosets : In(j)}
      constant(j) == Minus((Power[x][size] * Inverted[Power[h[j]][size - 1]]) % P, h[j])
      interpolation(j) ==
        (constant(j) * Inverted[size]
           * Total([k \in 0..(size - 1) |->
               f[PositionByCosetIndices(domain, j, k, size)]
                 * Inverted[Minus((x * Inverted[Power[g][k]]) % P, h[j])]])) % P
      found(j) == CHOOSE k \in 0..(size - 1) : (h[j] * Power[g][k]) % P = x
  IN [j \in cosets |->
        IF ~In(j) THEN interpolation(j)
        ELSE IF \E l \in marked : l > j THEN 0
        ELSE f[PositionByCosetIndices(domain, j, found(j), size)]]

\* evaluate_next_f_i_at_coset: values are those on the coset that starts at h.
FoldedCoset(values, size, h, x) ==
  LET g    == RootOfUnity(size)
      v(k) == (h * Power[g][k]) % P
      c    == (Minus(Power[x][size], Power[h][size])
                 * Inverted[(size * Power[h][size - 1]) % P]) % P
      at   == {k \in 0..(size - 1) : v(k) = x}
  IN IF at # {} THEN values[CHOOSE k \in at : TRUE]
     ELSE Total([k \in 0..(size - 1) |->
            Inverted[Minus(x, v(k))] * ((c * Power[g][k]) % P) * values[k]])

-----------------------------------------------------------------------------
(***************************************************************************)
(* The prover (calculate_and_submit_proof).                                *)
(***************************************************************************)
Init ==
  /\ coefficients \in Polynomials
  /\ codewords = <<[j \in Interactions |-> EvaluatedOver(coefficients, CodewordDomain)]>>
  /\ challenges = << >>
  /\ final_polynomials = << >>
  /\ s0_positions = << >>
  /\ transcript_is_valid = FALSE
  /\ decision = "none"

\* A reduction: the codewords are submitted, and each is folded at the challenge drawn for
\* its interaction.
Reduce ==
  /\ Len(challenges) < num_reductions
  /\ \E xs \in [Interactions -> Challenges] :
       LET i == Len(challenges)
       IN /\ challenges' = Append(challenges, xs)
          /\ codewords' = Append(codewords,
               [j \in Interactions |->
                  NextCodeword(codewords[i + 1][j], domains[i], LocalizerDegree(i), xs[j])])
  /\ UNCHANGED <<coefficients, final_polynomials, s0_positions, transcript_is_valid, decision>>

\* final_poly_coeffs.resize
Resized(c) == SubSeq(c, 1, final_polynomial_degree_bound)

SendFinalPolynomials ==
  /\ Len(challenges) = num_reductions
  /\ final_polynomials = << >>
  /\ final_polynomials' =
       [j \in Interactions |->
          Resized(CoefficientsFrom(codewords[num_reductions + 1][j], domains[num_reductions]))]
  /\ UNCHANGED <<coefficients, codewords, challenges, s0_positions, transcript_is_valid, decision>>

-----------------------------------------------------------------------------
(***************************************************************************)
(* The verifier.                                                           *)
(***************************************************************************)
\* calculate_next_coset_query_positions: the coset of f_i around the place that a position
\* of f_{i - 1} is folded to.
NextQueryPositions(i, seed) ==
  LET localized == CosetIndex(domains[i - 1], seed, LocalizerDegree(i - 1))
      coset     == CosetIndex(domains[i], localized, LocalizerDegree(i))
  IN [k \in 0..(LocalizerDegree(i) - 1) |->
        PositionByCosetIndices(domains[i], coset, k, LocalizerDegree(i))]

\* register_queries: the positions in each reduction that go with s0; in the first they are
\* the coset of s0 (query_position_to_queries_for_entire_coset), in the others they follow
\* from the first position of the reduction before.
QueryPositions(s0) ==
  LET size == LocalizerDegree(0)
      positions[i \in Reductions] ==
        IF i = 0
        THEN [k \in 0..(size - 1) |->
                PositionByCosetIndices(domains[0], CosetIndex(domains[0], s0, size), k, size)]
        ELSE NextQueryPositions(i, positions[i - 1][0])
  IN positions

\* The oracles of a round: the tested oracle, then one for each interaction.
RoundOracles(i) == IF i = 0 THEN <<codewords[1][1]>> ELSE codewords[i + 1]

\* In every round, the leaves rebuilt from the queried values are those of its tree.
TranscriptIsValid(s0s) ==
  \A i \in Reductions :
    LET queried == UNION {{QueryPositions(s0s[q])[i][k] : k \in 0..(LocalizerDegree(i) - 1)}
                          : q \in DOMAIN s0s}
    IN LeavesFit(RoundOracles(i), queried, domains[i], LocalizerDegree(i))

SealVerifier ==
  /\ final_polynomials # << >>
  /\ s0_positions = << >>
  /\ s0_positions' \in [1..QueryRepetitions -> 0..(CodewordDomain.order - 1)]
  /\ transcript_is_valid' = TranscriptIsValid(s0_positions')
  /\ UNCHANGED <<coefficients, codewords, challenges, final_polynomials, decision>>

\* s_i: s0 reduced to the index of its coset, i times.
SiIndex(s0) ==
  LET si[i \in 0..num_reductions] ==
        IF i = 0 THEN s0 ELSE CosetIndex(domains[i - 1], si[i - 1], LocalizerDegree(i - 1))
  IN si

\* What is read in reduction i, in the order of the coset.
QueriedValues(j, s0, i) ==
  [k \in 0..(LocalizerDegree(i) - 1) |-> RoundOracles(i)[IF i = 0 THEN 1 ELSE j][QueryPositions(s0)[i][k]]]

\* The fold of what is read in reduction i.
Interpolation(j, s0, i) ==
  LET start == PositionByCosetIndices(domains[i], SiIndex(s0)[i + 1], 0, LocalizerDegree(i))
  IN FoldedCoset(QueriedValues(j, s0, i), LocalizerDegree(i),
                 ElementByIndex(domains[i], start), challenges[i + 1][j])

\* The element s_i of the last domain.
LastElement(s0) ==
  LET s[i \in 0..num_reductions] ==
        IF i = 0 THEN ElementByIndex(CodewordDomain, s0)
        ELSE Power[s[i - 1]][LocalizerDegree(i - 1)]
  IN s[num_reductions]

\* predicate_for_query_set
PredicateForQuerySet(j, s0) ==
  /\ \A i \in Reductions \ {0} :
       Interpolation(j, s0, i - 1)
         = QueriedValues(j, s0, i)[IntraCosetIndex(domains[i], SiIndex(s0)[i], LocalizerDegree(i))]
  /\ Interpolation(j, s0, num_reductions - 1) = Evaluation(final_polynomials[j], LastElement(s0))

VerifierPredicate ==
  /\ s0_positions # << >>
  /\ decision = "none"
  /\ decision' =
       IF /\ transcript_is_valid
          /\ \A q \in DOMAIN s0_positions, j \in Interactions :
               PredicateForQuerySet(j, s0_positions[q])
       THEN "accepted" ELSE "rejected"
  /\ UNCHANGED <<coefficients, codewords, challenges, final_polynomials, s0_positions,
                 transcript_is_valid>>

Next == Reduce \/ SendFinalPolynomials \/ SealVerifier \/ VerifierPredicate

Spec == Init /\ [][Next]_vars

-----------------------------------------------------------------------------
(***************************************************************************)
(* Properties.                                                             *)
(***************************************************************************)
\* The challenge falls on a coset of the domain that the prover's loop does not end with:
\* from there on the prover takes every coset to contain it.
Misread(i, x) ==
  \E p \in 0..(domains[i].order - 1) :
    /\ ElementByIndex(domains[i], p) = x
    /\ CosetIndex(domains[i], p, LocalizerDegree(i))
         # NumCosets(domains[i], LocalizerDegree(i)) - 1

\* No challenge of the first n reductions of interaction j is misread.
ReadWell(j, n) == \A i \in 0..(n - 1) : ~Misread(i, challenges[i + 1][j])

\* The polynomial with coefficients c folded at x: its terms of degree n size + k are
\* gathered, x^k at a time, to the term of degree n.
FoldedCoefficients(c, size, x) ==
  [n \in 1..((Len(c) + size - 1) \div size) |->
     Total([k \in {k \in 0..(size - 1) : (n - 1) * size + k < Len(c)} |->
              c[(n - 1) * size + k + 1] * Power[x][k]])]

\* What f_n of interaction j should be the values of.
PolynomialOf(j, n) ==
  LET poly[i \in 0..n] ==
        IF i = 0 THEN coefficients
        ELSE FoldedCoefficients(poly[i - 1], LocalizerDegree(i - 1), challenges[i][j])
  IN poly[n]

\* The codewords that are folded one coset at a time, out of values only, stay the values of
\* one polynomial, whose degree every reduction divides; also when a challenge is an element
\* of the last coset of the domain, where the sum is not defined.
CodewordsFollowThePolynomial ==
  \A n \in 0..(Len(codewords) - 1), j \in Interactions :
    ReadWell(j, n) => codewords[n + 1][j] = EvaluatedOver(PolynomialOf(j, n), domains[n])

LowDegree(c, bound) == \A n \in DOMAIN c : n > bound => c[n] = 0

\* The verifier, which sees a coset in each reduction, leaves rebuilt from what it was sent
\* and a polynomial cut to its degree bound, decides as one who sees everything: it accepts if
\* and only if, at each place that a query leads to, the last codeword is the polynomial that
\* was sent.  In particular it accepts a polynomial of low degree.
VerdictFollowsTheDegree ==
  decision # "none" /\ (\A j \in Interactions : ReadWell(j, num_reductions)) =>
    /\ decision = "accepted" <=>
         \A q \in DOMAIN s0_positions, j \in Interactions :
           LET p == s0_positions[q] % domains[num_reductions].order
           IN Evaluation(final_polynomials[j], ElementByIndex(domains[num_reductions], p))
                = codewords[num_reductions + 1][j][p]
    /\ LowDegree(coefficients, PolyDegreeBound) => decision = "accepted"

\* The value at x of the polynomial of degree less than size through the values on a coset.
Lagrange(f, domain, size, coset, x) ==
  LET position(k) == PositionByCosetIndices(domain, coset, k, size)
      v(k)        == ElementByIndex(domain, position(k))
      basis(k)    == LET product[l \in 0..size] ==
                           IF l = 0 THEN 1
                           ELSE IF l - 1 = k THEN product[l - 1]
                           ELSE (product[l - 1] * Minus(x, v(l - 1))
                                   * Inverted[Minus(v(k), v(l - 1))]) % P
                     IN product[size]
  IN Total([k \in 0..(size - 1) |-> f[position(k)] * basis(k)])

\* The comment of evaluate_next_f_i_over_entire_domain: with C the jth coset and P
\* interpolated from f_i on C, f_{i + 1}(j) = P(x_i).
NextCodewordInterpolatesEveryCoset ==
  \A i \in 0..(Len(codewords) - 2), j \in Interactions :
    codewords[i + 2][j] =
      [c \in 0..(domains[i + 1].order - 1) |->
         Lagrange(codewords[i + 1][j], domains[i], LocalizerDegree(i), c, challenges[i + 1][j])]
=============================================================================
