# PQKryvos: specifications, model checks and proofs

PQKryvos proves that the result of an election was tallied correctly without
showing the ballots. Circom circuits (`circom/circuits/src`) say what a valid
ballot and a correct result are; `libiop` (with the `ligero` executable in
`libiop/main`) turns the constraint system of such a circuit, and a witness, into
a proof. This directory holds TLA+ modules translated from that code, TLC
configurations that check them on small instances, and TLAPS proofs.

## 1. Inventory

| Part | State it keeps | Operations | What is hard | What makes it correct |
|---|---|---|---|---|
| `iop/iop.{hpp,tcc}`: `iop_protocol` | registrations of domains, oracles, messages, queries; direction of the last message; boundaries of the rounds; what was submitted and drawn | `register_*`, `seal_*`, `submit_*`, `signal_*`, `obtain_*` | any order of some twenty calls; calls refused half way; unchecked indices | rounds partition the registrations; submissions follow the rounds; no random message before the commitment it answers |
| `bcs/bcs_{common,prover,verifier,indexer}.tcc` | hash chain, Merkle trees and a count of processed ones, challenges, proof of work, transcript | `signal_prover_round_done`, `submit_prover_index`, `get_transcript`, `seal_interaction_registrations` (replay), `get_*_index` | three programs that must do the same things in the same order without talking | the verifier reconstructs the prover's challenges and query positions; honest proofs are accepted |
| `bcs/merkle_tree.tcc` | `inner_nodes_`, salts | construct, multi-opening proof, validation, hash count | prover and verifier each decide which hashes are in the proof | exactly the committed leaves validate; the proof is minimal |
| `bcs/pow.tcc` | parameters | solve, verify | shifts in the width of `int` | an answer takes the stated work |
| `bcs/hashing` | sponge state and position | absorb, squeeze, two-to-one hash | rate boundary, absorb after squeeze | same inputs in the same order give the same outputs |
| virtual oracles (`iop.tcc`, `oracles.hpp`) | evaluation caches, recorded positions | evaluate whole or at a point, record | caches that hide a recording or go stale | every position the verifier needs is recorded |
| Ligero, Aurora, Fractal (`protocols/`) | oracle handles, parameters, challenges | register interactions and queries, produce proof, verifier predicate | parameter arithmetic, layouts | complete: an honest witness satisfies the predicate |
| low degree tests (`protocols/ldt`) | FRI rounds, localisers, query sets | reduce, fold, query | position arithmetic across domains | the folded oracles are consistent |
| `relations`, `algebra` | constraint systems; fields and domains | evaluation, FFT, cosets | index arithmetic | definitions |
| `libiop/main` | parsed R1CS and witness | parse, run | text search in JSON, variable renumbering | the parsed system is the circuit's |
| Circom circuits | signals | ballot validity, tallying, result functions, list gates, commitments | values outside the intended range, ties | constraints hold exactly of correct inputs |

How the parts interact. A protocol of `protocols/` describes itself to an
`iop_protocol` and later submits its oracles there. `bcs_prover`, `bcs_verifier`
and `bcs_indexer` ARE `iop_protocol`s that override some calls, so prover,
verifier and indexer run the same description code and share no memory; they
exchange the transcript and the index. `bcs_*` call the Merkle trees, the hash
chain and the proof of work. There are no threads: what is hard is not
interleaving inside a program but the order of calls that a user of these
classes may choose, and the agreement of three programs that run at different
times.

`depends/`, circomlib, generated benchmark circuits and `test/` inputs are
third-party or generated and are left aside.

## 2. Modules

| Module | Models | Correspondence |
|---|---|---|
| `IopProtocol` | `iop_protocol` | One variable per field (its name without the underscore, `num_oracles_at_end_of_round_` is `oracles_at_end`); one action per call. A call that throws without a trace is simply not enabled; a call that throws after changing state has an action of its own (`SubmitProverIndexRefused`, `SubmitProverIndexRefusedAtMessage`). `update_rounds_and_direction` is the operator `UpdateRoundsAndDirection`, part of the registration actions. Handles count from 1. |
| `BcsTransform` | `bcs_prover`, `bcs_verifier`, `bcs_indexer` and their callers | EXTENDS `IopProtocol`, whose description variables all programs share and whose run variables are the prover's. A hash is symbolic: a root is the tree `<<round, domain>>`, a challenge or a position is the hash chain it was squeezed from, so two are equal exactly when the same things were absorbed and squeezed before. |
| `BcsTransformProofs` | theorems about it and about `IopProtocol`, which it extends | see section 5 |
| `PublicCoinProof` | what the transformation promises | abstract: a conversation grows, is heard whole by the verifier, is accepted |
| `MerkleTree` | `merkle_tree` | the loops over layers and nodes step by step: `S`, `new_S`, `it` are the variables of the code; hashes are symbolic terms |
| `MerkleTreeProofs` | theorems about it | see section 5 |
| `OracleQueries` | evaluations of real and virtual oracles, query positions and responses of `iop_protocol`, with the recording of `bcs_prover` and the look-up of `bcs_verifier` | One variable per cache (`virtual_oracle_evaluation_cache_` is `evaluations`, `virtual_oracle_evaluated_contents_cache_` is `contents`, `oracle_id_to_query_positions_` is `recorded`), for prover and verifier; one action per call. Field values are symbolic: a value names its oracle, position, challenge and constituents. |
| `OracleQueriesProofs` | theorems about it | see section 5 |
| `OracleAccess` | what it promises | abstract: positions are decided once, queries are answered with the value there |
| `InstantRunoff` | `tallying/irv` and the gates it uses | One step per round of the circuit; signals indexed by the round become variables, indicator lists become sets. |
| `InstantRunoffProofs` | theorems about it | see section 5 |
| `RunoffCount` | what it promises | abstract: ballots, eliminated candidates, one with fewest votes leaves |
| `FieldGates` | comparisons, assertions and list gates (`utilities`, circomlib) | Operators over the field with `P` elements; each comes with the condition under which its constraints can be satisfied. |
| `BallotCircuits` | `voting` | Which vectors and matrices are ballots, and the ballot of a ranking. |
| `ResultCircuits` | `tallying/utilities.circom` | Smith set and majority judgement, round by round. |
| `Election` | `fullresultcircuit/snarkfield`, over ballots of `BallotCircuits` | Ballots are cast and added up, then one result circuit is evaluated. |
| `ElectionProofs` | theorems about it, from the gates up | see section 5 |
| `CosetDomains` | `algebra/field_subset/subgroup.tcc`, the coset serialisation of `bcs/merkle_tree.tcc` and `bcs/bcs_common.tcc` | Domains as an order and a shift over the field with `P` elements, positions and their cosets, what a leaf holds and how the verifier rebuilds it; polynomials over such domains. Operators only. |
| `FriProtocol` | `protocols/ldt/fri` | One action per reduction (`Reduce`), for the final polynomials, for the verifier's replay of the leaves and for its predicate; handles are left out, positions are numbers. |
| `FriProtocolProofs` | theorems about it, from the tables of the field up | see section 5 |
| `R1cs` | `relations/r1cs.tcc`, and the parsers of `libiop/main` | Operators: the system and the assignment that are made of the files of circom, the system's value and its matrices; next to them what the files say before any parsing. |
| `LigeroProtocol` | `protocols/ligero_iop`, `protocols/encoded/ligero`, the reducer and direct test of `protocols/ldt`, the sequence of `main.cpp` | One action per round of the prover, one for the refusal of `main.cpp`, one for the verifier. |
| `LigeroProtocolProofs` | theorems about it; extends `FriProtocolProofs` too, for its lemmas on fields, domains and transforms | see section 5 |
| `LibraryFacts` | nothing of the code: lemmas on induction over sets, sums, sequences joined, cut and run together, functions defined step by step, the ascending sequences that list sets, arithmetic modulo a prime, powers, roots of unity, and polynomials with their coefficients and values, that the proofs share | |
| `MCIopProtocol`, `MCBcsTransform`, `MCOracleQueries`, `MCInstantRunoff`, `MCElection`, `MCFriProtocol`, `MCLigeroProtocol` | instances for the runs | |

How they compose: `BcsTransform` extends `IopProtocol`; `OracleQueries` takes the
description as constants, since queries are only asked when it is sealed;
`Election` extends `ResultCircuits`, `BallotCircuits` and `FieldGates`;
`FriProtocol` extends `CosetDomains`, as does `R1cs`, which `LigeroProtocol` extends; and
`InstantRunoff` stands alone because its circuit has one input, the tally.

Operators marked `Faulty:` stand before the definition they alter. They are no
part of any specification: each is a plausible mistake in the code, and putting
it in place of the definition breaks the property it was written for, which
shows that the property looks at that code.

### IopProtocol

Contents are abstracted to sizes, which is all this class looks at. When all rounds
are done `submit_oracle` and `submit_prover_message` compare with the end of a round
that does not exist (`iop.tcc:292`); they get as far only for an entry that is not there
yet, and the only such entry is an index oracle registered after the sealing, which
`register_index_oracle` does not refuse (section 4). The model then lets it through or
refuses it (`InRoundBeingRun`), `IndicesInRange` names the exception, and
`RoundsPartitionEntries` says that such oracles are of no round while every other entry
of a sealed protocol is of exactly one. The properties are about relations between calls far apart:
`RoundsPartitionEntries`, `IndicesInRange`, `SubmissionsFollowRounds`,
`LaterMessagesAfterCommitment` (what is left true of the guard of
`obtain_verifier_random_message`, which is off by one, see the end of section 4), `HolographicStartsWithProver`
(why the refusal in `register_oracle`, after the direction was changed, is
harmless) and `SealedRoundsAreFixed` (two operations never look at the
registration state; they still cannot move a round).

### BcsTransform

The description is made by `DescribeInteraction`, `RegisterQuery`, `SealBcs`; the
indexer is one step, `RunIndexer`, because nothing can come between its parts;
the prover has one action per call its caller makes, and the verifier replays
the transcript (`SealVerifier`; the loop over rounds is `Replay`, the chain when so
many rounds have been gone through, and `ReplayedChallenges`, what was squeezed on
the way), asks the queries in turn and decides. All programs are honest: the model is about
agreement, not about what a cheating prover could do.

`CarefulCallers` says which descriptions are made. FALSE, for exploring and in no
run: whatever the classes let through. TRUE, in the runs: what the protocols in `protocols/` do, which
is narrower in five ways, each for a reason in the code:

- index oracles are registered tree by tree: the indexer collects evaluations
  domain by domain (`bcs_indexer.tcc:51`), `submit_prover_index` takes them in the
  order of registration;
- no prover message of round 1 is registered before the indexer seals: the
  verifier's index would hold it (`bcs_indexer.tcc:80`) and the verifier refuse it;
- each round of the prover has one domain: with two, `bcs_prover.tcc:44`
  constructs one tree twice, which throws, and the tests name such rounds as
  unsupported;
- an index is followed by at least two rounds: with one, `bcs_common.tcc:427` takes
  prover and verifier for the indexer and leaves `pow_` unset (see the end of section 4);
- no random message is read ahead: the read would leave an empty entry that the
  squeeze does not replace (`bcs_prover.tcc:108`, `bcs_common.tcc:612`).

Besides these, `DescribeInteraction` registers index oracles in round 0 only, as
the callers in `snark/` do, although the guard of `register_index_oracle`
(`iop.tcc:109`, in `IopProtocol` without that restriction) lets later ones through
(section 4).

`ChallengesBindEarlierRounds`, `TreesFollowRounds`, `ChallengesAgree` and
`PositionsFollowTheRounds` relate the prover's state
to the verifier's and both to the rounds. The last says that every opened position is
squeezed from a chain that has absorbed all rounds, after the challenge of the proof of work;
the answer is not absorbed by anybody, so that positions do not follow it, although the
comments say so (finding 4). `ImplementsPublicCoinProof` is the
refinement: with the conversation read off the hash chains (what was absorbed and
squeezed before the proof of work), every behaviour of `BcsTransform` is one of
`PublicCoinProof`, in which a proof is never refused.

### MerkleTree

`inner_nodes_` starts as unassigned hashes and is filled layer by layer. The proof
and its validation are run one node at a time for every set of positions, with
the right contents and with one wrong content. The positions are sorted, as
`bcs_prover` passes them (`validate_set_membership_proof` does not sort); in a tree
without salts they may also repeat. In a salted tree they do not: the prover gives
one salt for each distinct leaf, the validator takes one for each content, and the
only caller passes sets. `HashOf`, `PathNodes` are the
reference definitions by which the loops are judged: `TreeIsComplete`,
`ProofIsMinimal` (the auxiliary hashes are exactly the siblings that cannot be
computed, in order), `ValidatesExactlyTheLeaves` and `HashCountIsExact`. The last is about
one position at least: for none the assert of the counting loop (`merkle_tree.tcc:496`) reads
the entry before the first of an empty vector.

### OracleQueries

The prover may read any oracle, whole or at a point, and obtain positions and
responses in any order before `GetTranscript`, which asks the remaining queries
and opens every tree where one of its oracles was recorded. The verifier then
asks the same queries of what was opened (`FromTranscript`), and throws where a
value is missing, which is `None` there.
The model is about the caches between these: a cached value hides its
constituents (`ReadFor`), whose positions are then not recorded. The recursions of the
code, over constituents and over seeds, are `Reached` (what is gone through),
`ValuesFrom` and `PositionsFrom` (what is computed, from what is known already);
`TranscriptAnswersEveryQuery` says that none is missing all the same,
`CachesAreCurrent` that nothing is cached before the challenge it depends on, and
the refinement that the verifier hears what the definition of the oracles says.

`CarefulCallers`, TRUE in the run, says what callers in `protocols/` do:

- a virtual oracle is evaluated when the challenges of all oracles it is made of are
  set (`ldt_reducer.tcc:260`, for prover and verifier);
- with `record = false` only real oracles are read; virtual ones go through
  `obtain_query_response`;
- random positions, by `get_transcript` too, are first asked for in the order of their
  registration: they
  are squeezed at the first request (`bcs_common.tcc:537`), and prover and verifier
  must give each the same draw.

With FALSE the model violates `TranscriptAnswersEveryQuery`, `CachesAreCurrent` and
the refinement, so each of the three does rest on these callers.

### InstantRunoff

The tally has a counter for each ranking, with partial rankings and the empty one.
`EvaluateRound` is one pass of the loop: it counts first places, marks everybody
with the minimum of those in the race, looks back through `votesHistory`, lets the
lots decide and moves the ballots with `RemoveCandidate`. `rankingAt` says what a
position stands for; the assumption on the generated tables is that they say the
same. Lots are distinct places: the circuit adds up the indices that remain, so
that two equal lots would name another candidate. Votes and lots are below
`2^bits - 1`, the value that takes a candidate out of the pool, so that no
comparison leaves its range. `eliminatedRankings` is the constant zero in the circuit
and left out.

`TallyIsTheBallotsStruck` relates the counters after any number of moves to the
ballots that were cast; `EarlierVotesDecideTies` is the NSW rule without pools and
indicators; `MajorityCandidateStays` and `EveryRoundEliminates` (a round in which
everybody in the race has a vote eliminates one more; see finding 2 for the others)
are what voters expect; and the circuit implements `RunoffCount`, which knows nothing of positions,
tables or lots.

### Election

A voter casts anything that the circuit of the kind of election accepts
(`Ballots`: all vectors of field elements that satisfy the constraints, bits for a majority
judgement, since no other entry passes `assertBit`, and the ballots that are computed of all
rankings), the ballots are added up, and
a result circuit is evaluated with as many bits as the comments of
`fullresultcircuit` ask for. The addition itself happens on commitments outside of
the circuits. What a reader should know:

- A comparison of n bits decomposes `a + 2^n - b` into n + 1 bits. If there are
  more, no witness exists; `satisfied` keeps track, and results are claimed only of
  tallies that have a proof. `OnlyAFullTallyIsUnprovable` says which have none: those with
  an entry of 2^bits, which all voters together can reach, those with an entry below zero,
  which multi votes can, and, where candidates are
  counted, those of elections with more candidates than 2^bits (section 4).
- A field element is written as the integer nearest to zero that represents it, so that
  P - 1 is -1. The circuit of multi votes compares entries with an upper bound only: an entry
  passes down to `LowestAssignable`, where the comparison runs out of bits. Tallies of multi
  votes may therefore have negative entries, `EveryBallotWeighsTheSame` bounds the net
  total of such a ballot, and that the positive votes are bounded, as the comment says, is
  violated (finding 3).
- Powers of two are the recursive function `Power2`, because the provers know nothing of
  `2^n`.
- The field is taken to be greater than four times what all voters can assign together, and
  for a majority judgement than eight times their number (`ElectionAssumption`), as any real
  field is: the comparisons then never wrap, and an odd number's half in the field is too
  great to pass one.
- An output that no line assigns (`computeSmithSet`) is zero, as the witness
  calculators leave it. It is not constrained.
- `sum_halve` of `getIndexMedian` is a hint. `EvaluateMajorityJudgement` is evaluated with two
  kinds: "calculated" takes the value that the witness calculator computes with `<--`,
  which is half of the sum in the field; "median" takes that value if it satisfies the
  constraints and otherwise half of sum + 1, the only other one that the constraint below
  (`utilities.circom:183`) admits. `FirstRoundKeepsHighestMedian` is about both kinds, as far as
  they satisfy the constraints.
- The comment of `singleVote.circom` says that exactly one vote is cast; the sum is
  asserted to be a bit, so the ballot of zeros is accepted, and
  `EveryBallotWeighsTheSame` says at most one.
- Points of a Borda list are taken to be distinct and not zero: zeros are counted
  apart, so a list with a zero among its points would accept no ballot.
- A majority judgement goes astray in later rounds, and with an odd number of
  voters an honest prover has no witness (both in section 4); the property is about
  the part that works, the first round with hints that satisfy the constraints.
- The -1 that `utilities.circom:131` gives to those who lost ("Max possible value") is comparable
  with counts of voters, and comes out as the least: what step 6 takes off is then -1, so that
  every winner gets a vote more.
- The circuits of `fullresultcircuit/latticefield` evaluate the same templates, but
  `basic/threshold.circom:37` there names a template, `computeMaximumIndicatorAtIdx`,
  which does not exist; they are not modelled apart.

### FriProtocol

The prover's state is its codewords, the challenges drawn for each reduction and
interaction, and the polynomials sent at the end. `NextCodeword` is the loop of
`multiplicative_evaluate_next_f_i_over_entire_domain` over the cosets with its running
`cur_h`, `FoldedCoset` the verifier's formula for one coset: two pieces of code for
the same value, over positions that each computes in its own way.
`SealVerifier` draws the positions and compares, round by round, the leaves rebuilt
from the values at the queried positions with the leaves the tree was made of
(`LeavesFit`); `VerifierPredicate` follows each position down the reductions.

`CodewordsFollowThePolynomial` says that the codewords, folded out of values, are the
values of the tested polynomial folded coefficient by coefficient.
`VerdictFollowsTheDegree` says that the verifier, who sees few values, accepts exactly
when the last codeword is the polynomial that was sent at the places it ends at; a
polynomial within the degree bound is therefore accepted, and one above it is also
run. Both are stated for challenges that the prover reads well (`ReadWell`): an
element of the domain that is not in its last coset is not (finding 1).

Modelled is the multiplicative branch, for one tested oracle. Affine subspaces, several
tested oracles, the reducer before FRI (the one before the direct test is in
`LigeroProtocol`) and the choice of the number of repetitions for a soundness error are
left out. The first round takes its
round parameters, the size of its cosets, from the first reduction, as the callers
set them with `quotient_map_domain`.

### LigeroProtocol

This is the path of the `ligero` executable from the files of circom to the verdict, for
one proof without the BCS transformation around it. `R1cs` reads the files as the parsers
do: wire 0 is the constant and is skipped, outputs come before public inputs, a
combination without terms gets a term for the constant with coefficient 0, and the
number of auxiliary inputs is taken from the number of wires, which counts the constant,
so that the last of them exists nowhere else and stays 0. `iop` holds the members of
`ligero_iop` and its parameters (`Configured`); a vector is cut into rows over the
systematic domain, each row is extended to the codeword domain (`Encoded`), and the three
rounds submit the rows with their masks (`SubmitOracles`), answer the random combinations
(`DrawCombinations`, `SubmitResponses`) and send the polynomials of the direct test
(`SubmitPolynomial`). The virtual oracles of lincheck and rowcheck are
`LincheckEvaluations` and `RowcheckEvaluations`, with the primary input of the one who
evaluates: the prover's or the verifier's.

`ExecutableFollowsTheCircuit` compares both ends: the circuit as circom means it, and what
the executable decides. `VerdictFollowsTheErrors` is for callers of the library who check
nothing first: the verifier's answer depends on the errors of the constraints and of the
primary input alone, never on masks, layouts or the memory behind a vector; it also says
which errors pass, a combination that cancels in every column or a primary input that
differs where no position looks.

What the model abstracts:

- The square root and the division in single precision that choose the size and the number
  of the rows (`ligero_iop.tcc:22` and `:247`) are exact here. A float holds every number
  up to 2^24, so that the number of rows is the same for as many variables.
- `ligero.tcc:299` copies whole rows out of a vector that may end before the last row
  does. What it reads there is undefined; `MemoryValues` are the field elements it may
  be, and no property depends on which. That the read may also end the program is left out.
- The masks of a run are fixed values, different for every matrix and interaction.
- The numbers of interactions, queries and tested combinations, which the code computes
  for a soundness error, are constants; all oracles have the maximal degree, as in the code.
- What is drawn is a constant each, of which the module assumes the shape only
  (`DrawsFit`): field elements, as many as the code draws.
- Only multiplicative cosets, and only the lincheck of this protocol
  (`interleaved_lincheck_ot`), not the one of Aurora.

## 3. Runs

| Run | Instance | Shows |
|---|---|---|
| `iop_protocol` | 1 domain, 4 oracles, 1 prover message, 3 random messages, fair prover | the safety properties of `IopProtocol` and `EveryRoundIsFinished`, 378 thousand states |
| `bcs_transform` | 2 domains, 3 oracles, 1 message, 2 random messages, 2 queries, careful callers, fair | agreement, refinement and `HonestProofIsAccepted`, 156 thousand states |
| `bcs_transform_pow` | finding 4 | `QueriesFollowProofOfWork` is violated |
| `merkle_tree` | 8 leaves, salted or not, all 256 sets of positions, and without salts every sorted vector of up to 3 positions | the properties of `MerkleTree` and that both loops end |
| `oracle_queries` | 3 real oracles in 2 trees, 2 nested virtual oracles, 2 random positions and 1 made from them, 3 queries, careful callers, fair | properties and refinement of `OracleQueries` and `VerifierHearsEveryAnswer`, 13 thousand states |
| `instant_runoff` | 4 candidates, 13 rankings, 4 rotated lots, every tally of up to 5 ballots | properties and refinement of `InstantRunoff`, 78 thousand states |
| `instant_runoff_winner` | finding 2 | `CompleteEvaluationHasOneWinner` is violated |
| `election` | 3 candidates, 3 grades, 6 kinds, up to 4 voters, field of 67 elements | properties of `Election`, 35 thousand states |
| `election_multi` | finding 3 | `NobodyVotesMoreThanGranted` is violated |
| `fri_protocol` | field of 97 elements, a domain of 16, reductions by 2 and by 4, degree bound 8, 2 interactions, 2 query repetitions | properties of `FriProtocol`, 16 thousand states |
| `fri_protocol_fold` | finding 1 | `NextCodewordInterpolatesEveryCoset` is violated |
| `ligero_protocol` | field of 97 elements, rows of 4, codewords of 16, 2 circuits, 7 setups, 2 interactions, 2 tested combinations | both properties of `LigeroProtocol`, 932 states, each with whole codewords |

The bounds. Three to four oracles with two or three random messages make three or
four rounds: a first, a last and one or two between, holographic or not, each
with none, one or two entries, which covers every case of the boundary
arithmetic. In `BcsTransform` two domains are enough for an index with two trees
next to rounds with one tree or none, so that trees and rounds are numbered
differently. Two queries can share a position or not, and be on the same tree or
not. Eight leaves give three layers above the leaves, so that a
layer is first, in the middle and last, with every pattern of siblings. In
`OracleQueries` one virtual oracle is built on the other, both depend on a
challenge and one is cached whole; two real oracles share a tree and one has its
own; a deterministic position names its seeds in the other order than they were
registered. Four candidates are the fewest for which three can be tied and a tie
can be looked back over two rounds, and five ballots leave ties, majorities and
rounds without votes; the rankings are a part of the 65 that four candidates have,
closed under striking out a candidate. Three candidates make Condorcet cycles,
four voters a power of two and an odd number on the way. 67 elements are more
than the comparisons reach, as the real field has, and few enough that every vector of field
elements is tried as a ballot; a multi vote of at most 2 for each of three candidates and of 3
together leaves room for -1 twice and for all ways to exceed either bound. In `FriProtocol` the reductions
have different sizes, so that leaves hold pairs and quadruples and an index of one
domain is never one of the next by accident; every pair of positions is queried, so
that two queries share a coset or not, in the first domain or only in the second.
Of the two challenges one is an element of the last coset of the first domain and
the other of an earlier coset of the second, and one of the polynomials is above the
degree bound and comes within it by folding at the right challenge only. In
`LigeroProtocol` one circuit has two rows of constraints and its last row of variables is
not full, the other has a primary input that goes on in the second row, behind a last row
of constraints that is padded. Each is proved with a right and a wrong witness or
input, by the executable and by another caller, with and without masks. Of the random
combinations one is chosen so that two wrong constraints of a column cancel, one so that
they do not; one so that a wrong input is not seen at exactly one position; every
position is drawn. The random choices are picked rather than enumerated: a state is as
large as a whole proof, and the cases above are the ones that change a verdict. `TLC`
stops where the programs stop, so `CHECK_DEADLOCK` is FALSE in every run.

Fairness. `produce_proof` and the verifier are straight-line programs that do
what the rounds ask for and signal; weak fairness of the prover's submissions
and of its signal (`ProverFairness`), and of the steps of prover and verifier
(`BcsFairSpec`), says that they go on as long as they can. Nothing is assumed
about registration: a protocol may be described for ever. In `OracleQueries`
prover and verifier are such programs too, and go on as long as they can. The loops of the
Merkle tree are those of sequential functions, hence `WF_vars(Next)` in
`MerkleTree`.

## 4. Findings

Runs that end in a violation, each of one statement of the repository:

1. `fri_protocol_fold`: when a challenge is an element of the domain, the prover leaves its
   loop's `cur_h` where it is from that coset on (`fri_aux.tcc:216`), so that every later
   coset is taken to contain the challenge. Unless it lies in the last coset, only
   the last place of the next codeword keeps a value, the others after it become 0.
2. `instant_runoff_winner`: the minimum is taken of the candidates in the race, but
   everybody with that number of votes is marked
   (`evaluate_election_nsw_tie_breaker.circom:67`). When it is 0, a candidate
   eliminated before can be drawn again, and a complete evaluation ends with
   several winners.
3. `election_multi`: an entry of a multi vote may be negative (`voting/multiVote.circom:20`), and the
   ballot (-1, 2, 2) is accepted where three votes are granted. The circuit for the whole
   ballot (`multiVoteComplete.circom`) and the commitment do not bound entries from below either.
4. `bcs_transform_pow`: the answer of the proof of work is put into the transcript and
   checked, but neither prover nor verifier absorbs it (`bcs_prover.tcc:57`,
   `bcs_verifier.tcc:95`). A different answer leads to the same query positions; the comments
   at `bcs_common.tcc:416` and `430` say that it is absorbed, and that new queries take new work.

More divergences were met for which no run is kept; the first three need callers that the
library does not have:

- `obtain_verifier_random_message` compares with `>` where ids count from 0
  (`iop.tcc:447`), so the first message of the next round is handed out before the
  current round is done. `bcs_prover` overrides the call; only an interactive run is
  affected. `LaterMessagesAfterCommitment` is what remains true.
- The guard behind "index oracles must be created in the 0th round" (`iop.tcc:109`) looks at
  the rounds run, of which there are none while a protocol is described and after it was
  sealed: an index oracle can come to lie in a later round, or in none.
- An index and a single further round are taken for the indexer (`bcs_common.tcc:427`)
  and `pow_` stays uninitialised.
- `computeSmithSet` never assigns its output (`tallying/utilities.circom:17`), which the comment
  says indicates the Smith set. Each of its rounds also drops the last set, so that
  joining the last round to the output would not give the Smith set either;
  `RoundsStayInSmithSet` says what does hold of the rounds.
- In a majority judgement the witness calculator takes half of an odd number in the field
  (`tallying/utilities.circom:182`), which no comparison with a number of voters has bits for,
  so that an honest prover gets no witness. The hint is free: (sum + 1) / 2 would satisfy
  the constraints, and `FirstRoundKeepsHighestMedian` shows that the first round is right then.
- Candidates who lost a round of it have only zeros left, for which `getIndexMedian` gives 1,
  the best median (`tallying/utilities.circom:195`), and not the highest, as the comments at lines
  106 and 170 say. They are among the winners of the next round.
- A single vote without a vote is accepted (`voting/singleVote.circom:22`), while its comment
  says "exactly one vote is one".
- `computeHighestMEntries` compares a number of candidates with m by as many bits as an
  entry has (`utilities/listGates.circom:779`). The documented number of bits
  (`basic/highest_entries.circom:11`) is about voters and values only: with fewer voters
  than candidates, as 2 voters, 3 candidates and m = 3, no tally has a proof. The proof of
  `OnlyAFullTallyIsUnprovable` brought this up, and its last disjunct names the case.

## 5. Proofs

What TLC checks on the small instances above is proved for every value of the
constants for eight components. The assumptions are those that the modules state of
their constants, each named; the theorems about the transformation and the oracles
have one hypothesis more, `CarefulCallers`, which is the one their runs make.

| Component | Proved | Module |
|---|---|---|
| `IopProtocol` | all invariants and the action property of its run | `BcsTransformProofs` |
| `BcsTransform` | all invariants of its run and the refinement of `PublicCoinProof` | `BcsTransformProofs` |
| `OracleQueries` | both invariants of its run, the refinement of `OracleAccess`, and that the verifier never throws | `OracleQueriesProofs` |
| `MerkleTree` | all invariants of its run | `MerkleTreeProofs` |
| `InstantRunoff` | both invariants and both action properties of its run, and the refinement of `RunoffCount` | `InstantRunoffProofs` |
| `Election` | all invariants of its run | `ElectionProofs` |
| `FriProtocol` | both invariants of its run | `FriProtocolProofs` |
| `LigeroProtocol` | both invariants of its run | `LigeroProtocolProofs` |

### IopProtocol

The properties are not inductive one by one. `SubmissionsFollowRounds` needs that
nothing is submitted while a new boundary can still appear, `IndicesInRange` that
a sealed protocol ended on the prover's turn and that its rounds cover what was
registered, `LaterMessagesAfterCommitment` that
the bound on drawn messages only grows. The inductive invariant is

    IInv == TypeOK /\ RoundsAreConsecutive /\ EntriesCovered /\ SealedState
            /\ SubmissionsFollowRounds /\ DrawnWithinBound
            /\ HolographicStartsWithProver

with `SealedState` (nothing is exchanged before sealing; sealing is on the
prover's turn and closes a round; no more rounds done than there are) and
`DrawnWithinBound` (no drawn message beyond `MayDrawUpTo`). `InitEstablishes` and one
lemma per action give `Init => IInv` and `IInv /\ [Next]_vars => IInv'`; the lemmas
on boundaries (`BoundariesAppend`, `BoundariesGrow`, `RoundsAreDisjoint`) and on the
round being run (`SubmittingInRound`, `SubmittingAfterTheLastRound`) carry the
argument. The theorems, one for each property, follow from `IInv`.

### BcsTransform

The theorems are `ASSUME CarefulCallers PROVE Spec => ...`: of callers that do what the
classes let through and `protocols/` never does, the properties are false (section 2
lists the five ways). `CarefulCallers` is a constant that guards actions, so that the
hypothesis holds of every protocol in `protocols/` and excludes no number of rounds,
oracles, messages or queries.

The first part of the module is about one state: what the boundaries of a sealed description make of
rounds, trees, index and chain. The invariant `BcsInv` then joins

- `DescriptionInv`, `IndexInv`, `QueryInv`: the description is well formed, and complete
  once sealed; the index is round 0, tree by tree; queries name what there is;
- `ContentsInv`, `TreesInv`: the oracles of finished rounds are submitted, the processed
  trees are built of them and no other tree is;
- `ChainInv`, `ChallengesInv`: the prover's chain is the description's for as many
  rounds as are done, and the challenges are those squeezed on the way;
- `TranscriptInv`: the transcript holds the whole protocol but for the index;
- `VerifierInv`: the verifier has replayed that chain, and got the same challenges.

No property is inductive without the others: a challenge is right because the chain is,
the chain because the roots are, the roots because their contents are, and the verifier's
chain because the transcript left out what the index gives it. What the loop of
`bcs_verifier.tcc` replays, `Replay`, is shown equal to the prover's chain by induction
over rounds. In the refinement every step maps to one of `PublicCoinProof` or to none.

### OracleQueries

Here, too, callers are careful. A query for a random position that is out of turn when
`get_transcript` asks the remaining ones breaks the agreement of prover and verifier:
the attempt to prove the refinement showed that the guard of `GetTranscript` had not asked for
that, although the protocols keep to it; the instance of the run never came across it.

The lemmas first unfold the recursions (`ReachingExists`, `ValuesExist` and
`ThePositionEquation`, by induction over handles, which lead to smaller ones). Three facts
about one call carry the rest: an evaluation whose challenges are all set, through
caches that are not stale, gives the definition (`EvaluationIsDefinition`); a recording
evaluation covers all real oracles behind what it reads, because those behind a cached
value were recorded when it was cached (`RecordedCovers`); and a program that squeezes
in turn gets positions that do not depend on what it asked for before
(`PositionsWithAreRight`), hence everybody's. The invariant `OraclesInv` says so of all
caches: `PositionsInv`, `CachesInv`, `RecordedInv`, that the trees are open wherever a
query leads with the values that were submitted (`TranscriptInv`), and that nobody
threw. `NothingIsUnavailable` is that last part by itself: it is what
"unavailable in the proof" (`bcs_verifier.tcc:204`) is thrown for. The refinement follows,
because prover and verifier extend one and the same function of positions.

### MerkleTree

There is no bound in these theorems but the depth, which is any positive number: any
sorted vector of positions, with or without salts and with one wrong content or none, is
proved and validated in a tree of any size.

Both loops work on ascending sequences, and an ascending sequence is determined by
its members (`ListsUnique`). What a loop should have done is therefore said with sets:
`Path(L, d)`, the nodes of layer d on paths from the leaves L, and `Needed(L, d)`, their
siblings on no path. `LoopAt` says how far a loop is in a layer: the parents noted and the
siblings taken are the lists of those of the nodes before `it`, and no pair of siblings is
cut in two. From that follows `SiblingIsNext`, which the code relies on without saying so:
the sibling of the node at hand is in the layer exactly when it is a right sibling and the next
entry. `LoopTakes`, `LoopSkips` and `LoopEnds` are the steps, for prover and verifier alike.

The inductive invariant `MInv` joins `Constructing` (the layers below the one at hand are
hashed), `Proving` and `Proved` (the proof so far is what is needed of the layers done and
of the part of the layer before `it`), `SaltsOpened`, `Validating` and `Outcome`. In
`Validating` are the three things the verifier must agree on with the prover: it
has taken as many hashes as the prover had put there at the same node, so that the next one is
the sibling's (`TakenInOrder`); it has computed as many as are counted
(`LevelAboveIsPath`: levels of positions and of nodes are equally long); and all its hashes
are right exactly when all contents are. The last is an equivalence, kept in both
directions since a symbolic hash has one pair of children only (`HashPairIsRight`). At the
root it is one comparison.

The attempt to prove `TypeOK` showed that it had bounded `S` by the number of leaves in all
phases; the vector the verifier is given may be longer where positions repeat, until it removes
the copies. The bound now is on the layers of the loops.

### InstantRunoff

The invariant `IInv` joins the types, `BallotsHaveAPosition` (what is left of a ranking
is again one of the table, so that every ballot can be moved), `TallyIsTheBallotsStruck`
and `MajorityCandidateStays`. The third is the heart: one round of moves, in the circuit
done position by position, is the striking out of one candidate in every ranking
(`LibraryFacts` has the sums over sets that this takes). That a candidate with a
majority stays then follows by counting: its votes only grow, and are more than those
of all others together, hence not the fewest. `EveryRoundEliminates` used to compare the number of
those eliminated with the number of the round; the proof failed, for a round without
votes before it may have drawn somebody eliminated before, and larger instances show that.
It now says that such a round eliminates one more.

### Election

The theorems hold for any number of candidates, grades, votes and bits, and for any prime
great enough, up to that of the real field. The state machine is simple; what is
proved is that circuits made of comparisons that can wrap compute what they should.

The gates come first. `ComparisonRight`: as long as `x + 2^n - y` does not leave the field
at either end, `LessThan(n, x, y)` says that x is less, and its bits exist unless x
exceeds y by 2^n or more. `BelowIncomparable`: below zero it wraps to a number with too many
bits, so that a satisfied comparison was in range after all. `BitRight`: in a prime field
only 0 and 1 are roots of `x * (1 - x)` (`PrimeDividesFactor`, from the assumption that
nothing divides P). `NumBitsRight`: the bits suffice and are not twice too many. From these
follow the list gates: the running extrema (`RunningRight`), the indicators, the threshold
and the highest entries, each in the form that satisfied constraints give the right
answer and that unsatisfied ones need an entry of 2^n, or one below zero.

What a ballot weighs is a lemma for each kind. `MultiVoteWeighs` starts from
vectors of any field elements, and shows that each accepted entry lies between
`maxVotesCand + 1 - 2^bitsVotes` (`LowestOfMulti`, below zero as a rule) and `maxVotesCand`;
the asserted sum then did not wrap, because the field exceeds `nVotes * 2^bitsVotes`, and
it is the net sum that `maxChoices` bounds;
`PointlistWeighs` counts candidates by their points; `TournamentWeighs` uses that summed over
all candidates as many are ranked worse as are ranked better (`WorseAsOftenAsBetter`, counting
a table by rows and by columns), so that every ranking gives the same number of points if a
tie is worth half a win.

`RoundsStayInDominating` is the argument about the Smith set: those with most won matches
are in every dominating set (`MostMatchesDominate`), and nobody outside wins over a member.
Dominating sets are nested, so that there is a least one (`SmithSetExists`). For the medians,
`HalfRight` computes half a sum by the inverse of two in the field: half of it when it is
even, about half the field when it is odd, because P is odd (`FieldIsOdd`). `SumHalveRight`: the half that
satisfies the constraints is that of the sum or of the sum plus one, whichever is even.
`MedianRight`: with it the count of `getIndexMedian` stops at the highest grade
that half of the voters gave or exceeded. `CalculatedRound`: a round that the
witness calculator satisfies is the one that the satisfying hints give, so that both kinds of
result share one argument.

The invariant `EInv` is `TallyInv` (no entry above what the voters so far could give, none below what they could
take away),
`EveryBallotWeighsTheSame` and `ResultInv` (a result is that of the final tally). `TypeOK` is
not inductive: that no entry exceeds what all voters can assign needs to know how many have voted.

The proof found two premises missing that the instance of the run had satisfied by
accident. `OnlyAFullTallyIsUnprovable` was false when there are more candidates than
2^bits (the last divergence of section 4); `FirstRoundKeepsHighestMedian` when there are
more grades, because medians are compared by the same bits. Both now say so.

### FriProtocol

The theorems hold over every field with a prime number of elements, for every
multiplicative coset, any vector of localization parameters, and any number of
interactions and queries. Their assumptions are those of the modules: `FieldAssumption`
(P is an odd prime and `Generator` generates its nonzero elements) and `FriAssumption`
(each reduction divides its domain, the bound on the degree is the last one times
all divisors, and a tested polynomial fits its domain). That challenges are read well
(`ReadWell`, finding 1) is a premise inside the two properties, not of the theorems.

Little of the algebra can be cited, so it is proved from the two assumptions. In
`LibraryFacts`: powers, products and sums modulo a prime, that a root of unity's powers
add up to zero, and that values at the roots give the coefficients back. In the module
itself: the elements of a domain are its shift times distinct powers (`CoefficientsValue`
is the inverse transform over it, which `final_polynomial` is made with), a coset's
elements are those of one position and its images under the kernel of the localizer, and the
localizer takes the domain onto the next one.

The heart is `FoldAt`: the value, at the image of a coset, of the polynomial folded coefficient
by coefficient at a challenge. Two pieces of code compute it by two formulas out of the values on
the coset: `NextCodewordValue` is about the prover's, with the running `cur_h` over all cosets, and
`FoldedCosetValue` about the verifier's, which starts at the one coset it has read. Both formulas
divide by zero when the challenge is in the coset, and have a branch for it; that of the prover is
right for the last coset only, which is where the proof needs `ReadWell`.

`FriInv` says, of the reductions done so far, that the challenges are drawn for
exactly those and that each codeword is the folded polynomial's; it is inductive because the next
codeword is computed of the last, and gives `CodewordsFollowThePolynomial`. `VerdictInv` adds
the later phases: polynomials are sent only after the last reduction, and are those of the last
codewords cut to their bound; the leaves that the verifier rebuilds for the positions it drew are
those that the trees were made of (`TranscriptFits`, from `WholeCosetsFit`: the
serialisation by cosets and its inverse meet); and the verdict is `AllAgree`. The positions that a query goes
through are the remainders of the first by the orders of the domains (`SiValue`); with that
the predicate, a walk down the reductions, reduces to one comparison at the end
(`PredicateValue`): all others hold for the codewords of the prover. For a polynomial below the bound
the last comparison holds too (`LowDegreeAgrees`): each folding divides the bound
(`BoundsDivide`), so that cutting the last polynomial to its bound loses nothing. A
polynomial above the bound is accepted or not by that one comparison, as the
equivalence says.

### LigeroProtocol

The theorems are about any set of setups (circuits, witnesses, callers, statements), any
field with an odd prime number of elements, any ratio of rows to columns and any number of
repetitions. `LigeroAssumption` says of them what circom and snarkjs write (`IsCircuit`,
`IsWitness`), that the field has a subgroup of the size of the codeword domain, what may be
drawn (`DrawsFit`), and that a codeword is at least twice as long as a row, as
`RS_extra_dimensions` being positive makes it. That the witness satisfies the circuit is no
assumption: both properties are about witnesses that do and witnesses that do not.

A proof about messages needs polynomials that can be added and multiplied. Here they are
functions on the field that have coefficients (`PolyFun`), so that sums, multiples and
products are taken point by point (`PolyFunPlus`, `PolyFunTimes`). `Recovered` and
`ExtensionLaws`, from the transforms of `FriProtocolProofs`, lead from such a function to
its values on a coset and back, and `CurveLaws` applies that to a row: its codeword holds
the values of the one polynomial below the length of a row that goes through it.

The rest follows the protocol:

- The circuit. `ConstraintValues`: what the parsed matrices, padded to whole rows, make of
  the parsed witness is what circom means, though a term was added to empty
  combinations and an entry to the witness. `SatisfiedCircuit`: the check of `main.cpp`
  passes exactly if the circuit holds, and there are no errors then.
- The lincheck. `ProductsAgree` counts the products of r, M and z by rows and by columns:
  r (M z) = (r^T M) z. The entries behind the variables, which memory decides, meet
  zeros there. `LincheckTotal` carries that over to the polynomials, whose values on the
  systematic domain add up to zero, and `LincheckVerdict` is the verdict on one honest
  response: the verifier's evaluations differ by the difference of the primary inputs,
  and by nothing else.
- The rowcheck. On the systematic domain the response is the combination of the errors,
  column by column (`RowcheckColumn`); elsewhere the check is an identity
  (`RowcheckVerdict`).
- What hides. `ZeroSumHides` and `ZerosHide`: masks are polynomials of the length of a
  response which add up to zero, or are zero, on the systematic domain.
- The direct test. `DirectTest`: a combination of codewords is one, so that its
  polynomial, cut to the length of a row, has its values everywhere.

The invariant `LigeroIInv` says of each message that it is what the rounds before it call
for (`OraclesFit`, `CombinationsFit`, `Responds`, `PolynomialsFit`), in the order of the
rounds, that an executable which went on has a circuit that holds, and that a verdict is
that of the errors (`ErrorsVanish`). Neither property is inductive: a verdict is right
because the responses are honest, these because the oracles are codewords with the masks
they should have, and the oracles were submitted four steps before the verdict. As for TLC, `LigeroIInv`
quantifies over all polynomials on the field and cannot be evaluated there; what it says
of reachable verdicts are the two properties, which the run does check.

Most definitions of the module are those of `LigeroProtocol` with the setup and the
messages as parameters, so that lemmas are about constants; `MembersOfSetup`,
`RowsOfSetup`, `ValuesOfSetup`, `AcceptsAsPasses` and `ErrorsOfSetup` say that they are
the same. For these proofs `LigeroProtocol` states the assumptions above, takes powers of
two by a recursive function, and bounds the dimension that `SystematicDomainDim` chooses.

### Limits

Induction over numbers and finite sets is done with the theorems of the library in their
form about sets (`NatSetInduction` and the like of `LibraryFacts`), so that what recursive
functions, sums and `FlattenSeq` compute is proved wherever it is needed above. What the
prover has no means for: liveness under fairness (`EveryRoundIsFinished`,
`HonestProofIsAccepted`, `VerifierHearsEveryAnswer`, `Terminates`), which stays with TLC.
Everything else that a passing run checks is a theorem, for every value of the constants.

## 6. What is not modelled, and the plan

Not modelled yet: the bits of the proof of work, the sponge, serialisation of
transcripts, Aurora and Fractal, the choice of parameters for a soundness error, FRI and
Ligero over affine subspaces, FRI behind its reducer, the list gates that no result circuit uses (sorting,
medians of lists, matrices) and the lattice commitments. Out of reach: the
permutations of the hashes, FFTs and polynomial arithmetic over the real fields,
soundness error (a probability), and a cheating prover, which the symbolic hashes
are not meant for.

Next, in this order:

1. `AlgebraicSponge` and `ProofOfWork`: absorb and squeeze across the rate boundary
   against an abstract random oracle; masks in the width of `int`.
2. Affine subspaces for `CosetDomains`, with FRI and Ligero over them; the LDT reducer in
   front of `FriProtocol`; Ligero's calls made through `BcsTransform`.
