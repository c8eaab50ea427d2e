---------------------------- MODULE OracleQueries ----------------------------
(***************************************************************************)
(* Queries to oracles, real and virtual, and the caches they go through    *)
(* (iop/iop.tcc), with what bcs_prover and bcs_verifier make of them: the  *)
(* prover records at which positions real oracles were read while it       *)
(* answers its own queries, opens the trees there, and the verifier        *)
(* answers the same queries from what was opened.                          *)
(*                                                                         *)
(* Handles are numbers, real oracles first and virtual oracles after their *)
(* constituents; random query positions first, and deterministic ones      *)
(* after their seeds.  The value of a real oracle at x is <<oracle, x>>,   *)
(* that of a virtual one names its challenge and the values it is made of, *)
(* so two are equal exactly when they were computed from the same things.  *)
(***************************************************************************)
EXTENDS Naturals, Sequences, FiniteSets, Functions, SequencesExt

CONSTANTS
  nOracles,         \* number of real oracles
  nVirtual,         \* number of virtual oracles
  constituents,     \* the constituent_oracles of each virtual oracle
  Challenged,       \* the virtual oracles whose contents depend on a verifier message
  CachedWhole,      \* the virtual oracles registered with cache_evaluated_contents
  trees,            \* the Merkle trees: the oracles of a round and a domain, in order
  domainSize,       \* number of positions
  HashValues,       \* the numbers that a hash can give
  nRandom,          \* number of random query positions
  nDeterministic,   \* number of deterministic query positions
  seeds,            \* the seed_positions of each deterministic one
  calculator(_, _), \* its position_calculator, applied to the values of its seeds
  queries,          \* the registered queries: [oracle, position]
  CarefulCallers    \* TRUE: callers as in protocols/

Oracles         == 1..nOracles
VirtualOracles  == (nOracles + 1)..(nOracles + nVirtual)
OracleHandles   == Oracles \union VirtualOracles
RandomPositions == 1..nRandom
PositionHandles == 1..(nRandom + nDeterministic)
Positions       == 0..(domainSize - 1)
Queries         == DOMAIN queries
Trees           == DOMAIN trees

ASSUME OracleQueriesAssumption ==
  /\ {nOracles, nVirtual, nRandom, nDeterministic} \subseteq Nat /\ domainSize \in Nat \ {0}
  /\ HashValues \subseteq Nat
  /\ \A v \in VirtualOracles : constituents[v] \in Seq(1..(v - 1))
  /\ \A p \in PositionHandles \ RandomPositions :
       /\ seeds[p] \in Seq(1..(p - 1))
       /\ \A values \in [DOMAIN seeds[p] -> Positions] : calculator(p, values) \in Positions
  /\ Challenged \subseteq VirtualOracles /\ CachedWhole \subseteq VirtualOracles
  /\ \A t \in Trees : trees[t] \in Seq(Oracles)
  /\ \A o \in Oracles : \E t \in Trees : o \in Range(trees[t])
  /\ queries \in Seq([oracle : OracleHandles, position : PositionHandles])
  /\ CarefulCallers \in BOOLEAN

Programs == {"prover", "verifier"}

VARIABLES
  squeezes,     \* what the hash chain gives for the i-th position squeezed
  positions,    \* random_query_positions_ and deterministic_query_positions_
  challenges,   \* the virtual oracles whose challenge is set
  evaluations,  \* virtual_oracle_evaluation_cache_: <<oracle, position>> to value
  contents,     \* virtual_oracle_evaluated_contents_cache_: oracle and position to value
  responses,    \* query_responses_
  recorded,     \* oracle_id_to_query_positions_
  transcript,   \* for each tree, position to the values of its oracles; or None
  refused       \* the verifier threw: a position is unavailable in the proof

vars == <<squeezes, positions, challenges, evaluations, contents, responses, recorded,
          transcript, refused>>

None == << >>

\* f, and g where f is not defined: a cache f after the misses g.
OrElse(f, g) ==
  [x \in DOMAIN f \union DOMAIN g |-> IF x \in DOMAIN f THEN f[x] ELSE g[x]]

PlaceIn(s, e) == CHOOSE i \in DOMAIN s : s[i] = e

\* For each handle, itself and all it leads to; from those in stop nothing else is reached.
Reached(handles, stop, madeOf) ==
  LET reached[h \in handles] ==
        {h} \union (IF h \in stop THEN {} ELSE UNION {reached[c] : c \in Range(madeOf[h])})
  IN reached
-----------------------------------------------------------------------------
(* obtain_query_position *)

\* The positions computed on the way to one, and the random ones among them, depth first.
PositionsBelow == Reached(PositionHandles, RandomPositions, seeds)

RandomBelow ==
  LET below[p \in PositionHandles] ==
        IF p \in RandomPositions THEN <<p>>
        ELSE FlattenSeq([i \in DOMAIN seeds[p] |-> below[seeds[p][i]]])
  IN below

\* The entries of a sequence that are not in known, each once.
NewIn(s, known) ==
  LET new[i \in 0..Len(s)] ==
        IF i = 0 THEN << >>
        ELSE IF s[i] \in known \union Range(new[i - 1]) THEN new[i - 1]
        ELSE Append(new[i - 1], s[i])
  IN new[Len(s)]

\* The random positions to squeeze for a list of handles.
ToSqueeze(program, handles) ==
  NewIn(FlattenSeq([i \in DOMAIN handles |-> RandomBelow[handles[i]]]),
        DOMAIN positions[program])

\* The i-th position that is squeezed.
Squeezed(i) == squeezes[i] % domainSize

\* All positions, from those that are known and those squeezed anew, after count others.
PositionsFrom(known, count, new) ==
  LET value[p \in PositionHandles] ==
        IF p \in DOMAIN known THEN known[p]
        ELSE IF p \in RandomPositions THEN Squeezed(count + PlaceIn(new, p))
        ELSE calculator(p, [i \in DOMAIN seeds[p] |-> value[seeds[p][i]]])
  IN value

\* The cache when a list of positions has been obtained.
PositionsWith(program, handles) ==
  LET known  == positions[program]
      count  == Cardinality(RandomPositions \intersect DOMAIN known)
      wanted == UNION {PositionsBelow[handles[i]] : i \in DOMAIN handles}
      value  == PositionsFrom(known, count, ToSqueeze(program, handles))
  IN OrElse(known, [p \in wanted |-> value[p]])
-----------------------------------------------------------------------------
(* get_oracle_evaluation_at_point, get_oracle_evaluations *)

\* Faulty: oracles_processed_for_MT stays zero.
ColumnFirst(t, o) == 1

\* The place of an oracle among those of its tree.
Column(t, o) == PlaceIn(trees[t], o)

\* oracle_id_and_pos_idx_to_value_, as parse_query_responses_from_transcript fills it, at x;
\* None for what is "unavailable in the proof".
FromTranscript(x) ==
  LET with(o) == {t \in Trees : o \in Range(trees[t]) /\ x \in DOMAIN transcript[t]}
      value(o) == LET t == CHOOSE t \in with(o) : TRUE IN transcript[t][x][Column(t, o)]
  IN [o \in Oracles |-> IF with(o) = {} THEN None ELSE value(o)]

\* The values of real oracles at x: what was submitted, or what is in the proof.
Submitted(x) == [o \in Oracles |-> <<o, x>>]
RealAt(program, x) == IF program = "prover" THEN Submitted(x) ELSE FromTranscript(x)

\* The values of virtual oracles at x that are in the cache.
CachedAt(program, x) ==
  [k \in {k \in VirtualOracles : <<k, x>> \in DOMAIN evaluations[program]} |->
     evaluations[program][<<k, x>>]]

\* The oracles an evaluation reads: a cached value hides the constituents.
ReadFor(program, h, x) ==
  Reached(OracleHandles, Oracles \union DOMAIN CachedAt(program, x), constituents)[h]

\* The values of all oracles, from those that are known and the challenges that are set.
ValuesFrom(known, set) ==
  LET value[k \in OracleHandles] ==
        IF k \in DOMAIN known THEN known[k]
        ELSE <<k, {k} \intersect set, [i \in DOMAIN constituents[k] |-> value[constituents[k][i]]]>>
  IN value

\* The value of an oracle at a point, through the cache.
Evaluation(program, h, x) ==
  ValuesFrom(OrElse(RealAt(program, x), CachedAt(program, x)), challenges[program])[h]

\* Faulty: the cache of another position is taken.
EvaluationsElsewhere(program, asked) ==
  LET read == UNION {{<<k, a[2]>> : k \in ReadFor(program, a[1], a[2]) \ Oracles} : a \in asked}
  IN OrElse(evaluations[program],
            [e \in read |-> Evaluation(program, e[1], (CHOOSE a \in asked : TRUE)[2])])

\* virtual_oracle_evaluation_cache_ after evaluations of oracles at positions.
EvaluationsWith(program, asked) ==
  LET read == UNION {{<<k, a[2]>> : k \in ReadFor(program, a[1], a[2]) \ Oracles} : a \in asked}
  IN OrElse(evaluations[program], [e \in read |-> Evaluation(program, e[1], e[2])])

\* Faulty: constituents of a virtual oracle are read without recording.
RecordedDirectly(asked) ==
  [o \in Oracles |-> recorded[o] \union {x \in Positions : <<o, x>> \in asked}]

\* oracle_id_to_query_positions_ after the prover's evaluations with record = true.
Recorded(asked) ==
  [o \in Oracles |-> recorded[o] \union
     {x \in Positions : \E a \in asked : a[2] = x /\ o \in ReadFor("prover", a[1], x)}]

\* The whole contents of an oracle, through the cache of contents, and the oracles read.
WholeContents(h) ==
  LET known(x) == OrElse(Submitted(x), [k \in DOMAIN contents |-> contents[k][x]])
  IN [x \in Positions |-> ValuesFrom(known(x), challenges["prover"])[h]]

ReadWhole(h) == Reached(OracleHandles, Oracles \union DOMAIN contents, constituents)[h]
-----------------------------------------------------------------------------
Init ==
  /\ squeezes \in [RandomPositions -> HashValues]
  /\ positions = [p \in Programs |-> << >>]
  /\ challenges = [p \in Programs |-> {}]
  /\ evaluations = [p \in Programs |-> << >>]
  /\ contents = << >>
  /\ responses = [p \in Programs |-> << >>]
  /\ recorded = [o \in Oracles |-> {}]
  /\ transcript = None
  /\ refused = FALSE

\* The prover is done when it has made the transcript, which the verifier begins with.
Running(program) ==
  IF program = "prover" THEN transcript = None ELSE transcript # None /\ ~refused

\* All oracles that an oracle is made of.
MadeOf == Reached(OracleHandles, Oracles, constituents)

\* The protocols evaluate a virtual oracle when the challenges in it are set,
CarefulToEvaluate(program, h) ==
  CarefulCallers => Challenged \intersect MadeOf[h] \subseteq challenges[program]

\* and first ask for random positions in the order of their registration.
CarefulToSqueeze(program, handles) ==
  LET next == Cardinality(RandomPositions \intersect DOMAIN positions[program])
  IN CarefulCallers => \A i \in DOMAIN ToSqueeze(program, handles) :
                         ToSqueeze(program, handles)[i] = next + i

\* The protocol sets the challenge of a virtual oracle, once, when it has the message.
SetChallenge(program, v) ==
  /\ Running(program)
  /\ v \in Challenged \ challenges[program]
  /\ challenges' = [challenges EXCEPT ![program] = @ \union {v}]
  /\ UNCHANGED <<squeezes, positions, evaluations, contents, responses, recorded, transcript,
                 refused>>

\* get_oracle_evaluations: the prover needs an oracle whole.
GetOracleEvaluations(h) ==
  /\ Running("prover") /\ CarefulToEvaluate("prover", h)
  /\ contents' = OrElse(contents, [k \in CachedWhole \intersect ReadWhole(h) |-> WholeContents(k)])
  /\ UNCHANGED <<squeezes, positions, challenges, evaluations, responses, recorded, transcript,
                 refused>>

\* get_oracle_evaluation_at_point, by the prover, recorded or not; the protocols leave
\* virtual oracles to obtain_query_response.
GetOracleEvaluationAtPoint(h, x, record) ==
  /\ Running("prover") /\ CarefulToEvaluate("prover", h)
  /\ CarefulCallers => record \/ h \in Oracles
  /\ evaluations' = [evaluations EXCEPT !["prover"] = EvaluationsWith("prover", {<<h, x>>})]
  /\ recorded' = IF record THEN Recorded({<<h, x>>}) ELSE recorded
  /\ UNCHANGED <<squeezes, positions, challenges, contents, responses, transcript, refused>>

ObtainQueryPosition(program, p) ==
  /\ Running(program) /\ CarefulToSqueeze(program, <<p>>)
  /\ positions' = [positions EXCEPT ![program] = PositionsWith(program, <<p>>)]
  /\ UNCHANGED <<squeezes, challenges, evaluations, contents, responses, recorded, transcript,
                 refused>>

\* Where the queries without a response will be asked, when positions are known.
Asked(program, qs, known) ==
  {<<queries[q].oracle, known[queries[q].position]>> : q \in qs \ DOMAIN responses[program]}

ResponsesWith(program, qs, known) ==
  OrElse(responses[program],
         [q \in qs |-> Evaluation(program, queries[q].oracle, known[queries[q].position])])

\* obtain_query_response by the prover records what it reads.
ProverObtainsResponse(q) ==
  /\ Running("prover") /\ CarefulToEvaluate("prover", queries[q].oracle)
  /\ CarefulToSqueeze("prover", <<queries[q].position>>)
  /\ LET known == PositionsWith("prover", <<queries[q].position>>)
         asked == Asked("prover", {q}, known)
     IN /\ positions' = [positions EXCEPT !["prover"] = known]
        /\ evaluations' = [evaluations EXCEPT !["prover"] = EvaluationsWith("prover", asked)]
        /\ responses' = [responses EXCEPT !["prover"] = ResponsesWith("prover", {q}, known)]
        /\ recorded' = Recorded(asked)
  /\ UNCHANGED <<squeezes, challenges, contents, transcript, refused>>

\* Faulty: the positions of the first oracle of a tree are taken for the tree.
TreePositionsOfFirst(t, asked) == Recorded(asked)[trees[t][1]]

\* Where a tree is opened: wherever one of its oracles was read.
TreePositions(t, asked) == UNION {Recorded(asked)[o] : o \in Range(trees[t])}

\* get_transcript: all queries in turn, then every tree is opened, for all of its oracles.
GetTranscript ==
  /\ Running("prover")
  /\ \A q \in Queries : CarefulToEvaluate("prover", queries[q].oracle)
  /\ CarefulToSqueeze("prover", [q \in Queries |-> queries[q].position])
  /\ LET known == PositionsWith("prover", [q \in Queries |-> queries[q].position])
         asked == Asked("prover", Queries, known)
     IN /\ positions' = [positions EXCEPT !["prover"] = known]
        /\ evaluations' = [evaluations EXCEPT !["prover"] = EvaluationsWith("prover", asked)]
        /\ responses' = [responses EXCEPT !["prover"] = ResponsesWith("prover", Queries, known)]
        /\ recorded' = Recorded(asked)
        /\ transcript' = [t \in Trees |-> [x \in TreePositions(t, asked) |->
                            [i \in DOMAIN trees[t] |-> Submitted(x)[trees[t][i]]]]]
  /\ UNCHANGED <<squeezes, challenges, contents, refused>>

\* obtain_query_response by the verifier takes real oracles from the proof and throws when
\* one is not there.
VerifierObtainsResponse(q) ==
  /\ Running("verifier") /\ CarefulToEvaluate("verifier", queries[q].oracle)
  /\ CarefulToSqueeze("verifier", <<queries[q].position>>)
  /\ q \notin DOMAIN responses["verifier"]
  /\ LET known == PositionsWith("verifier", <<queries[q].position>>)
         at    == <<queries[q].oracle, known[queries[q].position]>>
         reads == Oracles \intersect ReadFor("verifier", at[1], at[2])
         found == \A o \in reads : RealAt("verifier", at[2])[o] # None
     IN /\ positions' = [positions EXCEPT !["verifier"] = known]
        /\ refused' = ~found
        /\ evaluations' = IF ~found THEN evaluations
             ELSE [evaluations EXCEPT !["verifier"] = EvaluationsWith("verifier", {at})]
        /\ responses' = IF ~found THEN responses
             ELSE [responses EXCEPT !["verifier"] = ResponsesWith("verifier", {q}, known)]
  /\ UNCHANGED <<squeezes, challenges, contents, recorded, transcript>>

ProverStep ==
  \/ \E v \in Challenged : SetChallenge("prover", v)
  \/ \E h \in OracleHandles : GetOracleEvaluations(h)
  \/ \E h \in OracleHandles, x \in Positions, record \in BOOLEAN :
       GetOracleEvaluationAtPoint(h, x, record)
  \/ \E p \in PositionHandles : ObtainQueryPosition("prover", p)
  \/ \E q \in Queries : ProverObtainsResponse(q)
  \/ GetTranscript

VerifierStep ==
  \/ \E v \in Challenged : SetChallenge("verifier", v)
  \/ \E p \in PositionHandles : ObtainQueryPosition("verifier", p)
  \/ \E q \in Queries : VerifierObtainsResponse(q)

Next == ProverStep \/ VerifierStep

Spec == Init /\ [][Next]_vars

\* Prover and verifier go on as long as they can.
FairSpec == Spec /\ WF_vars(ProverStep) /\ WF_vars(VerifierStep)
-----------------------------------------------------------------------------
(***************************************************************************)
(* Properties.                                                             *)
(***************************************************************************)
\* What get_transcript relies on: however the prover's caches were filled before it, the trees
\* are opened at every position at which a query will reach one of their oracles.
TranscriptAnswersEveryQuery ==
  transcript # None =>
    \A q \in Queries : \A o \in Oracles \intersect MadeOf[queries[q].oracle] :
      \A t \in Trees : o \in Range(trees[t]) =>
        positions["prover"][queries[q].position] \in DOMAIN transcript[t]

\* The contents of an oracle once all challenges are set, as its definition gives them.
Definition(h, x) == ValuesFrom(Submitted(x), Challenged)[h]

\* No cache goes stale: what is in one of them, of a program that sets its challenges one after
\* the other, is what the oracle still has when all are set.
CachesAreCurrent ==
  /\ \A p \in Programs : \A e \in DOMAIN evaluations[p] :
       evaluations[p][e] = Definition(e[1], e[2])
  /\ \A v \in DOMAIN contents : \A x \in Positions : contents[v][x] = Definition(v, x)

OracleOf(q) == queries[q].oracle
HandleOf(q) == queries[q].position
Access == INSTANCE OracleAccess WITH
  Handles <- PositionHandles, Value <- Definition,
  position <- OrElse(positions["prover"], positions["verifier"]),
  answers <- responses["verifier"]

\* A verifier that has only the transcript hears what one with access to the oracles would,
\* at the positions that the prover obtained.
ImplementsOracleAccess == Access!Spec

\* The verifier never asks for what is "unavailable in the proof": it hears all answers.
VerifierHearsEveryAnswer == <>(DOMAIN responses["verifier"] = Queries)
=============================================================================
