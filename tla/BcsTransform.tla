---------------------------- MODULE BcsTransform ----------------------------
(***************************************************************************)
(* The BCS transformation of libiop/libiop/bcs: an interactive protocol    *)
(* (IopProtocol) becomes a non-interactive argument.  The prover replaces  *)
(* the verifier's messages and queries by what it squeezes out of a hash   *)
(* chain that has absorbed its own rounds; the verifier replays the chain  *)
(* from the transcript.  A holographic protocol has a third program, the   *)
(* indexer, that runs round 0 once for everyone.                           *)
(*                                                                         *)
(* bcs_prover, bcs_verifier and bcs_indexer are all iop_protocols that run *)
(* the same registration code, so they share IopProtocol's description     *)
(* here; IopProtocol's run variables are the prover's.  A hash is symbolic: *)
(* the root of a tree is the tree, and what is squeezed is the chain it is *)
(* squeezed from.  All programs are honest.                                *)
(***************************************************************************)
EXTENDS IopProtocol, SequencesExt

CONSTANTS
  MaxQueries,      \* bound on the number of registered queries
  CarefulCallers   \* TRUE: callers keep to what the classes support, as the
                   \* protocols of the library do; FALSE: to what they let through

ASSUME QueriesAssumption == MaxQueries \in Nat /\ CarefulCallers \in BOOLEAN

VARIABLES
  queries,             \* query_registrations_: the oracle and its random position
  index,               \* what the indexer hands to prover and verifier
  oracle_contents,     \* oracles_: whose evaluations each submitted oracle holds
  Merkle_trees,        \* the prover's Merkle_trees_
  processed_MTs,       \* processed_MTs_
  hashchain,           \* the prover's hashchain_
  challenges,          \* the prover's verifier_random_messages_
  pow_registered,      \* register_proof_of_work was called
  pow_answer,          \* pow_answer_: the challenge it answers
  prover_stopped,      \* an exception has ended the prover
  transcript,          \* what get_transcript returned
  verifier_hashchain,  \* the verifier's hashchain_
  verifier_challenges, \* the verifier's verifier_random_messages_
  transcript_is_valid, \* transcript_is_valid_
  num_answered,        \* queries the verifier's predicate has asked for
  verdict              \* the verifier program: none, sealed, and its outcome

proverVars == <<oracle_contents, Merkle_trees, processed_MTs, hashchain, challenges,
                pow_answer, prover_stopped, transcript>>
verifierVars == <<verifier_hashchain, verifier_challenges, transcript_is_valid,
                  num_answered, verdict>>
bcsVars == <<queries, index, pow_registered, proverVars, verifierVars>>

None == [none |-> TRUE]

BcsInit ==
  /\ Init
  /\ queries = << >>
  /\ index = None
  /\ oracle_contents = << >>
  /\ Merkle_trees = << >>
  /\ processed_MTs = 0
  /\ hashchain = << >>
  /\ challenges = << >>
  /\ pow_registered = FALSE
  /\ pow_answer = << >>
  /\ prover_stopped = FALSE
  /\ transcript = None
  /\ verifier_hashchain = << >>
  /\ verifier_challenges = << >>
  /\ transcript_is_valid = FALSE
  /\ num_answered = 0
  /\ verdict = "none"

-----------------------------------------------------------------------------
(***************************************************************************)
(* Merkle trees.  Tree <<r, d>> holds the oracles of round r over domain d. *)
(***************************************************************************)

\* oracles_in_round_by_domain, a map ordered by domain.
TreesOfRound(r, atEnd) ==
  FlattenSeq([d \in DOMAIN domains |->
    IF \E o \in RoundEntries(r, atEnd) : oracle_registrations[o].domain = d
    THEN << <<r, d>> >> ELSE << >>])

OraclesOfTree(t) ==
  {o \in RoundEntries(t[1], oracles_at_end) : oracle_registrations[o].domain = t[2]}

\* The trees of rounds first..last, in the order of Merkle_trees_.
TreesOfRounds(first, last, atEnd) ==
  FlattenSeq([i \in 1..(last - first + 1) |-> TreesOfRound(first + i - 1, atEnd)])

AllTrees == TreesOfRounds(0, num_interaction_rounds - 1, oracles_at_end)

\* A tree that is allocated and not constructed.
Unbuilt == << >>

-----------------------------------------------------------------------------
(***************************************************************************)
(* The hash chain.                                                         *)
(***************************************************************************)

Absorb(kind, contents) == [op |-> kind, of |-> contents]
Squeeze(kind) == [op |-> kind, of |-> << >>]
Squeezes(kind, n) == [i \in 1..n |-> Squeeze(kind)]

\* Faulty: the prover messages are forgotten.
AbsorbedRootsOnly(chain, roots, messages) ==
  chain \o [i \in DOMAIN roots |-> Absorb("root", roots[i])]

\* The first part of run_hashchain_for_round, with absorb_prover_messages.
Absorbed(chain, roots, messages) ==
  chain \o [i \in DOMAIN roots |-> Absorb("root", roots[i])]
        \o <<Absorb("messages", messages)>>

\* Faulty: the ids of the code, from 0, among those of the model.
SqueezedAfterFromZero(r) ==
  IF r = num_interaction_rounds - 1 THEN {}
  ELSE {m - 1 : m \in RoundEntries(r + 1, random_messages_at_end)}

\* The messages that squeeze_verifier_random_messages squeezes when round r has
\* ended: those of round r + 1.  Nothing squeezes those of round 0.
SqueezedAfter(r) ==
  IF r = num_interaction_rounds - 1 THEN {}
  ELSE RoundEntries(r + 1, random_messages_at_end)

HashchainAfter(chain, r, roots, messages) ==
  Absorbed(chain, roots, messages) \o Squeezes("challenge", Cardinality(SqueezedAfter(r)))

\* Message m, squeezed after round r has been absorbed into the chain.
ChallengeOf(m, chain, r, roots, messages) ==
  Absorbed(chain, roots, messages)
    \o Squeezes("challenge", m - EndOf(r, random_messages_at_end))

\* std::map::insert does not replace an entry that is there.
ChallengesAfter(known, chain, r, roots, messages) ==
  [m \in DOMAIN known \union SqueezedAfter(r) |->
     IF m \in DOMAIN known THEN known[m] ELSE ChallengeOf(m, chain, r, roots, messages)]

\* The map with a further entry.
Inserted(map, key, value) ==
  [k \in DOMAIN map \union {key} |-> IF k \in DOMAIN map THEN map[k] ELSE value]

\* The ids of the prover messages of round r, out of a vector of messages.
MessagesOfRound(r, messages) ==
  SubSeq(messages, BeginOf(r, prover_messages_at_end) + 1, EndOf(r, prover_messages_at_end))

MessageIds(n) == [m \in 1..n |-> m]

-----------------------------------------------------------------------------
(***************************************************************************)
(* Registration, by all programs alike.                                    *)
(***************************************************************************)

\* The callers in snark/ register index oracles while round 0 is open.
DescribeInteraction ==
  /\ \/ \E size \in DomainSizes : RegisterDomain(size)
     \/ \E d \in DOMAIN domains, degree \in Degrees : RegisterOracle(d, degree)
     \/ /\ registration_state = "interactive"
        /\ num_interaction_rounds = 0
        /\ num_random_messages = 0
        /\ oracle_registrations # << >> => is_holographic
        /\ \E d \in DOMAIN domains : RegisterIndexOracle(d)
     \/ \E size \in MessageSizes : RegisterProverMessage(size)
     \/ RegisterVerifierRandomMessage
     \/ SignalIndexRegistrationsDone
     \/ SealQueryRegistrations
  /\ UNCHANGED bcsVars

\* A random position over the oracle's domain with a query of the oracle at it,
\* or a query at a position another query has registered.
RegisterQuery(o, p) ==
  /\ registration_state = "query"
  /\ Len(queries) < MaxQueries
  /\ o <= oracles_at_end[num_interaction_rounds]
  /\ p \in 1..(Len(queries) + 1)
  /\ p > 1 => \E i \in DOMAIN queries : queries[i].position = p - 1
  /\ queries' = Append(queries, [oracle |-> o, position |-> p])
  /\ UNCHANGED <<vars, index, pow_registered, proverVars, verifierVars>>

NumPositions == Cardinality({queries[i].position : i \in DOMAIN queries})

\* Faulty: the tree of round 1, which the indexer allocates too, is not cut off.
IndexTreesUncut == TreesOfRound(0, oracles_at_end) \o <<Unbuilt>>

IndexTrees == TreesOfRound(0, oracles_at_end)

\* The oracles of round 0 in the order signal_index_submissions_done of the
\* indexer collects them: tree by tree.
IndexedOracles ==
  FlattenSeq([d \in DOMAIN domains |->
    FlattenSeq([o \in RoundEntries(0, oracles_at_end) |->
      IF oracle_registrations[o].domain = d THEN <<o>> ELSE << >>])])

\* What CarefulCallers keep to when they index: the oracles are registered tree
\* by tree, and no prover message of round 1 before the indexer seals.
IndexIsPlain ==
  /\ \A i \in DOMAIN IndexedOracles : IndexedOracles[i] = i
  /\ Len(prover_message_registrations) = prover_messages_at_end[1]

\* And when they describe a protocol: the oracles of a round that is not the
\* index have one domain, and an index is followed by at least two rounds.
DescriptionIsPlain ==
  /\ \A r \in 0..(num_interaction_rounds' - 1) :
       \/ is_holographic /\ r = 0
       \/ Len(TreesOfRound(r, oracles_at_end')) <= 1
  /\ is_holographic => num_interaction_rounds' >= 3

\* The indexer's whole run.  Like fractal_snark_indexer it seals its own copy
\* of the protocol when the constructor has closed round 0 and begun round 1;
\* get_bcs_prover_index cuts the messages down to round 0, get_verifier_index
\* hands over all that are registered.
RunIndexer ==
  /\ index = None
  /\ registration_state = "interactive"
  /\ is_holographic
  /\ num_interaction_rounds = 1
  /\ message_direction = FromProver
  /\ CarefulCallers => IndexIsPlain
  /\ index' = [trees |-> IndexTrees,
               oracles |-> IndexedOracles,
               messages |-> MessageIds(prover_messages_at_end[1]),
               verifier_messages |-> MessageIds(Len(prover_message_registrations))]
  /\ UNCHANGED <<vars, queries, pow_registered, proverVars, verifierVars>>

\* bcs_protocol::seal_interaction_registrations in the prover, whose
\* constructor took the index.  The proof of work is left out when one round is
\* closed already, which is meant for the indexer.
SealBcs ==
  /\ is_holographic => index # None
  /\ SealInteractionRegistrations
  /\ CarefulCallers => DescriptionIsPlain
  /\ pow_registered' = ~(is_holographic /\ num_interaction_rounds = 1)
  /\ LET own   == IF is_holographic THEN 1 ELSE 0
         trees == TreesOfRounds(own, num_interaction_rounds' - 1, oracles_at_end')
     IN  Merkle_trees' = (IF is_holographic THEN index.trees ELSE << >>)
                           \o [i \in DOMAIN trees |-> Unbuilt]
  /\ UNCHANGED <<queries, index, oracle_contents, processed_MTs, hashchain, challenges,
                 pow_answer, prover_stopped, transcript, verifierVars>>

-----------------------------------------------------------------------------
(***************************************************************************)
(* The prover.                                                             *)
(***************************************************************************)

\* Round 0 of a holographic protocol is the index; the rest is proved.
Proving ==
  /\ ~prover_stopped
  /\ transcript = None
  /\ is_holographic => num_prover_rounds_done > 0

ProverSubmitsOracle(o, size) ==
  /\ Proving
  /\ SubmitOracle(o, size)
  /\ oracle_contents' = Inserted(oracle_contents, o, o)
  /\ UNCHANGED <<queries, index, pow_registered, Merkle_trees, processed_MTs, hashchain,
                 challenges, pow_answer, prover_stopped, transcript, verifierVars>>

ProverSubmitsMessage(m, size) ==
  /\ Proving
  /\ SubmitProverMessage(m, size)
  /\ UNCHANGED bcsVars

\* bcs_prover::run_hashchain_for_round: the roots of round r are those of the
\* next trees, built or taken from the index.  A caller that works goes on to
\* squeeze a challenge and to solve it; the answer goes into the transcript and
\* not into the chain.
RunHashchain(r, trees, works) ==
  LET n        == Len(TreesOfRound(r, oracles_at_end))
      roots    == SubSeq(trees, processed_MTs + 1, processed_MTs + n)
      messages == MessagesOfRound(r, MessageIds(Len(prover_message_registrations)))
  IN  /\ processed_MTs' = processed_MTs + n
      /\ challenges' = ChallengesAfter(challenges, hashchain, r, roots, messages)
      /\ LET chain == HashchainAfter(hashchain, r, roots, messages)
         IN  /\ pow_answer' = IF works THEN chain ELSE pow_answer
             /\ hashchain' = IF works THEN Append(chain, Squeeze("pow")) ELSE chain

\* submit_prover_index, whose signal_index_submissions_done is the prover's own:
\* oracle i takes the i-th evaluations of the index.  There is no proof of work
\* here, whatever rounds follow.
ProverSubmitsIndex ==
  /\ ~prover_stopped
  /\ index # None
  /\ SubmitProverIndex
  /\ oracle_contents' = [o \in RoundEntries(0, oracles_at_end) |-> index.oracles[o]]
  /\ RunHashchain(0, Merkle_trees, FALSE)
  /\ UNCHANGED <<queries, index, pow_registered, Merkle_trees, prover_stopped,
                 transcript, verifierVars>>

\* signal_prover_round_done: the round's tree is constructed, its root and
\* messages absorbed, the next messages squeezed; the last round adds the
\* proof of work.  The loop over the domains of the round constructs the SAME
\* tree for each, and a second construction is refused.
ProverRoundDone ==
  LET r     == num_prover_rounds_done
      trees == TreesOfRound(r, oracles_at_end)
      next  == processed_MTs + 1
  IN  /\ Proving
      /\ SignalProverRoundDone
      /\ Merkle_trees' = IF trees = << >> THEN Merkle_trees
                         ELSE [Merkle_trees EXCEPT ![next] = trees[1]]
      /\ \/ /\ Len(trees) <= 1
            /\ RunHashchain(r, Merkle_trees', r = num_interaction_rounds - 1)
            /\ UNCHANGED prover_stopped
         \/ /\ Len(trees) > 1
            /\ prover_stopped' = TRUE
            /\ UNCHANGED <<processed_MTs, hashchain, challenges, pow_answer>>
      /\ UNCHANGED <<queries, index, pow_registered, oracle_contents, transcript, verifierVars>>

\* obtain_verifier_random_message of prover and verifier: operator[] of the map
\* inserts an empty vector for a message that has not been squeezed.
ProverReadsChallenge(m) ==
  /\ ~prover_stopped
  /\ transcript = None
  /\ registration_state = "done"
  /\ num_prover_rounds_done < num_interaction_rounds
  /\ CarefulCallers => m <= EndOf(num_prover_rounds_done, random_messages_at_end)
  /\ m \notin DOMAIN challenges
  /\ challenges' = Inserted(challenges, m, << >>)
  /\ UNCHANGED <<vars, queries, index, pow_registered, oracle_contents, Merkle_trees,
                 processed_MTs, hashchain, pow_answer, prover_stopped, transcript,
                 verifierVars>>

\* Faulty: the positions come from a chain of their own.
PositionFromNewChain(chain, p) == Squeezes("position", p)

\* The position that is squeezed as the p-th from a chain, which for prover and
\* verifier goes on from the challenge of the proof of work.
PositionFrom(chain, p) == chain \o Squeezes("position", p)

\* Faulty: the index roots are sent too.
WithoutIndexKeepingRoots(trees, messages) ==
  [roots |-> trees,
   messages |-> IF index = None THEN messages
                ELSE SubSeq(messages, Len(index.messages) + 1, Len(messages))]

\* remove_index_info_from_transcript: the verifier has these already.
WithoutIndex(trees, messages) ==
  IF index = None THEN [roots |-> trees, messages |-> messages]
  ELSE [roots |-> SubSeq(trees, Len(index.trees) + 1, Len(trees)),
        messages |-> SubSeq(messages, Len(index.messages) + 1, Len(messages))]

\* get_transcript: every query is asked for, then each tree is opened at the
\* positions where one of its oracles is queried, for all its oracles.
GetTranscript ==
  /\ ~prover_stopped
  /\ transcript = None
  /\ registration_state = "done"
  /\ num_prover_rounds_done = num_interaction_rounds
  /\ LET sent == WithoutIndex(Merkle_trees, MessageIds(Len(prover_message_registrations)))
         opening(t) ==
           [positions |-> {PositionFrom(hashchain, queries[i].position) :
                             i \in {j \in DOMAIN queries :
                                      queries[j].oracle \in OraclesOfTree(t)}},
            columns |-> [o \in OraclesOfTree(t) |-> oracle_contents[o]]]
     IN  transcript' = [roots |-> sent.roots,
                        messages |-> sent.messages,
                        openings |-> [i \in DOMAIN AllTrees |-> opening(AllTrees[i])],
                        proof_of_work |-> pow_answer]
  /\ hashchain' = PositionFrom(hashchain, NumPositions)
  /\ UNCHANGED <<vars, queries, index, pow_registered, oracle_contents, Merkle_trees,
                 processed_MTs, challenges, pow_answer, prover_stopped, verifierVars>>

-----------------------------------------------------------------------------
(***************************************************************************)
(* The verifier.                                                           *)
(***************************************************************************)

\* The constructor puts what the index holds in front of the transcript.
VerifierRoots ==
  IF index = None THEN transcript.roots ELSE index.trees \o transcript.roots
VerifierMessages ==
  IF index = None THEN transcript.messages
  ELSE index.verifier_messages \o transcript.messages

\* Faulty: the messages are counted when all are registered.
IndexHasAllMessages ==
  index # None =>
    /\ Len(index.trees) = Len(TreesOfRound(0, oracles_at_end))
    /\ Len(index.verifier_messages) = Len(prover_message_registrations)

IndexHasTheRightSize ==
  index # None =>
    /\ Len(index.trees) = Len(TreesOfRound(0, oracles_at_end))
    /\ Len(index.verifier_messages) = prover_messages_at_end[1]

\* What the verifier absorbs for round r: its next roots, processed_MTs_ of them
\* gone, and its messages.
ReplayedRoots(r) ==
  LET processed == Len(TreesOfRounds(0, r - 1, oracles_at_end))
  IN  SubSeq(VerifierRoots, processed + 1,
             processed + Len(TreesOfRound(r, oracles_at_end)))
ReplayedMessages(r) == MessagesOfRound(r, VerifierMessages)

\* The hash chain when the verifier has replayed n rounds.
Replay[n \in 0..num_interaction_rounds] ==
  IF n = 0 THEN << >>
  ELSE HashchainAfter(Replay[n - 1], n - 1, ReplayedRoots(n - 1), ReplayedMessages(n - 1))

\* The challenges when it has replayed them all.
ReplayedChallenges ==
  [m \in UNION {SqueezedAfter(r) : r \in 0..(num_interaction_rounds - 1)} |->
     LET r == CHOOSE r \in 0..(num_interaction_rounds - 1) : m \in SqueezedAfter(r)
     IN  ChallengeOf(m, Replay[r], r, ReplayedRoots(r), ReplayedMessages(r))]

\* validate_set_membership_proof: what is opened is what the root commits to.
OpeningIsValid(root, opening) ==
  opening.positions = {} \/ opening.columns = [o \in OraclesOfTree(root) |-> o]

\* Without register_proof_of_work the parameters of pow_ are never initialised,
\* in the prover and in the verifier, and the answer may or may not pass.
ProofOfWorkResults(challenge) ==
  IF pow_registered THEN {transcript.proof_of_work = challenge} ELSE BOOLEAN

\* bcs_verifier::seal_interaction_registrations: rounds replayed, openings and
\* proof of work checked.
SealVerifier ==
  /\ verdict = "none"
  /\ transcript # None
  /\ \/ /\ ~IndexHasTheRightSize
        /\ verdict' = "exception"
        /\ UNCHANGED <<verifier_hashchain, verifier_challenges, transcript_is_valid>>
     \/ /\ IndexHasTheRightSize
        /\ verifier_hashchain' = Append(Replay[num_interaction_rounds], Squeeze("pow"))
        /\ verifier_challenges' = ReplayedChallenges
        /\ \E pow_is_valid \in ProofOfWorkResults(Replay[num_interaction_rounds]) :
             transcript_is_valid' =
               /\ pow_is_valid
               /\ \A i \in DOMAIN AllTrees :
                    OpeningIsValid(VerifierRoots[i], transcript.openings[i])
        /\ verdict' = "sealed"
  /\ UNCHANGED <<vars, queries, index, pow_registered, proverVars, num_answered>>

\* The tree a query goes to, as an index into Merkle_trees_.
TreeOf(o) == CHOOSE i \in DOMAIN AllTrees : o \in OraclesOfTree(AllTrees[i])

\* The next query of the predicate: a new position is squeezed, a known one
\* taken from random_query_positions_; an opening must be in the transcript.
\* The predicates of the protocols ask in the order of registration.
VerifierAsksQuery ==
  /\ verdict = "sealed"
  /\ num_answered < Len(queries)
  /\ LET query    == queries[num_answered + 1]
         known    == Cardinality({queries[i].position : i \in 1..num_answered})
         position == PositionFrom(SubSeq(verifier_hashchain, 1, Len(verifier_hashchain) - known),
                                  query.position)
         opening  == transcript.openings[TreeOf(query.oracle)]
     IN  /\ verifier_hashchain' =
              IF query.position > known THEN position ELSE verifier_hashchain
         /\ verdict' = IF position \in opening.positions THEN verdict ELSE "exception"
  /\ num_answered' = num_answered + 1
  /\ UNCHANGED <<vars, queries, index, pow_registered, proverVars, verifier_challenges,
                 transcript_is_valid>>

\* The *_snark_verifier functions: the transcript is valid and the predicate of
\* the protocol, which holds of an honest prover's answers, accepts.
VerifierDecides ==
  /\ verdict = "sealed"
  /\ num_answered = Len(queries)
  /\ verdict' = IF transcript_is_valid THEN "accepted" ELSE "rejected"
  /\ UNCHANGED <<vars, queries, index, pow_registered, proverVars, verifier_hashchain,
                 verifier_challenges, transcript_is_valid, num_answered>>

-----------------------------------------------------------------------------

Describe ==
  \/ DescribeInteraction
  \/ RunIndexer
  \/ SealBcs
  \/ \E o \in Oracles, p \in 1..MaxQueries : RegisterQuery(o, p)

ProverStep ==
  \/ \E o \in Oracles, size \in DomainSizes : ProverSubmitsOracle(o, size)
  \/ \E m \in ProverMessages, size \in MessageSizes : ProverSubmitsMessage(m, size)
  \/ ProverSubmitsIndex
  \/ ProverRoundDone
  \/ \E m \in RandomMessages : ProverReadsChallenge(m)
  \/ GetTranscript

VerifierStep == SealVerifier \/ VerifierAsksQuery \/ VerifierDecides

BcsNext == Describe \/ ProverStep \/ VerifierStep

BcsSpec == BcsInit /\ [][BcsNext]_<<vars, bcsVars>>

\* Prover and verifier are straight-line programs that do not stop half way.
BcsFairSpec ==
  /\ BcsSpec
  /\ WF_<<vars, bcsVars>>(ProverStep)
  /\ WF_<<vars, bcsVars>>(VerifierStep)

-----------------------------------------------------------------------------
(***************************************************************************)
(* Properties.                                                             *)
(***************************************************************************)

Operations == {"root", "messages", "challenge", "pow", "position"}

Chains(chain) == \A i \in DOMAIN chain : chain[i].op \in Operations

BcsTypeOK ==
  /\ \A i \in DOMAIN queries : queries[i].oracle \in Oracles
  /\ DOMAIN oracle_contents = oracles_present
  /\ \A i \in DOMAIN Merkle_trees : Merkle_trees[i] = Unbuilt \/ Len(Merkle_trees[i]) = 2
  /\ processed_MTs \in Nat
  /\ Chains(hashchain) /\ Chains(verifier_hashchain) /\ Chains(pow_answer)
  /\ DOMAIN challenges \subseteq RandomMessages
  /\ DOMAIN verifier_challenges \subseteq RandomMessages
  /\ {pow_registered, prover_stopped, transcript_is_valid} \subseteq BOOLEAN
  /\ num_answered \in 0..Len(queries)
  /\ verdict \in {"none", "sealed", "accepted", "rejected", "exception"}

\* The roots, and the ids of the messages, that a chain has absorbed, in order.
AbsorbedRoots(chain) ==
  FlattenSeq([i \in DOMAIN chain |->
                IF chain[i].op = "root" THEN <<chain[i].of>> ELSE << >>])
AbsorbedMessages(chain) ==
  FlattenSeq([i \in DOMAIN chain |->
                IF chain[i].op = "messages" THEN chain[i].of ELSE << >>])

\* A challenge of round r is squeezed from a chain that has absorbed every tree
\* and every message of the rounds before r, each once and in order, and
\* nothing of round r itself: neither the prover's trees, built one round at a
\* time, nor those taken from an index get out of step with the rounds.
ChallengesBindEarlierRounds ==
  \A r \in 1..(num_interaction_rounds - 1) :
    r + 1 \in DOMAIN random_messages_at_end =>
      \A m \in RoundEntries(r, random_messages_at_end) \cap DOMAIN challenges :
        /\ AbsorbedRoots(challenges[m]) = TreesOfRounds(0, r - 1, oracles_at_end)
        /\ AbsorbedMessages(challenges[m]) = MessageIds(EndOf(r - 1, prover_messages_at_end))

\* The processed trees, and only they, are built, each out of the oracles of
\* its own round; a tree of the index is there from the start.
TreesFollowRounds ==
  registration_state = "done" /\ ~prover_stopped =>
    /\ Len(Merkle_trees) = Len(AllTrees)
    /\ processed_MTs = Len(TreesOfRounds(0, num_prover_rounds_done - 1, oracles_at_end))
    /\ \A i \in DOMAIN Merkle_trees :
         Merkle_trees[i] = IF i <= processed_MTs \/ (is_holographic /\ AllTrees[i][1] = 0)
                           THEN AllTrees[i] ELSE Unbuilt

\* The comment on obtain_verifier_random_message: a message is constructed so
\* that prover and verifier can reconstruct it.  Whatever the prover has been
\* given, the verifier's replay gives it too.
ReadBy(known, m) == IF m \in DOMAIN known THEN known[m] ELSE << >>
ChallengesAgree ==
  verdict \in {"sealed", "accepted", "rejected"} =>
    \A m \in RandomMessages : ReadBy(challenges, m) = ReadBy(verifier_challenges, m)

\* The positions are not known before the last round is: each is squeezed from a
\* chain that has absorbed every root and every message, after the challenge of
\* the proof of work, by a prover that opens the trees long after the last of
\* them was built.
PositionsFollowTheRounds ==
  transcript # None =>
    /\ AbsorbedRoots(pow_answer) = AllTrees
    /\ AbsorbedMessages(pow_answer) = MessageIds(Len(prover_message_registrations))
    /\ \A i \in DOMAIN transcript.openings :
         \A position \in transcript.openings[i].positions :
           IsStrictPrefix(Append(pow_answer, Squeeze("pow")), position)

\* The comments on the proof of work: it "gets absorbed into the hash chain", so
\* that a prover who wants to try new queries must redo it.  Neither the prover
\* nor the verifier absorbs an answer, so the positions are there to see before
\* any work is done, and it is violated.
QueriesFollowProofOfWork ==
  transcript # None =>
    \A i \in DOMAIN transcript.openings :
      \A position \in transcript.openings[i].positions :
        \E j \in DOMAIN position :
          position[j] = Absorb("proof of work", transcript.proof_of_work)

\* Once prover and verifier know the protocol, the verifier accepts.
HonestProofIsAccepted == registration_state = "done" ~> verdict = "accepted"

\* What the transformation is for: PublicCoinProof, where the conversation is
\* what the chain has absorbed and squeezed before the proof of work.  Since it
\* knows no other verdict than acceptance, an honest transcript is never turned
\* down: no tree is opened to the wrong oracle or under the wrong root, the
\* proof of work fits, and every position asked for is in the transcript.
Conversation(chain) ==
  LET said == {i \in DOMAIN chain : \A j \in 1..i :
                 chain[j].op \in {"root", "messages", "challenge"}}
  IN  SubSeq(chain, 1, Cardinality(said))
Abstract == INSTANCE PublicCoinProof WITH
  conversation <- Conversation(hashchain),
  heard <- Conversation(verifier_hashchain),
  verdict <- IF verdict = "sealed" THEN "none" ELSE verdict
ImplementsPublicCoinProof == Abstract!Spec

=============================================================================
