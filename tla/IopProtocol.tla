----------------------------- MODULE IopProtocol -----------------------------
(***************************************************************************)
(* The interaction layer of libiop: class iop_protocol of                  *)
(* libiop/libiop/iop/iop.{hpp,tcc}.  A protocol is first DESCRIBED (oracles, *)
(* prover messages and verifier random messages are registered, and the    *)
(* code cuts them into rounds as the direction of the messages changes),   *)
(* then RUN: the prover submits what was registered, one round at a time,  *)
(* and draws the random messages that the finished rounds entitle it to.   *)
(*                                                                         *)
(* Handles are numbered from 0 in the code and from 1 here: handle h of    *)
(* the code is index h + 1.  Round r of the code (from 0) has its          *)
(* boundaries at index r + 1 of the *_at_end sequences.  Contents of       *)
(* oracles and messages are abstracted to their sizes, which is all this   *)
(* class looks at.                                                         *)
(***************************************************************************)
EXTENDS Integers, Sequences

CONSTANTS
  DomainSizes,    \* sizes of the field subsets a caller may register
  Degrees,        \* degree bounds a caller may ask an oracle to have
  MessageSizes,   \* lengths of prover messages
  MaxDomains,     \* bounds on the number of registrations of each kind
  MaxOracles,
  MaxMessages,
  MaxRandoms

ASSUME SizesAssumption ==
  /\ DomainSizes \subseteq Nat \ {0}
  /\ Degrees \subseteq Nat
  /\ MessageSizes \subseteq Nat

ASSUME BoundsAssumption ==
  /\ MaxDomains \in Nat
  /\ MaxOracles \in Nat
  /\ MaxMessages \in Nat
  /\ MaxRandoms \in Nat

VARIABLES
  domains,                       \* domains_: the size of each domain
  oracle_registrations,          \* oracle_registrations_
  prover_message_registrations,  \* prover_message_registrations_: the sizes
  num_random_messages,           \* verifier_random_message_registrations_.size()
  message_direction,             \* message_direction_
  num_interaction_rounds,        \* num_interaction_rounds_
  registration_state,            \* registration_state_
  oracles_at_end,                \* num_oracles_at_end_of_round_
  prover_messages_at_end,        \* num_prover_messages_at_end_of_round_
  random_messages_at_end,        \* num_verifier_random_messages_at_end_of_round_
  is_holographic,                \* is_holographic_
  oracles_present,               \* indices whose oracles_present_ is true
  prover_messages_present,       \* indices whose prover_messages_present_ is true
  num_prover_rounds_done,        \* num_prover_rounds_done_
  verifier_random_messages       \* keys of verifier_random_messages_: drawn ones

\* The boundaries of the rounds, and what has been registered.
roundVars == <<message_direction, num_interaction_rounds, oracles_at_end,
               prover_messages_at_end, random_messages_at_end>>
registrationVars == <<domains, oracle_registrations, prover_message_registrations,
                      num_random_messages, is_holographic>>
\* What the prover and the verifier have exchanged.
runVars == <<oracles_present, prover_messages_present, num_prover_rounds_done,
             verifier_random_messages>>
vars == <<roundVars, registrationVars, registration_state, runVars>>

FromVerifier == "direction_from_verifier"
FromProver   == "direction_from_prover"

Oracles == 1..Len(oracle_registrations)
ProverMessages == 1..Len(prover_message_registrations)
RandomMessages == 1..num_random_messages

Init ==
  /\ domains = << >>
  /\ oracle_registrations = << >>
  /\ prover_message_registrations = << >>
  /\ num_random_messages = 0
  /\ message_direction = FromVerifier
  /\ num_interaction_rounds = 0
  /\ registration_state = "interactive"
  /\ oracles_at_end = << >>
  /\ prover_messages_at_end = << >>
  /\ random_messages_at_end = << >>
  /\ is_holographic = FALSE
  /\ oracles_present = {}
  /\ prover_messages_present = {}
  /\ num_prover_rounds_done = 0
  /\ verifier_random_messages = {}

-----------------------------------------------------------------------------
(***************************************************************************)
(* Registration.                                                           *)
(***************************************************************************)

RegisterDomain(size) ==
  /\ registration_state = "interactive"
  /\ Len(domains) < MaxDomains
  /\ domains' = Append(domains, size)
  /\ UNCHANGED <<oracle_registrations, prover_message_registrations,
                 num_random_messages, is_holographic, roundVars,
                 registration_state, runVars>>

\* Faulty: the boundary of the oracles is taken one short.
EndProverTurnShort ==
  /\ oracles_at_end' = Append(oracles_at_end, Len(oracle_registrations) - 1)
  /\ prover_messages_at_end' =
       Append(prover_messages_at_end, Len(prover_message_registrations))
  /\ num_interaction_rounds' = num_interaction_rounds + 1

\* Faulty: the boundary of the messages counts the oracles.
EndProverTurnSwapped ==
  /\ oracles_at_end' = Append(oracles_at_end, Len(oracle_registrations))
  /\ prover_messages_at_end' =
       Append(prover_messages_at_end, Len(oracle_registrations))
  /\ num_interaction_rounds' = num_interaction_rounds + 1

\* The prover's turn ends: a round is a verifier turn and a prover turn.
EndProverTurn ==
  /\ oracles_at_end' = Append(oracles_at_end, Len(oracle_registrations))
  /\ prover_messages_at_end' =
       Append(prover_messages_at_end, Len(prover_message_registrations))
  /\ num_interaction_rounds' = num_interaction_rounds + 1

\* update_rounds_and_direction: what a registration does to the rounds before
\* it adds its own entry.
UpdateRoundsAndDirection(new) ==
  \/ /\ message_direction = new
     /\ UNCHANGED roundVars
  \/ /\ message_direction = FromProver
     /\ new = FromVerifier
     /\ EndProverTurn
     /\ message_direction' = new
     /\ UNCHANGED random_messages_at_end
  \/ /\ message_direction = FromVerifier
     /\ new = FromProver
     /\ random_messages_at_end' = Append(random_messages_at_end, num_random_messages)
     /\ message_direction' = new
     /\ UNCHANGED <<oracles_at_end, prover_messages_at_end, num_interaction_rounds>>

AddOracle(d, indexed) ==
  oracle_registrations' =
    Append(oracle_registrations, [domain |-> d, indexed |-> indexed])

\* assert_oracle_can_be_registered
OracleCanBeRegistered(d, degree) ==
  /\ registration_state = "interactive"
  /\ d \in DOMAIN domains
  /\ degree < domains[d]

\* The code moves the direction before it refuses an oracle in round 0 of a
\* holographic protocol; HolographicStartsWithProver below is why the refused
\* call changes nothing.
RegisterOracle(d, degree) ==
  /\ OracleCanBeRegistered(d, degree)
  /\ Len(oracle_registrations) < MaxOracles
  /\ ~(is_holographic /\ num_interaction_rounds = 0)
  /\ UpdateRoundsAndDirection(FromProver)
  /\ AddOracle(d, FALSE)
  /\ UNCHANGED <<domains, prover_message_registrations, num_random_messages,
                 is_holographic, registration_state, runVars>>

\* Faulty: the protocol becomes holographic without the prover's turn starting.
RegisterIndexOracleOutOfTurn(d) ==
  /\ num_prover_rounds_done = 0
  /\ Len(oracle_registrations) < MaxOracles
  /\ is_holographic' = TRUE
  /\ AddOracle(d, TRUE)
  /\ UNCHANGED <<domains, prover_message_registrations, num_random_messages,
                 registration_state, roundVars, runVars>>

\* The only guard of register_index_oracle is on the rounds already RUN: it
\* looks neither at the registration state, nor at num_interaction_rounds_, nor
\* at the domain (Register hands it a handle that register_domain returned).
RegisterIndexOracle(d) ==
  /\ num_prover_rounds_done = 0
  /\ Len(oracle_registrations) < MaxOracles
  /\ UpdateRoundsAndDirection(FromProver)
  /\ is_holographic' = TRUE
  /\ AddOracle(d, TRUE)
  /\ UNCHANGED <<domains, prover_message_registrations, num_random_messages,
                 registration_state, runVars>>

RegisterProverMessage(size) ==
  /\ registration_state = "interactive"
  /\ Len(prover_message_registrations) < MaxMessages
  /\ UpdateRoundsAndDirection(FromProver)
  /\ prover_message_registrations' = Append(prover_message_registrations, size)
  /\ UNCHANGED <<domains, oracle_registrations, num_random_messages,
                 is_holographic, registration_state, runVars>>

RegisterVerifierRandomMessage ==
  /\ registration_state = "interactive"
  /\ num_random_messages < MaxRandoms
  /\ UpdateRoundsAndDirection(FromVerifier)
  /\ num_random_messages' = num_random_messages + 1
  /\ UNCHANGED <<domains, oracle_registrations, prover_message_registrations,
                 is_holographic, registration_state, runVars>>

\* Faulty: round 0 may be ended again later.
AnyRoundIsOpen == is_holographic

IndexRoundIsOpen == is_holographic /\ num_interaction_rounds = 0

\* Ends round 0 of a holographic protocol.  Like RegisterIndexOracle it does
\* not look at the registration state.
SignalIndexRegistrationsDone ==
  /\ IndexRoundIsOpen
  /\ UpdateRoundsAndDirection(FromVerifier)
  /\ UNCHANGED <<registrationVars, registration_state, runVars>>

\* Faulty: the verifier may have the last word.
CanSealAnyTurn == registration_state = "interactive"

CanSeal ==
  /\ registration_state = "interactive"
  /\ message_direction # FromVerifier

SealInteractionRegistrations ==
  /\ CanSeal
  /\ EndProverTurn
  /\ registration_state' = "query"
  /\ UNCHANGED <<message_direction, random_messages_at_end, registrationVars, runVars>>

SealQueryRegistrations ==
  /\ registration_state = "query"
  /\ registration_state' = "done"
  /\ UNCHANGED <<roundVars, registrationVars, runVars>>

-----------------------------------------------------------------------------
(***************************************************************************)
(* Running the protocol.                                                   *)
(***************************************************************************)

\* Entries before round r (counted from 0), and up to its end, of a sequence
\* of boundaries.
BeginOf(r, atEnd) == IF r = 0 THEN 0 ELSE atEnd[r]
EndOf(r, atEnd)   == atEnd[r + 1]
RoundEntries(r, atEnd) == (BeginOf(r, atEnd) + 1)..EndOf(r, atEnd)

\* num_prover_rounds_done_ indexes the boundaries of the round being run.  When
\* all rounds are done the code reads the end of a round that does not exist:
\* whatever it finds there, the entry may be let through or refused.
InRoundBeingRun(e, atEnd) ==
  /\ e > BeginOf(num_prover_rounds_done, atEnd)
  /\ num_prover_rounds_done < num_interaction_rounds
       => e <= EndOf(num_prover_rounds_done, atEnd)

SubmitOracle(o, size) ==
  /\ registration_state = "done"
  /\ o \notin oracles_present
  /\ InRoundBeingRun(o, oracles_at_end)
  /\ size = domains[oracle_registrations[o].domain]
  /\ oracles_present' = oracles_present \union {o}
  /\ UNCHANGED <<roundVars, registrationVars, registration_state,
                 prover_messages_present, num_prover_rounds_done,
                 verifier_random_messages>>

SubmitProverMessage(m, size) ==
  /\ registration_state = "done"
  /\ m \notin prover_messages_present
  /\ InRoundBeingRun(m, prover_messages_at_end)
  /\ size = prover_message_registrations[m]
  /\ prover_messages_present' = prover_messages_present \union {m}
  /\ UNCHANGED <<roundVars, registrationVars, registration_state,
                 oracles_present, num_prover_rounds_done,
                 verifier_random_messages>>

\* Faulty: the prover messages of the round are not looked at.
OraclesSubmitted ==
  RoundEntries(num_prover_rounds_done, oracles_at_end) \subseteq oracles_present

\* Faulty: every registered oracle is asked for, not those of the round.
EverythingSubmitted ==
  Oracles \subseteq oracles_present /\ ProverMessages \subseteq prover_messages_present

RoundSubmitted ==
  /\ RoundEntries(num_prover_rounds_done, oracles_at_end) \subseteq oracles_present
  /\ RoundEntries(num_prover_rounds_done, prover_messages_at_end)
       \subseteq prover_messages_present

SignalProverRoundDone ==
  /\ registration_state = "done"
  /\ num_prover_rounds_done < num_interaction_rounds
  /\ RoundSubmitted
  /\ num_prover_rounds_done' = num_prover_rounds_done + 1
  /\ UNCHANGED <<roundVars, registrationVars, registration_state,
                 oracles_present, prover_messages_present,
                 verifier_random_messages>>

\* submit_prover_index: round 0 is submitted in one call, entry by entry, and
\* closed.
SubmitProverIndex ==
  LET indexOracles  == RoundEntries(0, oracles_at_end)
      indexMessages == RoundEntries(0, prover_messages_at_end)
  IN  /\ registration_state = "done"
      /\ num_prover_rounds_done = 0
      /\ indexOracles \cap oracles_present = {}
      /\ indexMessages \cap prover_messages_present = {}
      /\ oracles_present' = oracles_present \union indexOracles
      /\ prover_messages_present' = prover_messages_present \union indexMessages
      /\ num_prover_rounds_done' = 1
      /\ UNCHANGED <<roundVars, registrationVars, registration_state,
                     verifier_random_messages>>

\* The same call when oracle `stop' is already there: the entries before it
\* have been submitted when the exception leaves the loop.
SubmitProverIndexRefused(stop) ==
  LET before == 1..(stop - 1)
  IN  /\ registration_state = "done"
      /\ num_prover_rounds_done = 0
      /\ stop \in RoundEntries(0, oracles_at_end)
      /\ stop \in oracles_present
      /\ before # {}
      /\ before \cap oracles_present = {}
      /\ oracles_present' = oracles_present \union before
      /\ UNCHANGED <<roundVars, registrationVars, registration_state,
                     prover_messages_present, num_prover_rounds_done,
                     verifier_random_messages>>

\* And when message `stop' is already there: all oracles of the index, and the
\* messages before it, have been submitted.
SubmitProverIndexRefusedAtMessage(stop) ==
  LET indexOracles == RoundEntries(0, oracles_at_end)
      before       == 1..(stop - 1)
  IN  /\ registration_state = "done"
      /\ num_prover_rounds_done = 0
      /\ indexOracles \cap oracles_present = {}
      /\ stop \in RoundEntries(0, prover_messages_at_end)
      /\ stop \in prover_messages_present
      /\ before \cap prover_messages_present = {}
      /\ indexOracles \union before # {}
      /\ oracles_present' = oracles_present \union indexOracles
      /\ prover_messages_present' = prover_messages_present \union before
      /\ UNCHANGED <<roundVars, registrationVars, registration_state,
                     num_prover_rounds_done, verifier_random_messages>>

\* Faulty: the end of the last round, whatever the rounds done.
MayDrawAnything == EndOf(num_interaction_rounds - 1, random_messages_at_end) + 1

\* obtain_verifier_random_message compares `id > message_id_end' with ids from
\* 0, so the code lets through the id that is EQUAL to the end of the round.
MayDrawUpTo ==
  LET round == IF num_prover_rounds_done < num_interaction_rounds
               THEN num_prover_rounds_done ELSE num_interaction_rounds - 1
  IN  EndOf(round, random_messages_at_end) + 1

ObtainVerifierRandomMessage(m) ==
  /\ registration_state = "done"
  /\ m <= MayDrawUpTo
  /\ m \notin verifier_random_messages
  /\ verifier_random_messages' = verifier_random_messages \union {m}
  /\ UNCHANGED <<roundVars, registrationVars, registration_state,
                 oracles_present, prover_messages_present, num_prover_rounds_done>>

-----------------------------------------------------------------------------

Register ==
  \/ \E size \in DomainSizes : RegisterDomain(size)
  \/ \E d \in DOMAIN domains, degree \in Degrees : RegisterOracle(d, degree)
  \/ \E d \in DOMAIN domains : RegisterIndexOracle(d)
  \/ \E size \in MessageSizes : RegisterProverMessage(size)
  \/ RegisterVerifierRandomMessage
  \/ SignalIndexRegistrationsDone
  \/ SealInteractionRegistrations
  \/ SealQueryRegistrations

Run ==
  \/ \E o \in Oracles, size \in DomainSizes : SubmitOracle(o, size)
  \/ \E m \in ProverMessages, size \in MessageSizes : SubmitProverMessage(m, size)
  \/ SignalProverRoundDone
  \/ SubmitProverIndex
  \/ \E stop \in Oracles : SubmitProverIndexRefused(stop)
  \/ \E stop \in ProverMessages : SubmitProverIndexRefusedAtMessage(stop)
  \/ \E m \in RandomMessages : ObtainVerifierRandomMessage(m)

Next == Register \/ Run

Spec == Init /\ [][Next]_vars

\* produce_proof submits what each round asks for and signals its end, in
\* straight-line code: the prover does not stop half way.
ProverFairness ==
  /\ WF_vars(\E o \in Oracles, size \in DomainSizes : SubmitOracle(o, size))
  /\ WF_vars(\E m \in ProverMessages, size \in MessageSizes :
               SubmitProverMessage(m, size))
  /\ WF_vars(SignalProverRoundDone)

FairSpec == Spec /\ ProverFairness

-----------------------------------------------------------------------------
(***************************************************************************)
(* Properties.                                                             *)
(***************************************************************************)

TypeOK ==
  /\ domains \in Seq(DomainSizes)
  /\ oracle_registrations \in Seq([domain : Nat, indexed : BOOLEAN])
  /\ prover_message_registrations \in Seq(MessageSizes)
  /\ num_random_messages \in Nat
  /\ message_direction \in {FromVerifier, FromProver}
  /\ num_interaction_rounds \in Nat
  /\ registration_state \in {"interactive", "query", "done"}
  /\ oracles_at_end \in Seq(Nat)
  /\ prover_messages_at_end \in Seq(Nat)
  /\ random_messages_at_end \in Seq(Nat)
  /\ is_holographic \in BOOLEAN
  /\ oracles_present \subseteq Nat
  /\ prover_messages_present \subseteq Nat
  /\ num_prover_rounds_done \in Nat
  /\ verifier_random_messages \subseteq Nat

\* The boundaries of one kind of entry never run backwards and never run past
\* what is registered.
Boundaries(atEnd, registered) ==
  /\ \A i, j \in DOMAIN atEnd : i <= j => atEnd[i] <= atEnd[j]
  /\ \A i \in DOMAIN atEnd : atEnd[i] <= registered

\* Entry e is of one round, and of no other.
OfOneRound(e, atEnd) ==
  \E r \in 0..(num_interaction_rounds - 1) :
    /\ e \in RoundEntries(r, atEnd)
    /\ \A q \in 0..(num_interaction_rounds - 1) : q # r => e \notin RoundEntries(q, atEnd)

\* The index oracles that register_index_oracle lets in after the sealing: they
\* lie past the boundary of the last round.
LateIndexOracle(o) ==
  /\ oracle_registrations[o].indexed
  /\ o > oracles_at_end[num_interaction_rounds]

\* One boundary per round and kind; the verifier's boundary of a round is
\* recorded when the prover's turn starts, ahead of the prover's own.
RoundsAreConsecutive ==
  /\ Boundaries(oracles_at_end, Len(oracle_registrations))
  /\ Boundaries(prover_messages_at_end, Len(prover_message_registrations))
  /\ Boundaries(random_messages_at_end, num_random_messages)
  /\ Len(oracles_at_end) = num_interaction_rounds
  /\ Len(prover_messages_at_end) = num_interaction_rounds
  /\ Len(random_messages_at_end) =
       IF registration_state = "interactive" /\ message_direction = FromProver
       THEN num_interaction_rounds + 1 ELSE num_interaction_rounds

\* update_rounds_and_direction and seal_interaction_registrations cut each kind
\* of registration into consecutive rounds.  Of a sealed protocol every message
\* of the prover or the verifier is of exactly one round, and so is every oracle
\* but the index oracles registered after the sealing, which are of none.
RoundsPartitionEntries ==
  /\ RoundsAreConsecutive
  /\ registration_state # "interactive" =>
       /\ \A m \in ProverMessages : OfOneRound(m, prover_messages_at_end)
       /\ \A m \in RandomMessages : OfOneRound(m, random_messages_at_end)
       /\ \A o \in Oracles : OfOneRound(o, oracles_at_end) \/ LateIndexOracle(o)

\* The code subtracts 1 from the number of rounds and indexes the boundary
\* vectors without a check.  Every index that signal_prover_round_done and
\* obtain_verifier_random_message take exists, and so does every index of
\* submit_oracle and submit_prover_message, with one exception: when all rounds
\* are done these two compare with the end of a round that is not there.  They
\* get as far for an entry that is not yet present, and the only such entries
\* are index oracles registered after the sealing.
IndicesInRange ==
  registration_state = "done" =>
    /\ num_interaction_rounds >= 1
    /\ num_prover_rounds_done <= num_interaction_rounds
    /\ \A r \in 0..(num_interaction_rounds - 1) :
         /\ r + 1 \in DOMAIN oracles_at_end
         /\ r + 1 \in DOMAIN prover_messages_at_end
         /\ r + 1 \in DOMAIN random_messages_at_end
    /\ num_prover_rounds_done = num_interaction_rounds =>
         /\ ProverMessages \subseteq prover_messages_present
         /\ \A o \in Oracles \ oracles_present : LateIndexOracle(o)

\* What is submitted is exactly the finished rounds and part of the current
\* one, whatever the order of the calls, index or not: an oracle of a later
\* round is never there early, one of a finished round is never missing.
SubmissionsFollowRounds ==
  \A r \in 0..(num_interaction_rounds - 1) :
    LET os == RoundEntries(r, oracles_at_end)
        ms == RoundEntries(r, prover_messages_at_end)
    IN  /\ r < num_prover_rounds_done =>
             os \subseteq oracles_present /\ ms \subseteq prover_messages_present
        /\ r > num_prover_rounds_done =>
             os \cap oracles_present = {} /\ ms \cap prover_messages_present = {}

\* The random messages of round r answer the prover's rounds before r.  For
\* every message but the first of its round the code makes the prover finish
\* those rounds before it sees the message.
LaterMessagesAfterCommitment ==
  \A r \in 1..(num_interaction_rounds - 1), m \in verifier_random_messages :
    (r + 1 \in DOMAIN random_messages_at_end
      /\ m - 1 \in RoundEntries(r, random_messages_at_end)
      /\ m \in RoundEntries(r, random_messages_at_end))
    => num_prover_rounds_done >= r

\* A refused register_oracle has already called update_rounds_and_direction;
\* in the states where it is refused that call does nothing.
HolographicStartsWithProver ==
  (is_holographic /\ num_interaction_rounds = 0) => message_direction = FromProver

\* Sealing fixes the rounds: no later call moves a boundary or adds a round,
\* though two operations that may do so never look at the registration state.
SealedRoundsAreFixed ==
  [][registration_state # "interactive" => UNCHANGED roundVars]_vars

\* Once all registrations are sealed, the prover can always go on to the end
\* of the last round, also after a refused submit_prover_index.
EveryRoundIsFinished ==
  registration_state = "done" ~> num_prover_rounds_done = num_interaction_rounds

=============================================================================
