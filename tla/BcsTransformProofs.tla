-------------------------- MODULE BcsTransformProofs --------------------------
(***************************************************************************)
(* Theorems about IopProtocol and about BcsTransform, which extends it,    *)
(* for every description of a protocol and every number of rounds, queries *)
(* and messages; those about the transform, when callers keep to what the  *)
(* classes support.                                                        *)
(*                                                                         *)
(* The safety properties of IopProtocol rest on one inductive invariant,   *)
(* IInv: besides the properties it says in which states there is nothing   *)
(* submitted yet, that a sealed protocol ended on a prover's turn and its  *)
(* last boundaries leave nothing out, and how far the drawn messages go.   *)
(*                                                                         *)
(* For the transform, first the trees, the messages and the hash chain of  *)
(* the first n rounds, described without the programs that build them:     *)
(* what types they have, how they grow with a round, and what a chain has  *)
(* absorbed.  Its inductive invariant says that the prover's trees and     *)
(* chain are those of the finished rounds, that the index is round 0, and  *)
(* that the verifier has replayed the same chain.                          *)
(***************************************************************************)
EXTENDS BcsTransform, LibraryFacts

-----------------------------------------------------------------------------
(***************************************************************************)
(* IopProtocol: what the rounds and the submissions keep.                  *)
(***************************************************************************)
\* A sealed protocol ends on the prover's turn and has a round; nothing is
\* exchanged before it is sealed.
SealedState ==
  /\ registration_state # "interactive" =>
       message_direction = FromProver /\ num_interaction_rounds >= 1
  /\ registration_state # "done" =>
       /\ oracles_present = {}
       /\ prover_messages_present = {}
       /\ num_prover_rounds_done = 0
       /\ verifier_random_messages = {}
  /\ num_prover_rounds_done <= num_interaction_rounds

\* The last boundary leaves nothing out: in a prover's turn, and when sealed, all
\* random messages are of a round; when sealed, all prover messages are, and all
\* oracles but those of an index.
EntriesCovered ==
  /\ message_direction = FromProver =>
       /\ random_messages_at_end # << >>
       /\ random_messages_at_end[Len(random_messages_at_end)] = num_random_messages
  /\ registration_state # "interactive" =>
       /\ prover_messages_at_end[num_interaction_rounds] = Len(prover_message_registrations)
       /\ \A o \in Oracles :
            o <= oracles_at_end[num_interaction_rounds] \/ oracle_registrations[o].indexed

\* The drawn messages stay within what the rounds done allow.
DrawnWithinBound ==
  registration_state = "done" =>
    \A m \in verifier_random_messages : m <= MayDrawUpTo

IInv ==
  /\ TypeOK
  /\ RoundsAreConsecutive
  /\ EntriesCovered
  /\ SealedState
  /\ SubmissionsFollowRounds
  /\ DrawnWithinBound
  /\ HolographicStartsWithProver

-----------------------------------------------------------------------------
(***************************************************************************)
(* Lemmas about boundaries.                                                *)
(***************************************************************************)

\* Recording the present number of entries as a further boundary keeps the
\* boundaries in order.
LEMMA BoundariesAppend ==
  ASSUME NEW atEnd \in Seq(Nat), NEW n \in Nat, Boundaries(atEnd, n)
  PROVE  /\ Append(atEnd, n) \in Seq(Nat)
         /\ Len(Append(atEnd, n)) = Len(atEnd) + 1
         /\ Boundaries(Append(atEnd, n), n)
BY DEF Boundaries

\* Registering another entry keeps them in order too.
LEMMA BoundariesGrow ==
  ASSUME NEW atEnd \in Seq(Nat), NEW n \in Nat, NEW k \in Nat, n <= k,
         Boundaries(atEnd, n)
  PROVE  Boundaries(atEnd, k)
BY DEF Boundaries

\* An entry of a round is of no later round.
LEMMA RoundsAreDisjoint ==
  ASSUME NEW atEnd \in Seq(Nat), NEW n \in Nat, Boundaries(atEnd, n),
         NEW q \in Nat, NEW r \in Nat, q < r, r < Len(atEnd),
         NEW e \in RoundEntries(q, atEnd)
  PROVE  e \notin RoundEntries(r, atEnd)
<1>1. q + 1 \in DOMAIN atEnd /\ r \in DOMAIN atEnd /\ q + 1 <= r
  OBVIOUS
<1>2. atEnd[q + 1] \in Nat /\ atEnd[r] \in Nat /\ atEnd[q + 1] <= atEnd[r]
  BY <1>1 DEF Boundaries
<1>3. r # 0 /\ r + 1 \in DOMAIN atEnd
  OBVIOUS
<1>4. atEnd[r + 1] \in Nat
  BY <1>3
<1>5. IF q = 0 THEN TRUE ELSE atEnd[q] \in Nat
  BY <1>1
<1>6. QED
  BY <1>2, <1>3, <1>4, <1>5, SMTT(25) DEF RoundEntries, BeginOf, EndOf

\* The boundaries of a round are in order, and the next round begins at its end.
LEMMA BoundariesOfRound ==
  ASSUME NEW atEnd \in Seq(Nat), NEW n \in Nat, Boundaries(atEnd, n),
         NEW r \in Nat, r < Len(atEnd)
  PROVE  /\ BeginOf(r, atEnd) \in Nat
         /\ EndOf(r, atEnd) \in Nat
         /\ BeginOf(r, atEnd) <= EndOf(r, atEnd)
         /\ EndOf(r, atEnd) <= n
         /\ BeginOf(r + 1, atEnd) = EndOf(r, atEnd)
<1>1. r + 1 \in DOMAIN atEnd /\ (r # 0 => r \in DOMAIN atEnd)
  OBVIOUS
<1>2. atEnd[r + 1] \in Nat /\ (r # 0 => atEnd[r] \in Nat)
  BY <1>1
<1>3. atEnd[r + 1] <= n /\ (r # 0 => atEnd[r] <= atEnd[r + 1])
  BY <1>1 DEF Boundaries
<1>4. r + 1 # 0
  OBVIOUS
<1> QED BY <1>2, <1>3, <1>4 DEF BeginOf, EndOf

\* Every entry up to a boundary is of a round before it.
LEMMA EntryHasARound ==
  ASSUME NEW atEnd \in Seq(Nat), NEW n \in Nat, Boundaries(atEnd, n),
         NEW k \in 1..Len(atEnd), NEW e \in 1..atEnd[k]
  PROVE  \E r \in 0..(k - 1) : e \in RoundEntries(r, atEnd)
<1> DEFINE has(j) == \A x \in 1..atEnd[j] : \E r \in 0..(j - 1) : x \in RoundEntries(r, atEnd)
           N == {j \in Nat : j \in 1..Len(atEnd) => has(j)}
<1>1. 0 \in N
  OBVIOUS
<1>2. ASSUME NEW j \in Nat, j \in N PROVE j + 1 \in N
  <2>1. SUFFICES ASSUME j + 1 \in 1..Len(atEnd), NEW x \in 1..atEnd[j + 1]
                 PROVE  \E r \in 0..((j + 1) - 1) : x \in RoundEntries(r, atEnd)
    OBVIOUS
  <2>2. j < Len(atEnd) /\ (j + 1) - 1 = j /\ j \in 0..j
    BY <2>1
  <2>3. BeginOf(j, atEnd) \in Nat /\ EndOf(j, atEnd) \in Nat
    BY <2>2, BoundariesOfRound
  <2>4. CASE x > BeginOf(j, atEnd)
    <3>1. x \in RoundEntries(j, atEnd)
      BY <2>1, <2>3, <2>4 DEF RoundEntries, EndOf
    <3> QED BY <2>2, <3>1
  <2>5. CASE ~(x > BeginOf(j, atEnd))
    <3>1. j # 0 /\ x \in 1..atEnd[j]
      BY <2>1, <2>3, <2>5, SMTT(25) DEF BeginOf
    <3>2. j \in 1..Len(atEnd)
      BY <2>2, <3>1
    <3>3. PICK r \in 0..(j - 1) : x \in RoundEntries(r, atEnd)
      BY <1>2, <3>1, <3>2
    <3>4. r \in 0..j
      OBVIOUS
    <3> QED BY <2>2, <3>3, <3>4
  <2> QED BY <2>4, <2>5
<1> HIDE DEF N
<1>3. k \in N
  <2>1. k \in Nat
    OBVIOUS
  <2> QED BY <1>1, <1>2, <2>1, NatSetInduction
<1> QED BY <1>3 DEF N

\* So an entry up to the last boundary is of exactly one round.
LEMMA EntryHasOneRound ==
  ASSUME NEW atEnd \in Seq(Nat), NEW n \in Nat, Boundaries(atEnd, n),
         num_interaction_rounds \in Nat \ {0}, num_interaction_rounds <= Len(atEnd),
         NEW e \in 1..atEnd[num_interaction_rounds]
  PROVE  OfOneRound(e, atEnd)
<1>1. PICK r \in 0..(num_interaction_rounds - 1) : e \in RoundEntries(r, atEnd)
  BY EntryHasARound
<1>2. ASSUME NEW q \in 0..(num_interaction_rounds - 1), q # r
      PROVE  e \notin RoundEntries(q, atEnd)
  <2>1. q \in Nat /\ r \in Nat /\ q < Len(atEnd) /\ r < Len(atEnd) /\ (q < r \/ r < q)
    BY <1>2
  <2> QED BY <1>1, <2>1, RoundsAreDisjoint
<1> QED BY <1>1, <1>2 DEF OfOneRound

-----------------------------------------------------------------------------

\* The initial state satisfies the invariant.
LEMMA InitEstablishes == Init => IInv
<1> SUFFICES ASSUME Init PROVE IInv
  OBVIOUS
<1> USE DEF Init, FromVerifier, FromProver
<1>0. is_holographic \in BOOLEAN
  BY Zenon
<1>1. TypeOK
  BY <1>0 DEF TypeOK
<1>2. RoundsAreConsecutive
  BY DEF RoundsAreConsecutive, Boundaries
<1>3. SealedState /\ DrawnWithinBound
  BY DEF SealedState, DrawnWithinBound
<1>6. HolographicStartsWithProver
  BY Zenon DEF HolographicStartsWithProver
<1>4. SubmissionsFollowRounds
  BY DEF SubmissionsFollowRounds
<1>7. EntriesCovered
  BY DEF EntriesCovered
<1>5. QED
  BY <1>1, <1>2, <1>3, <1>4, <1>6, <1>7 DEF IInv

\* A change of direction keeps the rounds well formed while the protocol is
\* being described, and does nothing in the direction it already has.
LEMMA TurnKeepsRounds ==
  ASSUME IInv, NEW new \in {FromVerifier, FromProver},
         UpdateRoundsAndDirection(new),
         registration_state = "interactive" \/ message_direction = new
  PROVE  /\ message_direction' = new
         /\ num_interaction_rounds' \in Nat
         /\ num_interaction_rounds' >= num_interaction_rounds
         /\ oracles_at_end' \in Seq(Nat)
         /\ prover_messages_at_end' \in Seq(Nat)
         /\ random_messages_at_end' \in Seq(Nat)
         /\ Boundaries(oracles_at_end', Len(oracle_registrations))
         /\ Boundaries(prover_messages_at_end', Len(prover_message_registrations))
         /\ Boundaries(random_messages_at_end', num_random_messages)
         /\ Len(oracles_at_end') = num_interaction_rounds'
         /\ Len(prover_messages_at_end') = num_interaction_rounds'
         /\ Len(random_messages_at_end') =
              IF registration_state = "interactive" /\ new = FromProver
              THEN num_interaction_rounds' + 1 ELSE num_interaction_rounds'
         /\ new = FromProver =>
              /\ random_messages_at_end' # << >>
              /\ random_messages_at_end'[Len(random_messages_at_end')] = num_random_messages
<1> USE DEF FromVerifier, FromProver
<1>1. TypeOK /\ RoundsAreConsecutive /\ EntriesCovered
  BY DEF IInv
<1>2. /\ Len(oracle_registrations) \in Nat
      /\ Len(prover_message_registrations) \in Nat
      /\ num_random_messages \in Nat
      /\ oracles_at_end \in Seq(Nat)
      /\ prover_messages_at_end \in Seq(Nat)
      /\ random_messages_at_end \in Seq(Nat)
      /\ num_interaction_rounds \in Nat
  BY <1>1 DEF TypeOK
<1>3. CASE message_direction = new /\ UNCHANGED roundVars
  BY <1>1, <1>2, <1>3 DEF roundVars, RoundsAreConsecutive, EntriesCovered
<1>4. CASE /\ message_direction = FromProver
           /\ new = FromVerifier
           /\ EndProverTurn
           /\ message_direction' = new
           /\ UNCHANGED random_messages_at_end
  BY <1>1, <1>2, <1>4, BoundariesAppend DEF RoundsAreConsecutive, EndProverTurn
<1>5. CASE /\ message_direction = FromVerifier
           /\ new = FromProver
           /\ random_messages_at_end' = Append(random_messages_at_end, num_random_messages)
           /\ message_direction' = new
           /\ UNCHANGED <<oracles_at_end, prover_messages_at_end, num_interaction_rounds>>
  BY <1>1, <1>2, <1>5, BoundariesAppend DEF RoundsAreConsecutive
<1>6. QED
  BY <1>3, <1>4, <1>5 DEF UpdateRoundsAndDirection

\* A registration leaves what is exchanged as it was: before the protocol is
\* sealed nothing is exchanged, afterwards the rounds stay as they are.
LEMMA RegistrationKeepsRun ==
  ASSUME IInv, UNCHANGED <<registration_state, runVars>>,
         num_interaction_rounds' \in Nat,
         \/ registration_state = "interactive"
         \/ UNCHANGED roundVars
  PROVE  SealedState' /\ SubmissionsFollowRounds' /\ DrawnWithinBound'
<1> USE DEF FromVerifier, FromProver
<1>1. TypeOK /\ SealedState /\ SubmissionsFollowRounds /\ DrawnWithinBound
  BY DEF IInv
<1>2. CASE registration_state = "interactive"
  <2>1. /\ oracles_present' = {} /\ prover_messages_present' = {}
        /\ num_prover_rounds_done' = 0 /\ verifier_random_messages' = {}
        /\ registration_state' = "interactive"
    BY <1>1, <1>2 DEF SealedState, runVars
  <2>2. SealedState' /\ DrawnWithinBound'
    BY <2>1 DEF SealedState, DrawnWithinBound
  <2>3. SubmissionsFollowRounds'
    BY <2>1 DEF SubmissionsFollowRounds
  <2>4. QED
    BY <2>2, <2>3
<1>3. CASE UNCHANGED roundVars
  BY <1>1, <1>3 DEF SealedState, SubmissionsFollowRounds, DrawnWithinBound,
       roundVars, runVars, RoundEntries, BeginOf, EndOf, MayDrawUpTo
<1>4. QED
  BY <1>2, <1>3

\* While a protocol is described, only the random messages have to be covered.
LEMMA DescribingKeepsCover ==
  ASSUME registration_state' = "interactive",
         message_direction' = FromProver =>
           /\ random_messages_at_end' # << >>
           /\ random_messages_at_end'[Len(random_messages_at_end')] = num_random_messages'
  PROVE  EntriesCovered'
BY DEF EntriesCovered

\* What covers the entries is none of the prover's business.
LEMMA RunningKeepsCover ==
  ASSUME EntriesCovered, UNCHANGED <<roundVars, registrationVars, registration_state>>
  PROVE  EntriesCovered'
BY DEF EntriesCovered, roundVars, registrationVars, Oracles

\* register_domain keeps the invariant.
LEMMA RegisterDomainStep ==
  ASSUME IInv, NEW size \in DomainSizes, RegisterDomain(size)
  PROVE  IInv'
<1>1. TypeOK'
  BY DEF IInv, TypeOK, RegisterDomain, roundVars, runVars
<1>2. RoundsAreConsecutive'
  BY DEF IInv, RoundsAreConsecutive, Boundaries, RegisterDomain, roundVars
<1>3. SealedState' /\ SubmissionsFollowRounds' /\ DrawnWithinBound'
  BY RegistrationKeepsRun DEF IInv, TypeOK, RegisterDomain, roundVars
<1>4. HolographicStartsWithProver'
  BY DEF IInv, HolographicStartsWithProver, RegisterDomain, roundVars
<1>5. EntriesCovered'
  BY DescribingKeepsCover DEF IInv, EntriesCovered, RegisterDomain, roundVars
<1>6. QED
  BY <1>1, <1>2, <1>3, <1>4, <1>5 DEF IInv

\* register_oracle keeps it: it is only let through while registering.
LEMMA RegisterOracleStep ==
  ASSUME IInv, NEW d \in DOMAIN domains, NEW degree \in Degrees,
         RegisterOracle(d, degree)
  PROVE  IInv'
<1> USE DEF RegisterOracle, OracleCanBeRegistered, AddOracle
<1>1. Len(oracle_registrations') = Len(oracle_registrations) + 1
      /\ oracle_registrations' \in Seq([domain : Nat, indexed : BOOLEAN])
  <2>1. d \in Nat /\ FALSE \in BOOLEAN
    BY DEF IInv, TypeOK
  <2>2. [domain |-> d, indexed |-> FALSE] \in [domain : Nat, indexed : BOOLEAN]
    BY <2>1, Zenon
  <2>3. QED
    BY <2>2 DEF IInv, TypeOK
<1>2. UpdateRoundsAndDirection(FromProver) /\ FromProver \in {FromVerifier, FromProver}
  OBVIOUS
<1>3. TypeOK'
  BY <1>1, <1>2, TurnKeepsRounds DEF IInv, TypeOK, runVars
<1>4. RoundsAreConsecutive'
  <2>1. Boundaries(oracles_at_end', Len(oracle_registrations'))
    BY <1>1, <1>2, TurnKeepsRounds, BoundariesGrow, SMTT(25) DEF IInv, TypeOK
  <2>2. QED
    BY <2>1, <1>2, TurnKeepsRounds DEF RoundsAreConsecutive, Boundaries
<1>5. SealedState' /\ SubmissionsFollowRounds' /\ DrawnWithinBound'
  BY <1>2, TurnKeepsRounds, RegistrationKeepsRun
<1>6. HolographicStartsWithProver'
  BY <1>2, TurnKeepsRounds DEF HolographicStartsWithProver
<1>7. EntriesCovered'
  BY <1>2, TurnKeepsRounds, DescribingKeepsCover
<1>8. QED
  BY <1>3, <1>4, <1>5, <1>6, <1>7 DEF IInv

\* An index oracle may still be registered after sealing; it then moves no
\* boundary, because a sealed protocol ended on the prover's turn.
LEMMA RegisterIndexOracleStep ==
  ASSUME IInv, NEW d \in DOMAIN domains, RegisterIndexOracle(d)
  PROVE  IInv'
<1> USE DEF RegisterIndexOracle, AddOracle
<1>1. Len(oracle_registrations') = Len(oracle_registrations) + 1
      /\ oracle_registrations' \in Seq([domain : Nat, indexed : BOOLEAN])
  <2>1. d \in Nat /\ TRUE \in BOOLEAN
    BY DEF IInv, TypeOK
  <2>2. [domain |-> d, indexed |-> TRUE] \in [domain : Nat, indexed : BOOLEAN]
    BY <2>1, Zenon
  <2>3. QED
    BY <2>2 DEF IInv, TypeOK
<1>2. UpdateRoundsAndDirection(FromProver) /\ FromProver \in {FromVerifier, FromProver}
  OBVIOUS
<1>3. \/ registration_state = "interactive"
      \/ message_direction = FromProver /\ UNCHANGED roundVars
  BY DEF IInv, SealedState, UpdateRoundsAndDirection, FromProver, FromVerifier, roundVars
<1>4. is_holographic' \in BOOLEAN
  BY Zenon
<1>5. TypeOK'
  BY <1>1, <1>2, <1>3, <1>4, TurnKeepsRounds DEF IInv, TypeOK, runVars
<1>6. RoundsAreConsecutive'
  <2>1. Boundaries(oracles_at_end', Len(oracle_registrations'))
    BY <1>1, <1>2, <1>3, TurnKeepsRounds, BoundariesGrow DEF IInv, TypeOK
  <2>2. QED
    BY <2>1, <1>2, <1>3, TurnKeepsRounds DEF RoundsAreConsecutive, Boundaries
<1>7. SealedState' /\ SubmissionsFollowRounds' /\ DrawnWithinBound'
  BY <1>2, <1>3, TurnKeepsRounds, RegistrationKeepsRun
<1>8. HolographicStartsWithProver'
  BY <1>2, <1>3, TurnKeepsRounds DEF HolographicStartsWithProver
<1>9. EntriesCovered'
  <2>1. CASE registration_state = "interactive"
    BY <1>2, <2>1, TurnKeepsRounds, DescribingKeepsCover
  <2>2. CASE registration_state # "interactive"
    <3>1. EntriesCovered /\ oracle_registrations \in Seq([domain : Nat, indexed : BOOLEAN])
      BY DEF IInv, TypeOK
    <3>2. /\ UNCHANGED <<roundVars, num_random_messages, prover_message_registrations,
                         registration_state>>
          /\ message_direction' = FromProver
      BY <1>2, <1>3, <2>2, TurnKeepsRounds
    <3>3. ASSUME NEW o \in Oracles'
          PROVE  \/ o <= oracles_at_end[num_interaction_rounds]
                 \/ oracle_registrations'[o].indexed
      <4>1. CASE o \in Oracles
        BY <2>2, <3>1, <4>1 DEF EntriesCovered, Oracles
      <4>2. CASE o = Len(oracle_registrations) + 1
        BY <3>1, <4>2
      <4> QED BY <1>1, <3>1, <4>1, <4>2 DEF Oracles
    <3> QED BY <2>2, <3>1, <3>2, <3>3 DEF EntriesCovered, roundVars
  <2> QED BY <2>1, <2>2
<1>10. QED
  BY <1>5, <1>6, <1>7, <1>8, <1>9 DEF IInv

\* register_prover_message keeps it.
LEMMA RegisterProverMessageStep ==
  ASSUME IInv, NEW size \in MessageSizes, RegisterProverMessage(size)
  PROVE  IInv'
<1> USE DEF RegisterProverMessage
<1>1. Len(prover_message_registrations') = Len(prover_message_registrations) + 1
      /\ prover_message_registrations' \in Seq(MessageSizes)
  BY DEF IInv, TypeOK
<1>2. UpdateRoundsAndDirection(FromProver) /\ FromProver \in {FromVerifier, FromProver}
  OBVIOUS
<1>3. TypeOK'
  BY <1>1, <1>2, TurnKeepsRounds DEF IInv, TypeOK, runVars
<1>4. RoundsAreConsecutive'
  <2>1. Boundaries(prover_messages_at_end', Len(prover_message_registrations'))
    BY <1>1, <1>2, TurnKeepsRounds, BoundariesGrow, SMTT(25) DEF IInv, TypeOK
  <2>2. QED
    BY <2>1, <1>2, TurnKeepsRounds DEF RoundsAreConsecutive, Boundaries
<1>5. SealedState' /\ SubmissionsFollowRounds' /\ DrawnWithinBound'
  BY <1>2, TurnKeepsRounds, RegistrationKeepsRun
<1>6. HolographicStartsWithProver'
  BY <1>2, TurnKeepsRounds DEF HolographicStartsWithProver
<1>7. EntriesCovered'
  BY <1>2, TurnKeepsRounds, DescribingKeepsCover
<1>8. QED
  BY <1>3, <1>4, <1>5, <1>6, <1>7 DEF IInv

\* The first random message of a holographic protocol ends round 0, so the
\* direction is the verifier's only in a protocol that has a round.
LEMMA VerifierTurnEndsIndexRound ==
  ASSUME IInv, UpdateRoundsAndDirection(FromVerifier), UNCHANGED is_holographic
  PROVE  HolographicStartsWithProver'
<1>1. num_interaction_rounds \in Nat /\ HolographicStartsWithProver
  BY DEF IInv, TypeOK
<1>2. CASE message_direction = FromVerifier /\ UNCHANGED roundVars
  BY <1>1, <1>2 DEF HolographicStartsWithProver, roundVars
<1>3. CASE num_interaction_rounds' = num_interaction_rounds + 1
  BY <1>1, <1>3 DEF HolographicStartsWithProver
<1>4. QED
  BY <1>2, <1>3 DEF UpdateRoundsAndDirection, EndProverTurn, FromVerifier, FromProver

\* register_verifier_random_message keeps it.
LEMMA RegisterVerifierRandomMessageStep ==
  ASSUME IInv, RegisterVerifierRandomMessage
  PROVE  IInv'
<1> USE DEF RegisterVerifierRandomMessage
<1>1. num_random_messages \in Nat /\ num_random_messages' = num_random_messages + 1
  BY DEF IInv, TypeOK
<1>2. UpdateRoundsAndDirection(FromVerifier) /\ FromVerifier \in {FromVerifier, FromProver}
  OBVIOUS
<1>3. TypeOK'
  BY <1>1, <1>2, TurnKeepsRounds DEF IInv, TypeOK, runVars
<1>4. RoundsAreConsecutive'
  <2>1. Boundaries(random_messages_at_end', num_random_messages')
    BY <1>1, <1>2, TurnKeepsRounds, BoundariesGrow DEF IInv, TypeOK
  <2>2. FromVerifier # FromProver
    BY DEF FromVerifier, FromProver
  <2>3. QED
    BY <2>1, <2>2, <1>2, TurnKeepsRounds DEF RoundsAreConsecutive, Boundaries
<1>5. SealedState' /\ SubmissionsFollowRounds' /\ DrawnWithinBound'
  BY <1>2, TurnKeepsRounds, RegistrationKeepsRun
<1>6. HolographicStartsWithProver'
  BY <1>2, VerifierTurnEndsIndexRound
<1>7. EntriesCovered'
  BY <1>2, TurnKeepsRounds, DescribingKeepsCover DEF FromVerifier, FromProver
<1>8. QED
  BY <1>3, <1>4, <1>5, <1>6, <1>7 DEF IInv

\* No registration state is checked, but a sealed protocol has a round.
LEMMA SignalIndexRegistrationsDoneStep ==
  ASSUME IInv, SignalIndexRegistrationsDone
  PROVE  IInv' /\ registration_state = "interactive"
<1> USE DEF SignalIndexRegistrationsDone, IndexRoundIsOpen
<1>1. registration_state = "interactive"
  BY DEF IInv, SealedState, TypeOK
<1>2. UpdateRoundsAndDirection(FromVerifier) /\ FromVerifier \in {FromVerifier, FromProver}
  OBVIOUS
<1>3. TypeOK'
  BY <1>1, <1>2, TurnKeepsRounds DEF IInv, TypeOK, runVars, registrationVars
<1>4. RoundsAreConsecutive'
  <2>1. FromVerifier # FromProver
    BY DEF FromVerifier, FromProver
  <2>2. QED
    BY <2>1, <1>1, <1>2, TurnKeepsRounds DEF RoundsAreConsecutive, Boundaries, registrationVars
<1>5. SealedState' /\ SubmissionsFollowRounds' /\ DrawnWithinBound'
  BY <1>1, <1>2, TurnKeepsRounds, RegistrationKeepsRun
<1>6. HolographicStartsWithProver'
  BY <1>2, VerifierTurnEndsIndexRound DEF registrationVars
<1>7. EntriesCovered'
  BY <1>1, <1>2, TurnKeepsRounds, DescribingKeepsCover DEF FromVerifier, FromProver
<1>8. QED
  BY <1>1, <1>3, <1>4, <1>5, <1>6, <1>7 DEF IInv

\* seal_interaction_registrations keeps it: it closes the last round.
LEMMA SealInteractionRegistrationsStep ==
  ASSUME IInv, SealInteractionRegistrations
  PROVE  IInv'
<1> USE DEF SealInteractionRegistrations, CanSeal, EndProverTurn, registrationVars, runVars
<1>1. message_direction = FromProver /\ message_direction' = FromProver
  BY DEF IInv, TypeOK
<1>2. /\ oracles_at_end' \in Seq(Nat)
      /\ Len(oracles_at_end') = Len(oracles_at_end) + 1
      /\ Boundaries(oracles_at_end', Len(oracle_registrations))
      /\ prover_messages_at_end' \in Seq(Nat)
      /\ Len(prover_messages_at_end') = Len(prover_messages_at_end) + 1
      /\ Boundaries(prover_messages_at_end', Len(prover_message_registrations))
  BY BoundariesAppend DEF IInv, TypeOK, RoundsAreConsecutive
<1>3. TypeOK'
  BY <1>2 DEF IInv, TypeOK
<1>4. RoundsAreConsecutive'
  BY <1>1, <1>2 DEF IInv, RoundsAreConsecutive, Boundaries
<1>5. /\ oracles_present' = {} /\ prover_messages_present' = {}
      /\ num_prover_rounds_done' = 0 /\ verifier_random_messages' = {}
      /\ registration_state' = "query"
      /\ num_interaction_rounds' \in Nat \ {0}
  BY DEF IInv, TypeOK, SealedState
<1>6. SealedState' /\ DrawnWithinBound'
  BY <1>1, <1>5 DEF SealedState, DrawnWithinBound
<1>7. SubmissionsFollowRounds'
  BY <1>5 DEF SubmissionsFollowRounds
<1>8. HolographicStartsWithProver'
  BY <1>1 DEF HolographicStartsWithProver
<1>9. EntriesCovered'
  <2>1. /\ oracles_at_end \in Seq(Nat) /\ prover_messages_at_end \in Seq(Nat)
        /\ Len(oracle_registrations) \in Nat /\ Len(prover_message_registrations) \in Nat
        /\ Len(oracles_at_end) = num_interaction_rounds
        /\ Len(prover_messages_at_end) = num_interaction_rounds
        /\ num_interaction_rounds' = num_interaction_rounds + 1
    BY DEF IInv, TypeOK, RoundsAreConsecutive
  <2>2. /\ prover_messages_at_end'[num_interaction_rounds'] = Len(prover_message_registrations)
        /\ oracles_at_end'[num_interaction_rounds'] = Len(oracle_registrations)
    BY <2>1
  <2>3. \A o \in Oracles' : o <= oracles_at_end'[num_interaction_rounds']
    BY <2>1, <2>2 DEF Oracles
  <2>4. /\ random_messages_at_end # << >>
        /\ random_messages_at_end[Len(random_messages_at_end)] = num_random_messages
    BY <1>1 DEF IInv, EntriesCovered
  <2> QED BY <2>2, <2>3, <2>4 DEF EntriesCovered
<1>10. QED
  BY <1>3, <1>4, <1>6, <1>7, <1>8, <1>9 DEF IInv

\* seal_query_registrations keeps it.
LEMMA SealQueryRegistrationsStep ==
  ASSUME IInv, SealQueryRegistrations
  PROVE  IInv'
<1> USE DEF SealQueryRegistrations, registrationVars, runVars, roundVars
<1>1. TypeOK'
  BY DEF IInv, TypeOK
<1>2. RoundsAreConsecutive'
  BY DEF IInv, RoundsAreConsecutive, Boundaries
<1>3. /\ oracles_present' = {} /\ prover_messages_present' = {}
      /\ num_prover_rounds_done' = 0 /\ verifier_random_messages' = {}
  BY DEF IInv, SealedState
<1>4. SealedState' /\ DrawnWithinBound'
  BY <1>3 DEF IInv, SealedState, DrawnWithinBound, TypeOK
<1>5. SubmissionsFollowRounds'
  BY <1>3 DEF SubmissionsFollowRounds
<1>6. HolographicStartsWithProver'
  BY DEF IInv, HolographicStartsWithProver
<1>7. EntriesCovered'
  BY DEF IInv, EntriesCovered, Oracles, TypeOK
<1>8. QED
  BY <1>1, <1>2, <1>4, <1>5, <1>6, <1>7 DEF IInv

-----------------------------------------------------------------------------
(***************************************************************************)
(* The steps of a running protocol.                                        *)
(***************************************************************************)

\* Adding entries of the round being run disturbs no other round.
LEMMA SubmittingInRound ==
  ASSUME IInv, registration_state = "done",
         num_prover_rounds_done < num_interaction_rounds,
         NEW os \in SUBSET RoundEntries(num_prover_rounds_done, oracles_at_end),
         NEW ms \in SUBSET RoundEntries(num_prover_rounds_done, prover_messages_at_end),
         oracles_present' = oracles_present \union os,
         prover_messages_present' = prover_messages_present \union ms,
         UNCHANGED <<roundVars, registrationVars, registration_state,
                     num_prover_rounds_done, verifier_random_messages>>
  PROVE  IInv'
<1> USE DEF roundVars, registrationVars
<1>1. TypeOK /\ RoundsAreConsecutive /\ SubmissionsFollowRounds
  BY DEF IInv
<1>2. num_prover_rounds_done \in Nat /\ num_interaction_rounds \in Nat
  BY <1>1 DEF TypeOK
<1>3. os \subseteq Nat /\ ms \subseteq Nat
  <2>1. /\ oracles_at_end \in Seq(Nat) /\ prover_messages_at_end \in Seq(Nat)
        /\ num_prover_rounds_done + 1 \in DOMAIN oracles_at_end
        /\ num_prover_rounds_done + 1 \in DOMAIN prover_messages_at_end
        /\ num_prover_rounds_done # 0 =>
             /\ num_prover_rounds_done \in DOMAIN oracles_at_end
             /\ num_prover_rounds_done \in DOMAIN prover_messages_at_end
    BY <1>1, <1>2 DEF RoundsAreConsecutive, TypeOK
  <2>2. /\ oracles_at_end[num_prover_rounds_done + 1] \in Nat
        /\ prover_messages_at_end[num_prover_rounds_done + 1] \in Nat
        /\ num_prover_rounds_done # 0 =>
             /\ oracles_at_end[num_prover_rounds_done] \in Nat
             /\ prover_messages_at_end[num_prover_rounds_done] \in Nat
    BY <2>1, SMTT(25)
  <2>3. QED
    BY <2>2 DEF RoundEntries, BeginOf, EndOf
<1>4. TypeOK'
  BY <1>1, <1>3 DEF TypeOK
<1>5. RoundsAreConsecutive'
  BY <1>1 DEF RoundsAreConsecutive, Boundaries
<1>6. SealedState' /\ DrawnWithinBound' /\ HolographicStartsWithProver'
  BY DEF IInv, SealedState, DrawnWithinBound, HolographicStartsWithProver,
         MayDrawUpTo, EndOf
<1>7. SubmissionsFollowRounds'
  <2> SUFFICES ASSUME NEW r \in 0..(num_interaction_rounds - 1)
               PROVE  /\ r < num_prover_rounds_done =>
                           /\ RoundEntries(r, oracles_at_end) \subseteq oracles_present'
                           /\ RoundEntries(r, prover_messages_at_end)
                                \subseteq prover_messages_present'
                      /\ r > num_prover_rounds_done =>
                           /\ RoundEntries(r, oracles_at_end) \cap oracles_present' = {}
                           /\ RoundEntries(r, prover_messages_at_end)
                                \cap prover_messages_present' = {}
    BY DEF SubmissionsFollowRounds, RoundEntries, BeginOf, EndOf
  <2>1. /\ r < num_prover_rounds_done =>
             /\ RoundEntries(r, oracles_at_end) \subseteq oracles_present
             /\ RoundEntries(r, prover_messages_at_end) \subseteq prover_messages_present
        /\ r > num_prover_rounds_done =>
             /\ RoundEntries(r, oracles_at_end) \cap oracles_present = {}
             /\ RoundEntries(r, prover_messages_at_end) \cap prover_messages_present = {}
    BY <1>1 DEF SubmissionsFollowRounds
  <2>2. ASSUME r > num_prover_rounds_done
        PROVE  /\ RoundEntries(r, oracles_at_end) \cap os = {}
               /\ RoundEntries(r, prover_messages_at_end) \cap ms = {}
    <3>1. r \in Nat /\ r < Len(oracles_at_end) /\ r < Len(prover_messages_at_end)
      BY <1>1, <1>2 DEF RoundsAreConsecutive
    <3>2. /\ oracles_at_end \in Seq(Nat) /\ prover_messages_at_end \in Seq(Nat)
          /\ Len(oracle_registrations) \in Nat /\ Len(prover_message_registrations) \in Nat
          /\ Boundaries(oracles_at_end, Len(oracle_registrations))
          /\ Boundaries(prover_messages_at_end, Len(prover_message_registrations))
      BY <1>1 DEF TypeOK, RoundsAreConsecutive
    <3>3. \A e \in os : e \notin RoundEntries(r, oracles_at_end)
      BY <1>2, <2>2, <3>1, <3>2, RoundsAreDisjoint
    <3>4. \A e \in ms : e \notin RoundEntries(r, prover_messages_at_end)
      BY <1>2, <2>2, <3>1, <3>2, RoundsAreDisjoint
    <3>5. QED
      BY <3>3, <3>4
  <2>3. QED
    BY <2>1, <2>2
<1>8. EntriesCovered'
  BY RunningKeepsCover DEF IInv
<1>9. QED
  BY <1>4, <1>5, <1>6, <1>7, <1>8 DEF IInv

\* Nothing that is submitted after the last round disturbs a round.
LEMMA SubmittingAfterTheLastRound ==
  ASSUME IInv, registration_state = "done",
         num_prover_rounds_done = num_interaction_rounds,
         NEW os \in SUBSET Nat, NEW ms \in SUBSET Nat,
         oracles_present' = oracles_present \union os,
         prover_messages_present' = prover_messages_present \union ms,
         UNCHANGED <<roundVars, registrationVars, registration_state,
                     num_prover_rounds_done, verifier_random_messages>>
  PROVE  IInv'
<1> USE DEF roundVars, registrationVars
<1>1. TypeOK'
  BY DEF IInv, TypeOK
<1>2. RoundsAreConsecutive'
  BY DEF IInv, RoundsAreConsecutive, Boundaries
<1>3. SealedState' /\ DrawnWithinBound' /\ HolographicStartsWithProver'
  BY DEF IInv, SealedState, DrawnWithinBound, HolographicStartsWithProver,
         MayDrawUpTo, EndOf
<1>4. SubmissionsFollowRounds'
  <2>1. num_interaction_rounds \in Nat /\ SubmissionsFollowRounds
    BY DEF IInv, TypeOK
  <2> SUFFICES ASSUME NEW r \in 0..(num_interaction_rounds - 1)
               PROVE  /\ RoundEntries(r, oracles_at_end) \subseteq oracles_present'
                      /\ RoundEntries(r, prover_messages_at_end)
                           \subseteq prover_messages_present'
                      /\ r < num_prover_rounds_done
    BY <2>1 DEF SubmissionsFollowRounds, RoundEntries, BeginOf, EndOf
  <2>2. r < num_prover_rounds_done
    BY <2>1
  <2>3. QED
    BY <2>1, <2>2 DEF SubmissionsFollowRounds
<1>5. EntriesCovered'
  BY RunningKeepsCover DEF IInv
<1>6. QED
  BY <1>1, <1>2, <1>3, <1>4, <1>5 DEF IInv

\* An entry that is let through while a round is being run is of that round.
LEMMA EntryOfTheRound ==
  ASSUME NEW e \in Nat, NEW atEnd, InRoundBeingRun(e, atEnd),
         num_prover_rounds_done < num_interaction_rounds,
         BeginOf(num_prover_rounds_done, atEnd) \in Nat,
         EndOf(num_prover_rounds_done, atEnd) \in Nat
  PROVE  e \in RoundEntries(num_prover_rounds_done, atEnd)
BY DEF InRoundBeingRun, RoundEntries

\* The boundaries of the round being run are numbers.
LEMMA RoundBeingRun ==
  ASSUME IInv, num_prover_rounds_done < num_interaction_rounds,
         NEW atEnd \in Seq(Nat), Len(atEnd) = num_interaction_rounds
  PROVE  /\ BeginOf(num_prover_rounds_done, atEnd) \in Nat
         /\ EndOf(num_prover_rounds_done, atEnd) \in Nat
<1>1. num_prover_rounds_done \in Nat /\ num_interaction_rounds \in Nat
  BY DEF IInv, TypeOK
<1>2. /\ num_prover_rounds_done + 1 \in DOMAIN atEnd
      /\ num_prover_rounds_done # 0 => num_prover_rounds_done \in DOMAIN atEnd
  BY <1>1
<1>3. /\ atEnd[num_prover_rounds_done + 1] \in Nat
      /\ num_prover_rounds_done # 0 => atEnd[num_prover_rounds_done] \in Nat
  BY <1>2
<1>4. QED
  BY <1>3 DEF BeginOf, EndOf

\* submit_oracle keeps the invariant, in a round and after the last one.
LEMMA SubmitOracleStep ==
  ASSUME IInv, NEW o \in Oracles, NEW size \in DomainSizes, SubmitOracle(o, size)
  PROVE  IInv'
<1> USE DEF SubmitOracle
<1>1. /\ o \in Nat
      /\ num_prover_rounds_done \in Nat /\ num_interaction_rounds \in Nat
      /\ num_prover_rounds_done <= num_interaction_rounds
      /\ oracles_at_end \in Seq(Nat) /\ Len(oracles_at_end) = num_interaction_rounds
  BY DEF IInv, TypeOK, SealedState, RoundsAreConsecutive, Oracles
<1>2. prover_messages_present' = prover_messages_present \union {}
  OBVIOUS
<1>3. CASE num_prover_rounds_done < num_interaction_rounds
  <2>1. {o} \in SUBSET RoundEntries(num_prover_rounds_done, oracles_at_end)
    BY <1>1, <1>3, RoundBeingRun, EntryOfTheRound
  <2>2. {} \in SUBSET RoundEntries(num_prover_rounds_done, prover_messages_at_end)
    OBVIOUS
  <2>3. QED
    BY <1>2, <1>3, <2>1, <2>2, SubmittingInRound
<1>4. CASE num_prover_rounds_done = num_interaction_rounds
  <2>1. {o} \in SUBSET Nat /\ {} \in SUBSET Nat
    BY <1>1
  <2>2. QED
    BY <1>2, <1>4, <2>1, SubmittingAfterTheLastRound
<1>5. QED
  BY <1>1, <1>3, <1>4

\* submit_prover_message keeps the invariant, likewise.
LEMMA SubmitProverMessageStep ==
  ASSUME IInv, NEW m \in ProverMessages, NEW size \in MessageSizes,
         SubmitProverMessage(m, size)
  PROVE  IInv'
<1> USE DEF SubmitProverMessage
<1>1. /\ m \in Nat
      /\ num_prover_rounds_done \in Nat /\ num_interaction_rounds \in Nat
      /\ num_prover_rounds_done <= num_interaction_rounds
      /\ prover_messages_at_end \in Seq(Nat)
      /\ Len(prover_messages_at_end) = num_interaction_rounds
  BY DEF IInv, TypeOK, SealedState, RoundsAreConsecutive, ProverMessages
<1>2. oracles_present' = oracles_present \union {}
  OBVIOUS
<1>3. CASE num_prover_rounds_done < num_interaction_rounds
  <2>1. {m} \in SUBSET RoundEntries(num_prover_rounds_done, prover_messages_at_end)
    BY <1>1, <1>3, RoundBeingRun, EntryOfTheRound
  <2>2. {} \in SUBSET RoundEntries(num_prover_rounds_done, oracles_at_end)
    OBVIOUS
  <2>3. QED
    BY <1>2, <1>3, <2>1, <2>2, SubmittingInRound
<1>4. CASE num_prover_rounds_done = num_interaction_rounds
  <2>1. {m} \in SUBSET Nat /\ {} \in SUBSET Nat
    BY <1>1
  <2>2. QED
    BY <1>2, <1>4, <2>1, SubmittingAfterTheLastRound
<1>5. QED
  BY <1>1, <1>3, <1>4

\* What a refused index leaves behind is part of round 0.
LEMMA SubmitProverIndexRefusedStep ==
  ASSUME IInv, NEW stop \in Oracles, SubmitProverIndexRefused(stop)
  PROVE  IInv'
<1> USE DEF SubmitProverIndexRefused
<1>1. num_prover_rounds_done = 0 /\ 0 < num_interaction_rounds
  BY DEF IInv, SealedState, TypeOK
<1>2. oracles_at_end[1] \in Nat
  <2>1. 1 \in DOMAIN oracles_at_end
    BY <1>1 DEF IInv, TypeOK, RoundsAreConsecutive
  <2>2. QED
    BY <2>1 DEF IInv, TypeOK
<1>3. 1..(stop - 1) \in SUBSET RoundEntries(num_prover_rounds_done, oracles_at_end)
  BY <1>1, <1>2 DEF RoundEntries, BeginOf, EndOf
<1>4. {} \in SUBSET RoundEntries(num_prover_rounds_done, prover_messages_at_end)
  OBVIOUS
<1>5. QED
  BY <1>1, <1>3, <1>4, SubmittingInRound

\* So is what an index leaves behind that is refused at a message.
LEMMA SubmitProverIndexRefusedAtMessageStep ==
  ASSUME IInv, NEW stop \in ProverMessages, SubmitProverIndexRefusedAtMessage(stop)
  PROVE  IInv'
<1> USE DEF SubmitProverIndexRefusedAtMessage
<1>1. num_prover_rounds_done = 0 /\ 0 < num_interaction_rounds
  BY DEF IInv, SealedState, TypeOK
<1>2. prover_messages_at_end[1] \in Nat
  <2>1. 1 \in DOMAIN prover_messages_at_end
    BY <1>1 DEF IInv, TypeOK, RoundsAreConsecutive
  <2>2. QED
    BY <2>1 DEF IInv, TypeOK
<1>3. 1..(stop - 1) \in SUBSET RoundEntries(num_prover_rounds_done, prover_messages_at_end)
  BY <1>1, <1>2 DEF RoundEntries, BeginOf, EndOf
<1>4. RoundEntries(0, oracles_at_end)
        \in SUBSET RoundEntries(num_prover_rounds_done, oracles_at_end)
  BY <1>1
<1>5. QED
  BY <1>1, <1>3, <1>4, SubmittingInRound

\* Finishing a round never withdraws a message that may be drawn.
LEMMA MayDrawGrows ==
  ASSUME IInv, registration_state = "done",
         num_prover_rounds_done < num_interaction_rounds,
         num_prover_rounds_done' = num_prover_rounds_done + 1,
         UNCHANGED roundVars
  PROVE  MayDrawUpTo \in Nat /\ MayDrawUpTo' \in Nat /\ MayDrawUpTo <= MayDrawUpTo'
<1> DEFINE n == num_prover_rounds_done
           k == IF n + 1 < num_interaction_rounds THEN n + 1 ELSE n
<1>1. /\ n \in Nat /\ num_interaction_rounds \in Nat
      /\ random_messages_at_end \in Seq(Nat)
      /\ Len(random_messages_at_end) = num_interaction_rounds
      /\ Boundaries(random_messages_at_end, num_random_messages)
  BY DEF IInv, TypeOK, RoundsAreConsecutive
<1>2. /\ n + 1 \in DOMAIN random_messages_at_end
      /\ k + 1 \in DOMAIN random_messages_at_end
      /\ n + 1 <= k + 1
  BY <1>1
<1>3. /\ random_messages_at_end[n + 1] \in Nat
      /\ random_messages_at_end[k + 1] \in Nat
      /\ random_messages_at_end[n + 1] <= random_messages_at_end[k + 1]
  BY <1>1, <1>2, SMTT(25) DEF Boundaries
<1>4. MayDrawUpTo = random_messages_at_end[n + 1] + 1
  BY <1>1 DEF MayDrawUpTo, EndOf
<1>5. MayDrawUpTo' = random_messages_at_end[k + 1] + 1
  BY <1>1 DEF MayDrawUpTo, EndOf, roundVars
<1>6. QED
  BY <1>3, <1>4, <1>5

\* signal_prover_round_done keeps it: the round it leaves is complete.
LEMMA SignalProverRoundDoneStep ==
  ASSUME IInv, SignalProverRoundDone
  PROVE  IInv'
<1> USE DEF SignalProverRoundDone, registrationVars
<1>1. /\ num_prover_rounds_done \in Nat /\ num_interaction_rounds \in Nat
      /\ num_prover_rounds_done' = num_prover_rounds_done + 1
      /\ TypeOK /\ RoundsAreConsecutive /\ SubmissionsFollowRounds
  BY DEF IInv, TypeOK
<1>2. TypeOK'
  BY <1>1 DEF TypeOK, roundVars
<1>3. RoundsAreConsecutive'
  BY <1>1 DEF RoundsAreConsecutive, Boundaries, roundVars
<1>4. SealedState' /\ HolographicStartsWithProver'
  BY <1>1 DEF IInv, SealedState, HolographicStartsWithProver, roundVars
<1>5. DrawnWithinBound'
  <2>1. MayDrawUpTo \in Nat /\ MayDrawUpTo' \in Nat /\ MayDrawUpTo <= MayDrawUpTo'
    BY MayDrawGrows
  <2>2. verifier_random_messages' \subseteq Nat
    BY <1>2 DEF TypeOK
  <2>3. QED
    BY <2>1, <2>2 DEF IInv, DrawnWithinBound
<1>6. SubmissionsFollowRounds'
  BY <1>1 DEF SubmissionsFollowRounds, RoundSubmitted, RoundEntries, BeginOf, EndOf, roundVars
<1>7. EntriesCovered'
  BY RunningKeepsCover DEF IInv
<1>8. QED
  BY <1>2, <1>3, <1>4, <1>5, <1>6, <1>7 DEF IInv

\* submit_prover_index keeps it: round 0 is complete when it returns.
LEMMA SubmitProverIndexStep ==
  ASSUME IInv, SubmitProverIndex
  PROVE  IInv'
<1> DEFINE indexOracles  == RoundEntries(0, oracles_at_end)
           indexMessages == RoundEntries(0, prover_messages_at_end)
<1>1. /\ num_prover_rounds_done = 0 /\ num_prover_rounds_done' = 1
      /\ num_interaction_rounds \in Nat /\ 0 < num_interaction_rounds
      /\ registration_state = "done"
      /\ oracles_present' = oracles_present \union indexOracles
      /\ prover_messages_present' = prover_messages_present \union indexMessages
      /\ UNCHANGED <<roundVars, registrationVars, registration_state,
                     verifier_random_messages>>
      /\ TypeOK /\ RoundsAreConsecutive /\ SubmissionsFollowRounds
  BY DEF IInv, TypeOK, SealedState, SubmitProverIndex
<1>2. /\ oracles_at_end \in Seq(Nat) /\ prover_messages_at_end \in Seq(Nat)
      /\ Len(oracles_at_end) = num_interaction_rounds
      /\ Len(prover_messages_at_end) = num_interaction_rounds
      /\ Len(oracle_registrations) \in Nat /\ Len(prover_message_registrations) \in Nat
      /\ Boundaries(oracles_at_end, Len(oracle_registrations))
      /\ Boundaries(prover_messages_at_end, Len(prover_message_registrations))
  BY <1>1 DEF TypeOK, RoundsAreConsecutive
<1>3. oracles_at_end[1] \in Nat /\ prover_messages_at_end[1] \in Nat
  BY <1>1, <1>2
<1>4. indexOracles \subseteq Nat /\ indexMessages \subseteq Nat
  BY <1>3 DEF RoundEntries, BeginOf, EndOf
<1>5. TypeOK'
  BY <1>1, <1>4 DEF TypeOK, roundVars, registrationVars
<1>6. RoundsAreConsecutive'
  BY <1>1 DEF RoundsAreConsecutive, Boundaries, roundVars, registrationVars
<1>7. SealedState' /\ HolographicStartsWithProver'
  BY <1>1 DEF IInv, SealedState, HolographicStartsWithProver, roundVars, registrationVars
<1>8. DrawnWithinBound'
  <2>1. MayDrawUpTo \in Nat /\ MayDrawUpTo' \in Nat /\ MayDrawUpTo <= MayDrawUpTo'
    BY <1>1, MayDrawGrows
  <2>2. verifier_random_messages' \subseteq Nat
    BY <1>5 DEF TypeOK
  <2>3. QED
    BY <1>1, <2>1, <2>2 DEF IInv, DrawnWithinBound
<1>9. SubmissionsFollowRounds'
  <2> SUFFICES ASSUME NEW r \in 0..(num_interaction_rounds - 1)
               PROVE  /\ r < 1 =>
                           /\ RoundEntries(r, oracles_at_end) \subseteq oracles_present'
                           /\ RoundEntries(r, prover_messages_at_end)
                                \subseteq prover_messages_present'
                      /\ r > 1 =>
                           /\ RoundEntries(r, oracles_at_end) \cap oracles_present' = {}
                           /\ RoundEntries(r, prover_messages_at_end)
                                \cap prover_messages_present' = {}
    BY <1>1 DEF SubmissionsFollowRounds, RoundEntries, BeginOf, EndOf, roundVars
  <2>1. CASE r = 0
    BY <1>1, <2>1
  <2>2. CASE r > 0
    <3>1. /\ RoundEntries(r, oracles_at_end) \cap oracles_present = {}
          /\ RoundEntries(r, prover_messages_at_end) \cap prover_messages_present = {}
      BY <1>1, <2>2 DEF SubmissionsFollowRounds
    <3>. /\ r \in Nat /\ 0 \in Nat /\ 0 < r
         /\ r < Len(oracles_at_end) /\ r < Len(prover_messages_at_end)
      BY <1>1, <1>2, <2>2
    <3>2. \A e \in indexOracles : e \notin RoundEntries(r, oracles_at_end)
      BY <1>2, RoundsAreDisjoint
    <3>3. \A e \in indexMessages : e \notin RoundEntries(r, prover_messages_at_end)
      BY <1>2, RoundsAreDisjoint
    <3>4. ~(r < 1)
      BY <2>2
    <3>5. QED
      BY <1>1, <3>1, <3>2, <3>3, <3>4
  <2>3. QED
    BY <2>1, <2>2
<1>10. EntriesCovered'
  BY <1>1, RunningKeepsCover DEF IInv
<1>11. QED
  BY <1>5, <1>6, <1>7, <1>8, <1>9, <1>10 DEF IInv

\* obtain_verifier_random_message keeps it.
LEMMA ObtainVerifierRandomMessageStep ==
  ASSUME IInv, NEW m \in RandomMessages, ObtainVerifierRandomMessage(m)
  PROVE  IInv'
<1> USE DEF ObtainVerifierRandomMessage, roundVars, registrationVars
<1>1. m \in Nat
  BY DEF IInv, TypeOK, RandomMessages
<1>2. TypeOK'
  BY <1>1 DEF IInv, TypeOK
<1>3. RoundsAreConsecutive'
  BY DEF IInv, RoundsAreConsecutive, Boundaries
<1>4. SealedState' /\ HolographicStartsWithProver'
  BY DEF IInv, SealedState, HolographicStartsWithProver
<1>5. DrawnWithinBound'
  BY DEF IInv, DrawnWithinBound, MayDrawUpTo, EndOf
<1>6. SubmissionsFollowRounds'
  BY DEF IInv, SubmissionsFollowRounds, RoundEntries, BeginOf, EndOf
<1>7. EntriesCovered'
  BY RunningKeepsCover DEF IInv
<1>8. QED
  BY <1>2, <1>3, <1>4, <1>5, <1>6, <1>7 DEF IInv

-----------------------------------------------------------------------------
(***************************************************************************)
(* The theorems.                                                           *)
(***************************************************************************)

\* Every step, and stuttering, keeps the invariant.
LEMMA NextPreserves == IInv /\ [Next]_vars => IInv'
<1> SUFFICES ASSUME IInv, [Next]_vars PROVE IInv'
  OBVIOUS
<1>1. CASE Register
  BY <1>1, RegisterDomainStep, RegisterOracleStep, RegisterIndexOracleStep,
     RegisterProverMessageStep, RegisterVerifierRandomMessageStep,
     SignalIndexRegistrationsDoneStep, SealInteractionRegistrationsStep,
     SealQueryRegistrationsStep DEF Register
<1>2. CASE Run
  BY <1>2, SubmitOracleStep, SubmitProverMessageStep, SignalProverRoundDoneStep,
     SubmitProverIndexStep, SubmitProverIndexRefusedStep,
     SubmitProverIndexRefusedAtMessageStep,
     ObtainVerifierRandomMessageStep DEF Run
<1>3. CASE UNCHANGED vars
  BY <1>3 DEF IInv, TypeOK, RoundsAreConsecutive, Boundaries, EntriesCovered, Oracles, SealedState,
     SubmissionsFollowRounds, DrawnWithinBound, HolographicStartsWithProver,
     MayDrawUpTo, RoundEntries, BeginOf, EndOf, vars, roundVars,
     registrationVars, runVars
<1>4. QED
  BY <1>1, <1>2, <1>3 DEF Next

\* The inductive invariant of the registration and run phases of iop_protocol.
THEOREM InductiveInvariant == Spec => []IInv
<1>1. Init => IInv
  BY InitEstablishes
<1>2. IInv /\ [Next]_vars => IInv'
  BY NextPreserves
<1>3. QED
  BY <1>1, <1>2, PTL DEF Spec

\* The state of iop_protocol keeps its types under every sequence of calls.
THEOREM TypeCorrect == Spec => []TypeOK
<1>1. IInv => TypeOK
  BY DEF IInv
<1>2. QED
  BY <1>1, InductiveInvariant, PTL

\* The boundaries of a sealed protocol cover what is registered.
LEMMA CoverIsComplete ==
  ASSUME IInv, registration_state # "interactive"
  PROVE  /\ num_interaction_rounds \in Nat \ {0}
         /\ \A m \in ProverMessages : OfOneRound(m, prover_messages_at_end)
         /\ \A m \in RandomMessages : OfOneRound(m, random_messages_at_end)
         /\ \A o \in Oracles :
              \/ o \in 1..oracles_at_end[num_interaction_rounds] /\ OfOneRound(o, oracles_at_end)
              \/ LateIndexOracle(o)
<1> DEFINE n == num_interaction_rounds
<1>1. /\ n \in Nat \ {0}
      /\ oracles_at_end \in Seq(Nat) /\ Len(oracles_at_end) = n
      /\ prover_messages_at_end \in Seq(Nat) /\ Len(prover_messages_at_end) = n
      /\ random_messages_at_end \in Seq(Nat) /\ Len(random_messages_at_end) = n
      /\ Len(oracle_registrations) \in Nat
      /\ Len(prover_message_registrations) \in Nat
      /\ num_random_messages \in Nat
  BY DEF IInv, TypeOK, SealedState, RoundsAreConsecutive
<1>2. /\ Boundaries(oracles_at_end, Len(oracle_registrations))
      /\ Boundaries(prover_messages_at_end, Len(prover_message_registrations))
      /\ Boundaries(random_messages_at_end, num_random_messages)
  BY DEF IInv, RoundsAreConsecutive
<1>3. /\ prover_messages_at_end[n] = Len(prover_message_registrations)
      /\ random_messages_at_end[n] = num_random_messages
      /\ \A o \in Oracles : o <= oracles_at_end[n] \/ oracle_registrations[o].indexed
  BY <1>1 DEF IInv, EntriesCovered, SealedState
<1>4. \A m \in ProverMessages : OfOneRound(m, prover_messages_at_end)
  BY <1>1, <1>2, <1>3, EntryHasOneRound DEF ProverMessages
<1>5. ASSUME NEW m \in RandomMessages PROVE OfOneRound(m, random_messages_at_end)
  <2>1. m \in 1..random_messages_at_end[num_interaction_rounds]
    BY <1>3 DEF RandomMessages
  <2>2. num_interaction_rounds <= Len(random_messages_at_end)
    BY <1>1
  <2> QED BY <1>1, <1>2, <2>1, <2>2, EntryHasOneRound
<1>6. ASSUME NEW o \in Oracles
      PROVE  \/ o \in 1..oracles_at_end[n] /\ OfOneRound(o, oracles_at_end)
             \/ LateIndexOracle(o)
  <2>1. n \in DOMAIN oracles_at_end
    BY <1>1
  <2>2. oracles_at_end[n] \in Nat /\ o \in Nat \ {0}
    BY <1>1, <2>1 DEF Oracles
  <2>3. CASE o <= oracles_at_end[n]
    <3>1. o \in 1..oracles_at_end[n]
      BY <2>2, <2>3
    <3>2. num_interaction_rounds <= Len(oracles_at_end)
      BY <1>1
    <3>3. OfOneRound(o, oracles_at_end)
      BY <1>1, <1>2, <3>1, <3>2, EntryHasOneRound
    <3> QED BY <3>1, <3>3
  <2>4. CASE ~(o <= oracles_at_end[n])
    BY <1>3, <2>2, <2>4 DEF LateIndexOracle
  <2> QED BY <2>3, <2>4
<1> QED BY <1>1, <1>4, <1>5, <1>6

\* update_rounds_and_direction and seal_interaction_registrations cut the
\* registrations into consecutive rounds, whatever is registered in whatever
\* order: once sealed, each is of exactly one round, but for the index oracles
\* that register_index_oracle lets in after the sealing, which are of none.
THEOREM RoundsArePartition == Spec => []RoundsPartitionEntries
<1>1. IInv => RoundsPartitionEntries
  BY CoverIsComplete DEF IInv, RoundsPartitionEntries
<1>2. QED
  BY <1>1, InductiveInvariant, PTL

\* While the protocol runs, submit_oracle reads past the end of a boundary
\* vector for index oracles registered after the sealing, when all rounds are
\* done; no other index into a boundary vector is out of range.
THEOREM BoundaryIndicesInRange == Spec => []IndicesInRange
<1>1. ASSUME IInv, registration_state = "done",
             num_prover_rounds_done = num_interaction_rounds
      PROVE  /\ ProverMessages \subseteq prover_messages_present
             /\ \A o \in Oracles \ oracles_present : LateIndexOracle(o)
  <2>1. /\ num_interaction_rounds \in Nat \ {0}
        /\ \A m \in ProverMessages : OfOneRound(m, prover_messages_at_end)
        /\ \A o \in Oracles : OfOneRound(o, oracles_at_end) \/ LateIndexOracle(o)
    BY <1>1, CoverIsComplete
  <2>2. \A r \in 0..(num_interaction_rounds - 1) :
          /\ RoundEntries(r, oracles_at_end) \subseteq oracles_present
          /\ RoundEntries(r, prover_messages_at_end) \subseteq prover_messages_present
    BY <1>1, <2>1 DEF IInv, SubmissionsFollowRounds
  <2> QED BY <2>1, <2>2 DEF OfOneRound
<1>2. IInv => IndicesInRange
  BY <1>1 DEF IInv, IndicesInRange, SealedState, RoundsAreConsecutive, TypeOK
<1>3. QED
  BY <1>2, InductiveInvariant, PTL

\* Finished rounds are complete and later rounds untouched, for
\* submit_oracle, submit_prover_message and submit_prover_index alike.
THEOREM SubmissionsInOrder == Spec => []SubmissionsFollowRounds
<1>1. IInv => SubmissionsFollowRounds
  BY DEF IInv
<1>2. QED
  BY <1>1, InductiveInvariant, PTL

\* A random message that is not the first of its round is handed out only
\* after the prover has finished the rounds it answers.
THEOREM LaterMessagesAreSafe == Spec => []LaterMessagesAfterCommitment
<1>1. IInv => LaterMessagesAfterCommitment
  <2> SUFFICES ASSUME IInv,
                      NEW r \in 1..(num_interaction_rounds - 1),
                      NEW m \in verifier_random_messages,
                      r + 1 \in DOMAIN random_messages_at_end,
                      m - 1 \in RoundEntries(r, random_messages_at_end)
               PROVE  num_prover_rounds_done >= r
    BY DEF LaterMessagesAfterCommitment
  <2> DEFINE n == num_prover_rounds_done
             k == IF n < num_interaction_rounds THEN n ELSE num_interaction_rounds - 1
  <2>1. /\ n \in Nat /\ num_interaction_rounds \in Nat /\ m \in Nat
        /\ n <= num_interaction_rounds
        /\ random_messages_at_end \in Seq(Nat)
        /\ registration_state = "done"
        /\ Boundaries(random_messages_at_end, num_random_messages)
    BY DEF IInv, TypeOK, SealedState, RoundsAreConsecutive
  <2>2. Len(random_messages_at_end) = num_interaction_rounds
    BY <2>1 DEF IInv, RoundsAreConsecutive
  <2>3. m <= random_messages_at_end[k + 1] + 1
    BY <2>1 DEF IInv, DrawnWithinBound, MayDrawUpTo, EndOf
  <2>4. r \in DOMAIN random_messages_at_end /\ k + 1 \in DOMAIN random_messages_at_end
    BY <2>1, <2>2
  <2>5. random_messages_at_end[r] \in Nat /\ random_messages_at_end[k + 1] \in Nat
    BY <2>1, <2>4, SMTT(25)
  <2>6. m - 1 >= random_messages_at_end[r] + 1
    BY <2>1, <2>4, <2>5, SMTT(25) DEF RoundEntries, BeginOf, EndOf
  <2>7. random_messages_at_end[r] < random_messages_at_end[k + 1]
    BY <2>1, <2>3, <2>5, <2>6, SMTT(25)
  <2>8. ~(k + 1 <= r)
    BY <2>4, <2>5, <2>7, <2>1 DEF Boundaries
  <2>9. QED
    BY <2>1, <2>8
<1>2. QED
  BY <1>1, InductiveInvariant, PTL

\* A refused oracle of round 0 of a holographic protocol leaves no trace.
THEOREM RefusedOracleLeavesNoTrace == Spec => []HolographicStartsWithProver
<1>1. IInv => HolographicStartsWithProver
  BY DEF IInv
<1>2. QED
  BY <1>1, InductiveInvariant, PTL

\* No call after seal_interaction_registrations moves a round, though
\* register_index_oracle and signal_index_registrations_done do not look at
\* the registration state.
THEOREM SealedRoundsStay == Spec => SealedRoundsAreFixed
<1>1. IInv /\ [Next]_vars => [registration_state # "interactive" => UNCHANGED roundVars]_vars
  <2> SUFFICES ASSUME IInv, Next, registration_state # "interactive"
               PROVE  UNCHANGED roundVars
    OBVIOUS
  <2>1. CASE Register
    <3>1. message_direction = FromProver /\ FromProver # FromVerifier
      BY DEF IInv, SealedState, FromProver, FromVerifier
    <3>2. ASSUME NEW d \in DOMAIN domains, RegisterIndexOracle(d)
          PROVE  UNCHANGED roundVars
      BY <3>1, <3>2 DEF RegisterIndexOracle, UpdateRoundsAndDirection
    <3>3. ~SignalIndexRegistrationsDone
      BY SignalIndexRegistrationsDoneStep
    <3>4. QED
      BY <2>1, <3>2, <3>3 DEF Register, RegisterDomain, RegisterOracle,
         OracleCanBeRegistered, RegisterProverMessage, RegisterVerifierRandomMessage,
         SealInteractionRegistrations, CanSeal, SealQueryRegistrations
  <2>2. CASE Run
    BY <2>2 DEF Run, SubmitOracle, SubmitProverMessage, SignalProverRoundDone,
       SubmitProverIndex, SubmitProverIndexRefused, SubmitProverIndexRefusedAtMessage,
       ObtainVerifierRandomMessage
  <2>3. QED
    BY <2>1, <2>2 DEF Next
<1>2. QED
  BY <1>1, InductiveInvariant, PTL DEF Spec, SealedRoundsAreFixed

-----------------------------------------------------------------------------
(***************************************************************************)
(* BcsTransform: the rounds as trees, messages and a hash chain.           *)
(***************************************************************************)
\* The trees, the prover messages and the operations on the chain of round r.
RoundTrees(r) == TreesOfRound(r, oracles_at_end)
RoundMessages(r) == MessagesOfRound(r, MessageIds(Len(prover_message_registrations)))
RoundItems(r) ==
  [i \in DOMAIN RoundTrees(r) |-> Absorb("root", RoundTrees(r)[i])]
    \o <<Absorb("messages", RoundMessages(r))>>
    \o Squeezes("challenge", Cardinality(SqueezedAfter(r)))

\* The trees and the chain of the first n rounds.
Built(n) == TreesOfRounds(0, n - 1, oracles_at_end)
Said(n) == FlattenSeq([i \in 1..n |-> RoundItems(i - 1)])

\* The chain when the proof of work has been squeezed, and n positions after it.
Sealed(n) ==
  Append(Said(num_interaction_rounds), Squeeze("pow")) \o Squeezes("position", n)

\* The trees of rounds first..last, over any domain.
TreesBetween(first, last) == (first..last) \X Nat
Trees == Nat \X Nat

Items == [op : Operations, of : Seq(Nat)]
Talk == {item \in Items : item.op \in {"root", "messages", "challenge"}}

-----------------------------------------------------------------------------
(***************************************************************************)
(* Trees.                                                                  *)
(***************************************************************************)

\* The trees of a round are trees of that round.
LEMMA TreesOfRoundType ==
  ASSUME domains \in Seq(DomainSizes), NEW r \in Nat, NEW atEnd
  PROVE  TreesOfRound(r, atEnd) \in Seq(TreesBetween(r, r))
<1> DEFINE part(d) == IF \E o \in RoundEntries(r, atEnd) : oracle_registrations[o].domain = d
                      THEN << <<r, d>> >> ELSE << >>
<1>1. DOMAIN domains = 1..Len(domains) /\ Len(domains) \in Nat
  OBVIOUS
<1>2. \A d \in DOMAIN domains : part(d) \in Seq(TreesBetween(r, r))
  <2>1. SUFFICES ASSUME NEW d \in DOMAIN domains PROVE part(d) \in Seq(TreesBetween(r, r))
    OBVIOUS
  <2>2. << <<r, d>> >> \in Seq(TreesBetween(r, r)) /\ << >> \in Seq(TreesBetween(r, r))
    BY <1>1 DEF TreesBetween
  <2> QED BY <2>2
<1> HIDE DEF part
<1>3. [d \in DOMAIN domains |-> part(d)] \in Seq(Seq(TreesBetween(r, r)))
  BY <1>1, <1>2
<1>4. FlattenSeq([d \in DOMAIN domains |-> part(d)]) \in Seq(TreesBetween(r, r))
  BY <1>3, FlattenType
<1> QED BY <1>4 DEF TreesOfRound, part

\* Every oracle of a round is in a tree of the round.
LEMMA OracleHasATree ==
  ASSUME domains \in Seq(DomainSizes), NEW r \in Nat, NEW atEnd,
         NEW o \in RoundEntries(r, atEnd), oracle_registrations[o].domain \in DOMAIN domains
  PROVE  \E i \in DOMAIN TreesOfRound(r, atEnd) :
           TreesOfRound(r, atEnd)[i] = <<r, oracle_registrations[o].domain>>
<1> DEFINE part(d) == IF \E q \in RoundEntries(r, atEnd) : oracle_registrations[q].domain = d
                      THEN << <<r, d>> >> ELSE << >>
           parts == [d \in DOMAIN domains |-> part(d)]
           tree == <<r, oracle_registrations[o].domain>>
<1>1. DOMAIN domains = 1..Len(domains) /\ Len(domains) \in Nat
  OBVIOUS
<1>2. \A d \in DOMAIN domains : part(d) \in Seq(TreesBetween(r, r))
  <2>1. SUFFICES ASSUME NEW d \in DOMAIN domains PROVE part(d) \in Seq(TreesBetween(r, r))
    OBVIOUS
  <2>2. << <<r, d>> >> \in Seq(TreesBetween(r, r)) /\ << >> \in Seq(TreesBetween(r, r))
    BY <1>1 DEF TreesBetween
  <2> QED BY <2>2
<1>3. part(oracle_registrations[o].domain) = <<tree>>
  OBVIOUS
<1>4. \E j \in DOMAIN <<tree>> : <<tree>>[j] = tree
  OBVIOUS
<1> HIDE DEF part, tree
<1>5. parts \in Seq(Seq(TreesBetween(r, r))) /\ DOMAIN parts = DOMAIN domains
  BY <1>1, <1>2
<1>6. parts[oracle_registrations[o].domain] = <<tree>>
  BY <1>3
<1> HIDE DEF parts
<1>7. \E i \in DOMAIN parts : \E j \in DOMAIN parts[i] : parts[i][j] = tree
  BY <1>4, <1>5, <1>6
<1>8. \E i \in DOMAIN FlattenSeq(parts) : FlattenSeq(parts)[i] = tree
  BY <1>5, <1>7, FlattenMembers, ZenonT(40)
<1>9. TreesOfRound(r, atEnd) = FlattenSeq(parts)
  BY Zenon DEF TreesOfRound, parts, part
<1> QED BY <1>8, <1>9 DEF tree

\* The trees of some rounds, as a sequence of the sequences of each.
LEMMA TreesOfRoundsParts ==
  ASSUME domains \in Seq(DomainSizes), NEW first \in Nat, NEW n \in Nat, NEW atEnd
  PROVE  /\ [i \in 1..n |-> TreesOfRound(first + i - 1, atEnd)]
              \in Seq(Seq(TreesBetween(first, first + n - 1)))
         /\ TreesOfRounds(first, first + n - 1, atEnd) \in Seq(TreesBetween(first, first + n - 1))
<1> DEFINE S == TreesBetween(first, first + n - 1)
           parts == [i \in 1..n |-> TreesOfRound(first + i - 1, atEnd)]
<1>1. \A i \in 1..n : TreesOfRound(first + i - 1, atEnd) \in Seq(S)
  <2>1. SUFFICES ASSUME NEW i \in 1..n PROVE TreesOfRound(first + i - 1, atEnd) \in Seq(S)
    OBVIOUS
  <2>2. first + i - 1 \in Nat /\ first + i - 1 \in first..(first + n - 1)
    OBVIOUS
  <2>3. TreesOfRound(first + i - 1, atEnd) \in Seq(TreesBetween(first + i - 1, first + i - 1))
    BY <2>2, TreesOfRoundType
  <2>4. TreesBetween(first + i - 1, first + i - 1) \subseteq S
    BY <2>2 DEF TreesBetween
  <2> HIDE DEF S
  <2>5. Seq(TreesBetween(first + i - 1, first + i - 1)) \subseteq Seq(S)
    BY <2>4
  <2> QED BY <2>3, <2>5
<1> HIDE DEF S
<1>2. parts \in Seq(Seq(S))
  BY <1>1
<1> HIDE DEF parts
<1>3. FlattenSeq(parts) \in Seq(S)
  BY <1>2, FlattenType
<1>4. (first + n - 1) - first + 1 = n
  OBVIOUS
<1>5. TreesOfRounds(first, first + n - 1, atEnd) = FlattenSeq(parts)
  BY <1>4, Zenon DEF TreesOfRounds, parts
<1> QED BY <1>2, <1>3, <1>5 DEF S, parts

\* The trees of one more round come behind the others.
LEMMA OneMoreRound ==
  ASSUME domains \in Seq(DomainSizes), NEW first \in Nat, NEW n \in Nat, NEW atEnd
  PROVE  TreesOfRounds(first, first + n, atEnd)
           = TreesOfRounds(first, first + n - 1, atEnd) \o TreesOfRound(first + n, atEnd)
<1> DEFINE S == TreesBetween(first, first + n)
           parts(k) == [i \in 1..k |-> TreesOfRound(first + i - 1, atEnd)]
<1>1. parts(n + 1) \in Seq(Seq(S))
  <2>1. n + 1 \in Nat /\ first + (n + 1) - 1 = first + n
    OBVIOUS
  <2>2. parts(n + 1) \in Seq(Seq(TreesBetween(first, first + (n + 1) - 1)))
    BY <2>1, TreesOfRoundsParts
  <2> QED BY <2>1, <2>2, Zenon
<1>2. TreesOfRound(first + n, atEnd) = parts(n + 1)[n + 1]
  <2>1. n + 1 \in 1..(n + 1) /\ first + (n + 1) - 1 = first + n
    OBVIOUS
  <2> QED BY <2>1
<1>3. parts(n + 1) = Append(parts(n), parts(n + 1)[n + 1])
  OBVIOUS
<1>4. parts(n) \in Seq(Seq(S)) /\ parts(n + 1)[n + 1] \in Seq(S)
  <2>1. parts(n + 1)[n + 1] \in Seq(S)
    <3>1. n + 1 \in 1..(n + 1) /\ DOMAIN parts(n + 1) = 1..(n + 1)
      OBVIOUS
    <3> HIDE DEF S, parts
    <3> QED BY <1>1, <3>1
  <2>2. \A i \in 1..n : parts(n)[i] = parts(n + 1)[i] /\ i \in 1..(n + 1)
    OBVIOUS
  <2>3. DOMAIN parts(n + 1) = 1..(n + 1) /\ parts(n) = [i \in 1..n |-> parts(n)[i]]
    OBVIOUS
  <2> HIDE DEF S, parts
  <2>4. \A i \in 1..n : parts(n)[i] \in Seq(S)
    <3>1. \A i \in DOMAIN parts(n + 1) : parts(n + 1)[i] \in Seq(S)
      BY <1>1
    <3> QED BY <2>2, <2>3, <3>1, Zenon
  <2>5. parts(n) \in Seq(Seq(S))
    BY <2>3, <2>4
  <2> QED BY <2>1, <2>5
<1>5. TreesOfRounds(first, first + n, atEnd) = FlattenSeq(parts(n + 1))
  <2>1. (first + n) - first + 1 = n + 1
    OBVIOUS
  <2> QED BY <2>1, Zenon DEF TreesOfRounds
<1>6. TreesOfRounds(first, first + n - 1, atEnd) = FlattenSeq(parts(n))
  <2>1. (first + n - 1) - first + 1 = n
    OBVIOUS
  <2> QED BY <2>1, Zenon DEF TreesOfRounds
<1> HIDE DEF S, parts
<1>7. FlattenSeq(Append(parts(n), parts(n + 1)[n + 1]))
        = FlattenSeq(parts(n)) \o parts(n + 1)[n + 1]
  BY <1>4, FlattenAppend
<1> QED BY <1>2, <1>3, <1>5, <1>6, <1>7, Zenon

\* No trees in no rounds.
LEMMA NoRounds ==
  ASSUME NEW first \in Nat, NEW atEnd
  PROVE  TreesOfRounds(first, first - 1, atEnd) = << >>
<1>1. (first - 1) - first + 1 = 0
  OBVIOUS
<1>2. [i \in 1..0 |-> TreesOfRound(first + i - 1, atEnd)] = << >>
  OBVIOUS
<1> QED BY <1>1, <1>2, FlattenEmpty, Zenon DEF TreesOfRounds

\* The trees of round 0 come first.
LEMMA IndexTreesFirst ==
  ASSUME domains \in Seq(DomainSizes), NEW n \in Nat, NEW atEnd
  PROVE  TreesOfRounds(0, n, atEnd) = TreesOfRound(0, atEnd) \o TreesOfRounds(1, n, atEnd)
<1> DEFINE holds(k) ==
             TreesOfRounds(0, k, atEnd) = TreesOfRound(0, atEnd) \o TreesOfRounds(1, k, atEnd)
           N == {k \in Nat : holds(k)}
<1>1. TreesOfRound(0, atEnd) \in Seq(TreesBetween(0, 0))
  BY TreesOfRoundType
<1>2. 0 \in N
  <2>1. TreesOfRounds(0, 0, atEnd) = TreesOfRounds(0, 0 - 1, atEnd) \o TreesOfRound(0, atEnd)
    <3>1. 0 + 0 = 0 /\ 0 + 0 - 1 = 0 - 1
      OBVIOUS
    <3>2. TreesOfRounds(0, 0 + 0, atEnd)
            = TreesOfRounds(0, 0 + 0 - 1, atEnd) \o TreesOfRound(0 + 0, atEnd)
      BY OneMoreRound
    <3> QED BY <3>1, <3>2, Zenon
  <2>2. TreesOfRounds(0, 0 - 1, atEnd) = << >>
    BY NoRounds
  <2>3. TreesOfRounds(1, 0, atEnd) = << >>
    <3>1. TreesOfRounds(1, 1 - 1, atEnd) = << >>
      BY NoRounds
    <3>2. 1 - 1 = 0
      OBVIOUS
    <3> QED BY <3>1, <3>2, Zenon
  <2>4. \A s \in Seq(TreesBetween(0, 0)) : << >> \o s = s /\ s \o << >> = s
    OBVIOUS
  <2>5. holds(0)
    BY <1>1, <2>1, <2>2, <2>3, <2>4, Zenon
  <2> HIDE DEF holds
  <2> QED BY <2>5
<1>3. ASSUME NEW k \in Nat, k \in N PROVE k + 1 \in N
  <2>1. TreesOfRounds(0, k + 1, atEnd) = TreesOfRounds(0, k, atEnd) \o TreesOfRound(k + 1, atEnd)
    <3>1. 0 + (k + 1) = k + 1 /\ 0 + (k + 1) - 1 = k /\ k + 1 \in Nat
      OBVIOUS
    <3>2. TreesOfRounds(0, 0 + (k + 1), atEnd)
            = TreesOfRounds(0, 0 + (k + 1) - 1, atEnd) \o TreesOfRound(0 + (k + 1), atEnd)
      BY <3>1, OneMoreRound
    <3> QED BY <3>1, <3>2, Zenon
  <2>2. TreesOfRounds(1, k + 1, atEnd) = TreesOfRounds(1, k, atEnd) \o TreesOfRound(k + 1, atEnd)
    <3>1. 1 + k = k + 1 /\ 1 + k - 1 = k /\ 1 \in Nat
      OBVIOUS
    <3>2. TreesOfRounds(1, 1 + k, atEnd)
            = TreesOfRounds(1, 1 + k - 1, atEnd) \o TreesOfRound(1 + k, atEnd)
      BY <3>1, OneMoreRound
    <3> QED BY <3>1, <3>2, Zenon
  <2>3. TreesOfRounds(1, k, atEnd) \in Seq(Trees)
    <3>1. 1 + k - 1 = k /\ 1 \in Nat
      OBVIOUS
    <3>2. TreesOfRounds(1, 1 + k - 1, atEnd) \in Seq(TreesBetween(1, 1 + k - 1))
      BY <3>1, TreesOfRoundsParts
    <3>3. TreesBetween(1, 1 + k - 1) \subseteq Trees
      BY DEF TreesBetween, Trees
    <3>4. Seq(TreesBetween(1, 1 + k - 1)) \subseteq Seq(Trees)
      BY <3>3
    <3> QED BY <3>1, <3>2, <3>4, Zenon
  <2>4. TreesOfRound(k + 1, atEnd) \in Seq(Trees)
    <3>1. k + 1 \in Nat /\ TreesBetween(k + 1, k + 1) \subseteq Trees
      BY DEF TreesBetween, Trees
    <3>2. Seq(TreesBetween(k + 1, k + 1)) \subseteq Seq(Trees)
      BY <3>1
    <3> QED BY <3>1, <3>2, TreesOfRoundType
  <2>5. TreesOfRound(0, atEnd) \in Seq(Trees)
    <3>1. TreesBetween(0, 0) \subseteq Trees
      BY DEF TreesBetween, Trees
    <3>2. Seq(TreesBetween(0, 0)) \subseteq Seq(Trees)
      BY <3>1
    <3> QED BY <1>1, <3>2
  <2>6. (TreesOfRound(0, atEnd) \o TreesOfRounds(1, k, atEnd)) \o TreesOfRound(k + 1, atEnd)
          = TreesOfRound(0, atEnd) \o (TreesOfRounds(1, k, atEnd) \o TreesOfRound(k + 1, atEnd))
    BY <2>3, <2>4, <2>5, ConcatAssociative, SMTT(25)
  <2>7. holds(k)
    BY <1>3
  <2>8. holds(k + 1)
    BY <2>1, <2>2, <2>6, <2>7, Zenon
  <2>9. k + 1 \in Nat
    OBVIOUS
  <2> HIDE DEF holds
  <2> QED BY <2>8, <2>9
<1> HIDE DEF N
<1>4. n \in N
  BY <1>2, <1>3, NatSetInduction
<1> QED BY <1>4 DEF N

\* What is built, its type and its growth.
LEMMA BuiltType ==
  ASSUME domains \in Seq(DomainSizes), NEW n \in Nat
  PROVE  /\ Built(n) \in Seq(TreesBetween(0, n - 1))
         /\ Built(n) \in Seq(Trees)
<1>1. 0 + n - 1 = n - 1
  OBVIOUS
<1>2. TreesOfRounds(0, 0 + n - 1, oracles_at_end) \in Seq(TreesBetween(0, 0 + n - 1))
  BY TreesOfRoundsParts
<1>3. Built(n) \in Seq(TreesBetween(0, n - 1))
  BY <1>1, <1>2, Zenon DEF Built
<1>4. TreesBetween(0, n - 1) \subseteq Trees
  BY DEF TreesBetween, Trees
<1>5. Seq(TreesBetween(0, n - 1)) \subseteq Seq(Trees)
  BY <1>4
<1> QED BY <1>3, <1>5

\* The trees of a round are a sequence of trees of that round.
LEMMA RoundTreesType ==
  ASSUME domains \in Seq(DomainSizes), NEW r \in Nat
  PROVE  /\ RoundTrees(r) \in Seq(TreesBetween(r, r))
         /\ RoundTrees(r) \in Seq(Trees)
         /\ Len(RoundTrees(r)) \in Nat
<1>1. RoundTrees(r) \in Seq(TreesBetween(r, r))
  BY TreesOfRoundType DEF RoundTrees
<1>2. TreesBetween(r, r) \subseteq Trees
  BY DEF TreesBetween, Trees
<1>3. Seq(TreesBetween(r, r)) \subseteq Seq(Trees)
  BY <1>2
<1> QED BY <1>1, <1>3

\* No round has built anything, and each adds its own trees.
LEMMA BuiltGrows ==
  ASSUME domains \in Seq(DomainSizes), NEW n \in Nat
  PROVE  /\ Built(0) = << >>
         /\ Built(n + 1) = Built(n) \o RoundTrees(n)
<1>1. Built(0) = << >>
  <2>1. TreesOfRounds(0, 0 - 1, oracles_at_end) = << >>
    BY NoRounds
  <2> QED BY <2>1 DEF Built
<1>2. (n + 1) - 1 = 0 + n /\ n - 1 = 0 + n - 1 /\ 0 + n = n
  OBVIOUS
<1>3. TreesOfRounds(0, 0 + n, oracles_at_end)
        = TreesOfRounds(0, 0 + n - 1, oracles_at_end) \o TreesOfRound(0 + n, oracles_at_end)
  BY OneMoreRound
<1> QED BY <1>1, <1>2, <1>3, Zenon DEF Built, RoundTrees

\* The trees of the first n rounds are the first of those of more rounds.
LEMMA BuiltBegins ==
  ASSUME domains \in Seq(DomainSizes), NEW n \in Nat, NEW k \in Nat
  PROVE  \E rest \in Seq(Trees) : Built(n + k) = Built(n) \o rest
<1> DEFINE N == {j \in Nat : \E rest \in Seq(Trees) : Built(n + j) = Built(n) \o rest}
<1>1. 0 \in N
  <2>1. n + 0 = n
    OBVIOUS
  <2>2. Built(n) \o << >> = Built(n) /\ << >> \in Seq(Trees)
    BY BuiltType
  <2>3. \E rest \in Seq(Trees) : Built(n + 0) = Built(n) \o rest
    BY <2>1, <2>2, Zenon
  <2> QED BY <2>3
<1>2. ASSUME NEW j \in Nat, j \in N PROVE j + 1 \in N
  <2>1. PICK rest \in Seq(Trees) : Built(n + j) = Built(n) \o rest
    BY <1>2
  <2>2. n + (j + 1) = (n + j) + 1 /\ n + j \in Nat
    OBVIOUS
  <2>3. Built((n + j) + 1) = Built(n + j) \o RoundTrees(n + j)
    BY <2>2, BuiltGrows
  <2>4. RoundTrees(n + j) \in Seq(Trees) /\ Built(n) \in Seq(Trees)
    BY <2>2, RoundTreesType, BuiltType
  <2>5. (Built(n) \o rest) \o RoundTrees(n + j) = Built(n) \o (rest \o RoundTrees(n + j))
        /\ rest \o RoundTrees(n + j) \in Seq(Trees)
    BY <2>4, ConcatAssociative, ConcatType, SMTT(25)
  <2>6. \E more \in Seq(Trees) : Built(n + (j + 1)) = Built(n) \o more
    BY <2>1, <2>2, <2>3, <2>5, Zenon
  <2>7. j + 1 \in Nat
    OBVIOUS
  <2> QED BY <2>6, <2>7, Zenon
<1> HIDE DEF N
<1>3. k \in N
  BY <1>1, <1>2, NatSetInduction
<1> QED BY <1>3 DEF N

-----------------------------------------------------------------------------
(***************************************************************************)
(* Boundaries and messages.                                                *)
(***************************************************************************)

\* What the boundaries are when the rounds are as IopProtocol has them.
LEMMA RoundBoundaries ==
  ASSUME IInv, NEW r \in 0..(num_interaction_rounds - 1)
  PROVE  /\ r \in Nat
         /\ BeginOf(r, prover_messages_at_end) \in Nat
         /\ EndOf(r, prover_messages_at_end) \in Nat
         /\ BeginOf(r, prover_messages_at_end) <= EndOf(r, prover_messages_at_end)
         /\ EndOf(r, prover_messages_at_end) <= Len(prover_message_registrations)
         /\ BeginOf(r + 1, prover_messages_at_end) = EndOf(r, prover_messages_at_end)
         /\ BeginOf(r, oracles_at_end) \in Nat
         /\ EndOf(r, oracles_at_end) \in Nat
         /\ EndOf(r, oracles_at_end) <= Len(oracle_registrations)
         /\ BeginOf(r, random_messages_at_end) \in Nat
         /\ EndOf(r, random_messages_at_end) \in Nat
         /\ EndOf(r, random_messages_at_end) <= num_random_messages
         /\ BeginOf(r + 1, random_messages_at_end) = EndOf(r, random_messages_at_end)
<1>1. /\ oracles_at_end \in Seq(Nat) /\ prover_messages_at_end \in Seq(Nat)
      /\ random_messages_at_end \in Seq(Nat) /\ num_interaction_rounds \in Nat
      /\ Len(oracle_registrations) \in Nat /\ Len(prover_message_registrations) \in Nat
      /\ num_random_messages \in Nat
  BY DEF IInv, TypeOK
<1>2. /\ Boundaries(oracles_at_end, Len(oracle_registrations))
      /\ Boundaries(prover_messages_at_end, Len(prover_message_registrations))
      /\ Boundaries(random_messages_at_end, num_random_messages)
      /\ r < Len(oracles_at_end) /\ r < Len(prover_messages_at_end)
      /\ r < Len(random_messages_at_end)
  BY <1>1 DEF IInv, RoundsAreConsecutive
<1>3. r \in Nat
  BY <1>1
<1>4. /\ BeginOf(r, prover_messages_at_end) \in Nat
      /\ EndOf(r, prover_messages_at_end) \in Nat
      /\ BeginOf(r, prover_messages_at_end) <= EndOf(r, prover_messages_at_end)
      /\ EndOf(r, prover_messages_at_end) <= Len(prover_message_registrations)
      /\ BeginOf(r + 1, prover_messages_at_end) = EndOf(r, prover_messages_at_end)
  BY <1>1, <1>2, <1>3, BoundariesOfRound
<1>5. /\ BeginOf(r, oracles_at_end) \in Nat
      /\ EndOf(r, oracles_at_end) \in Nat
      /\ EndOf(r, oracles_at_end) <= Len(oracle_registrations)
  BY <1>1, <1>2, <1>3, BoundariesOfRound
<1>6. /\ BeginOf(r, random_messages_at_end) \in Nat
      /\ EndOf(r, random_messages_at_end) \in Nat
      /\ EndOf(r, random_messages_at_end) <= num_random_messages
      /\ BeginOf(r + 1, random_messages_at_end) = EndOf(r, random_messages_at_end)
  BY <1>1, <1>2, <1>3, BoundariesOfRound
<1> QED BY <1>3, <1>4, <1>5, <1>6

\* A cut out of the message ids, and what it is with the ids before it.
LEMMA MessageIdsCut ==
  ASSUME NEW n \in Nat, NEW b \in Nat, NEW e \in Nat, b <= e, e <= n
  PROVE  /\ SubSeq(MessageIds(n), b + 1, e) \in Seq(Nat)
         /\ MessageIds(b) \o SubSeq(MessageIds(n), b + 1, e) = MessageIds(e)
         /\ MessageIds(n) \in Seq(Nat)
         /\ Len(MessageIds(n)) = n
<1>1. MessageIds(n) \in Seq(Nat) /\ Len(MessageIds(n)) = n
  BY DEF MessageIds
<1>2. MessageIds(b) \in Seq(Nat) /\ Len(MessageIds(b)) = b
  BY DEF MessageIds
<1>3. MessageIds(e) \in Seq(Nat) /\ Len(MessageIds(e)) = e
  BY DEF MessageIds
<1> DEFINE cut == SubSeq(MessageIds(n), b + 1, e)
<1>4. cut \in Seq(Nat) /\ Len(cut) = e - b /\ \A i \in 1..(e - b) : cut[i] = b + i
  <2>1. cut \in Seq(Nat) /\ Len(cut) = e - b
    BY <1>1
  <2>2. \A i \in 1..(e - b) : cut[i] = MessageIds(n)[b + i] /\ b + i \in 1..n
    BY <1>1
  <2>3. \A i \in 1..(e - b) : cut[i] = b + i
    BY <2>2 DEF MessageIds
  <2> QED BY <2>1, <2>3
<1> HIDE DEF cut
<1>5. MessageIds(b) \o cut \in Seq(Nat) /\ Len(MessageIds(b) \o cut) = e
  BY <1>2, <1>4, SMTT(25)
<1>6. \A i \in 1..e : (MessageIds(b) \o cut)[i] = i
  <2>1. SUFFICES ASSUME NEW i \in 1..e PROVE (MessageIds(b) \o cut)[i] = i
    OBVIOUS
  <2>2. CASE i <= b
    <3>1. (MessageIds(b) \o cut)[i] = MessageIds(b)[i] /\ i \in 1..b
      BY <1>2, <1>4, <2>2
    <3> QED BY <3>1 DEF MessageIds
  <2>3. CASE ~(i <= b)
    <3>1. (MessageIds(b) \o cut)[i] = cut[i - b] /\ i - b \in 1..(e - b)
      BY <1>2, <1>4, <2>3
    <3>2. cut[i - b] = b + (i - b)
      BY <1>4, <3>1
    <3> QED BY <3>1, <3>2
  <2> QED BY <2>2, <2>3
<1>7. MessageIds(b) \o cut = [i \in 1..e |-> (MessageIds(b) \o cut)[i]]
  BY <1>5, SeqAsFunction
<1>8. MessageIds(b) \o cut = MessageIds(e)
  BY <1>6, <1>7 DEF MessageIds
<1> QED BY <1>1, <1>4, <1>8 DEF cut

\* The messages of a round come behind those of the rounds before.
LEMMA RoundMessagesFollow ==
  ASSUME IInv, NEW r \in 0..(num_interaction_rounds - 1)
  PROVE  /\ RoundMessages(r) \in Seq(Nat)
         /\ MessageIds(BeginOf(r, prover_messages_at_end)) \o RoundMessages(r)
              = MessageIds(EndOf(r, prover_messages_at_end))
<1>1. Len(prover_message_registrations) \in Nat
  BY DEF IInv, TypeOK
<1> QED BY <1>1, RoundBoundaries, MessageIdsCut DEF RoundMessages, MessagesOfRound

\* The messages that are squeezed when a round has ended are finite in number.
LEMMA SqueezedAfterType ==
  ASSUME IInv, NEW r \in 0..(num_interaction_rounds - 1)
  PROVE  /\ Cardinality(SqueezedAfter(r)) \in Nat
         /\ \A m \in SqueezedAfter(r) :
              /\ m - EndOf(r, random_messages_at_end) \in Nat
              /\ m \in RandomMessages
<1>1. num_interaction_rounds \in Nat /\ num_random_messages \in Nat
  BY DEF IInv, TypeOK
<1>2. CASE r = num_interaction_rounds - 1
  <2>1. SqueezedAfter(r) = {}
    BY <1>2 DEF SqueezedAfter
  <2> QED BY <2>1, FS_EmptySet
<1>3. CASE r # num_interaction_rounds - 1
  <2>1. r + 1 \in 0..(num_interaction_rounds - 1) /\ r \in Nat
    BY <1>1, <1>3
  <2>2. SqueezedAfter(r) = (BeginOf(r + 1, random_messages_at_end) + 1)
                             ..EndOf(r + 1, random_messages_at_end)
    BY <1>3 DEF SqueezedAfter, RoundEntries
  <2>3. /\ BeginOf(r + 1, random_messages_at_end) \in Nat
        /\ EndOf(r + 1, random_messages_at_end) \in Nat
        /\ EndOf(r + 1, random_messages_at_end) <= num_random_messages
        /\ BeginOf(r + 1, random_messages_at_end) = EndOf(r, random_messages_at_end)
    BY <2>1, RoundBoundaries
  <2>4. IsFiniteSet(SqueezedAfter(r))
    BY <2>2, <2>3, FS_Interval
  <2>5. Cardinality(SqueezedAfter(r)) \in Nat
    BY <2>4, FS_CardinalityType
  <2>6. \A m \in SqueezedAfter(r) : m - EndOf(r, random_messages_at_end) \in Nat
                                     /\ m \in 1..num_random_messages
    BY <1>1, <2>2, <2>3
  <2> QED BY <2>5, <2>6 DEF RandomMessages
<1> QED BY <1>2, <1>3

-----------------------------------------------------------------------------
(***************************************************************************)
(* The chain.                                                              *)
(***************************************************************************)

\* Absorbing roots and messages is part of the talk.
LEMMA AbsorbType ==
  ASSUME NEW kind \in {"root", "messages"}, NEW contents \in Seq(Nat)
  PROVE  Absorb(kind, contents) \in Talk
BY DEF Absorb, Talk, Items, Operations

\* A tree, two numbers, can be the contents of an item, as messages can.
LEMMA TreeIsContents == Trees \subseteq Seq(Nat)
<1>1. SUFFICES ASSUME NEW t \in Nat \X Nat PROVE t \in Seq(Nat)
  BY DEF Trees
<1>2. PICK r \in Nat, d \in Nat : t = <<r, d>>
  OBVIOUS
<1>3. <<r, d>> \in Seq(Nat)
  OBVIOUS
<1> QED BY <1>2, <1>3, Zenon

\* Squeezing is a sequence of items, and of talk when challenges are squeezed.
LEMMA SqueezesType ==
  ASSUME NEW kind \in {"challenge", "pow", "position"}, NEW n \in Nat
  PROVE  /\ Squeezes(kind, n) \in Seq(Items)
         /\ kind = "challenge" => Squeezes(kind, n) \in Seq(Talk)
         /\ Len(Squeezes(kind, n)) = n
<1>1. Squeeze(kind) \in Items
  BY DEF Squeeze, Items, Operations
<1>2. kind = "challenge" => Squeeze(kind) \in Talk
  BY <1>1 DEF Talk, Squeeze
<1> QED BY <1>1, <1>2 DEF Squeezes

\* The chain of a round has the roots, then the messages, then the challenges.
LEMMA RoundItemsType ==
  ASSUME IInv, NEW r \in 0..(num_interaction_rounds - 1)
  PROVE  /\ [i \in DOMAIN RoundTrees(r) |-> Absorb("root", RoundTrees(r)[i])] \in Seq(Talk)
         /\ <<Absorb("messages", RoundMessages(r))>> \in Seq(Talk)
         /\ Squeezes("challenge", Cardinality(SqueezedAfter(r))) \in Seq(Talk)
         /\ RoundItems(r) \in Seq(Talk)
         /\ RoundItems(r) # << >>
<1> DEFINE roots == [i \in DOMAIN RoundTrees(r) |-> Absorb("root", RoundTrees(r)[i])]
           messages == <<Absorb("messages", RoundMessages(r))>>
           squeezes == Squeezes("challenge", Cardinality(SqueezedAfter(r)))
<1>1. roots \in Seq(Talk)
  <2>1. domains \in Seq(DomainSizes) /\ r \in Nat
    BY RoundBoundaries DEF IInv, TypeOK
  <2>2. RoundTrees(r) \in Seq(Trees)
    BY <2>1, RoundTreesType
  <2>3. \A i \in DOMAIN RoundTrees(r) : RoundTrees(r)[i] \in Seq(Nat)
    BY <2>2, TreeIsContents
  <2>4. \A i \in DOMAIN RoundTrees(r) : Absorb("root", RoundTrees(r)[i]) \in Talk
    BY <2>3, AbsorbType
  <2>5. DOMAIN RoundTrees(r) = 1..Len(RoundTrees(r)) /\ Len(RoundTrees(r)) \in Nat
    BY <2>2
  <2> QED BY <2>4, <2>5
<1>2. messages \in Seq(Talk) /\ Len(messages) = 1
  <2>1. Absorb("messages", RoundMessages(r)) \in Talk
    BY RoundMessagesFollow, AbsorbType
  <2> QED BY <2>1
<1>3. squeezes \in Seq(Talk)
  BY SqueezedAfterType, SqueezesType
<1>4. RoundItems(r) = roots \o messages \o squeezes
  BY DEF RoundItems
<1> HIDE DEF roots, messages, squeezes
<1>5. roots \o messages \o squeezes \in Seq(Talk)
  BY <1>1, <1>2, <1>3, ConcatType
<1>6. Len(roots \o messages \o squeezes) = Len(roots) + 1 + Len(squeezes)
      /\ Len(roots) \in Nat /\ Len(squeezes) \in Nat
  <2>1. roots \o messages \in Seq(Talk) /\ Len(roots \o messages) = Len(roots) + Len(messages)
    BY <1>1, <1>2, ConcatType
  <2>2. Len(roots \o messages \o squeezes) = Len(roots \o messages) + Len(squeezes)
    BY <1>3, <2>1, ConcatType
  <2> QED BY <1>1, <1>2, <1>3, <2>1, <2>2
<1>7. RoundItems(r) # << >>
  BY <1>4, <1>6
<1> QED BY <1>1, <1>2, <1>3, <1>4, <1>5, <1>7 DEF roots, messages, squeezes

\* What is said grows by the items of a round.
LEMMA SaidGrows ==
  ASSUME IInv, NEW n \in 0..num_interaction_rounds
  PROVE  /\ Said(0) = << >>
         /\ Said(n) \in Seq(Talk)
         /\ n < num_interaction_rounds => Said(n + 1) = Said(n) \o RoundItems(n)
<1> DEFINE parts(k) == [i \in 1..k |-> RoundItems(i - 1)]
<1>1. num_interaction_rounds \in Nat
  BY DEF IInv, TypeOK
<1>2. ASSUME NEW k \in 0..num_interaction_rounds PROVE parts(k) \in Seq(Seq(Talk))
  <2>1. \A i \in 1..k : i - 1 \in 0..(num_interaction_rounds - 1) /\ k \in Nat
    BY <1>1, <1>2
  <2>2. \A i \in 1..k : RoundItems(i - 1) \in Seq(Talk)
    BY <2>1, RoundItemsType
  <2>3. k \in Nat
    BY <1>1
  <2> QED BY <2>2, <2>3
<1>3. Said(0) = << >>
  <2>1. parts(0) = << >>
    OBVIOUS
  <2> QED BY <2>1, FlattenEmpty DEF Said
<1>4. Said(n) \in Seq(Talk)
  <2>1. parts(n) \in Seq(Seq(Talk))
    BY <1>2
  <2> QED BY <2>1, FlattenType DEF Said
<1>5. ASSUME n < num_interaction_rounds PROVE Said(n + 1) = Said(n) \o RoundItems(n)
  <2>1. n \in Nat /\ n \in 0..(num_interaction_rounds - 1)
    BY <1>1, <1>5
  <2>2. parts(n + 1) = Append(parts(n), RoundItems(n))
    <3>1. parts(n) \in Seq(Seq(Talk)) /\ Len(parts(n)) = n
      BY <1>2, <2>1
    <3>2. (n + 1) - 1 = n
      BY <2>1
    <3> QED BY <2>1, <3>1, <3>2
  <2>3. RoundItems(n) \in Seq(Talk)
    BY <2>1, RoundItemsType
  <2>4. parts(n) \in Seq(Seq(Talk))
    BY <1>2
  <2> HIDE DEF parts
  <2>5. FlattenSeq(Append(parts(n), RoundItems(n))) = FlattenSeq(parts(n)) \o RoundItems(n)
    BY <2>3, <2>4, FlattenAppend
  <2> QED BY <2>2, <2>5, Zenon DEF Said, parts
<1> QED BY <1>3, <1>4, <1>5

\* The chain of round r's items is what run_hashchain_for_round makes of it.
LEMMA HashchainIsSaid ==
  ASSUME IInv, NEW r \in 0..(num_interaction_rounds - 1)
  PROVE  HashchainAfter(Said(r), r, RoundTrees(r), RoundMessages(r)) = Said(r + 1)
<1> DEFINE roots == [i \in DOMAIN RoundTrees(r) |-> Absorb("root", RoundTrees(r)[i])]
           messages == <<Absorb("messages", RoundMessages(r))>>
           squeezes == Squeezes("challenge", Cardinality(SqueezedAfter(r)))
<1>1. num_interaction_rounds \in Nat
  BY DEF IInv, TypeOK
<1>2. r \in 0..num_interaction_rounds /\ r < num_interaction_rounds
  BY <1>1
<1>3. Said(r) \in Seq(Talk) /\ Said(r + 1) = Said(r) \o RoundItems(r)
  BY <1>2, SaidGrows
<1>4. roots \in Seq(Talk) /\ messages \in Seq(Talk) /\ squeezes \in Seq(Talk)
  BY RoundItemsType
<1>5. HashchainAfter(Said(r), r, RoundTrees(r), RoundMessages(r))
        = ((Said(r) \o roots) \o messages) \o squeezes
  BY DEF HashchainAfter, Absorbed
<1>6. RoundItems(r) = (roots \o messages) \o squeezes
  BY DEF RoundItems
<1> HIDE DEF roots, messages, squeezes
<1>7. (Said(r) \o roots) \o messages = Said(r) \o (roots \o messages)
  BY <1>3, <1>4, ConcatAssociative, SMTT(25)
<1>8. (Said(r) \o (roots \o messages)) \o squeezes
        = Said(r) \o ((roots \o messages) \o squeezes)
  <2> DEFINE front == roots \o messages
  <2>1. front \in Seq(Talk)
    BY <1>4, ConcatType
  <2> HIDE DEF front
  <2>3. Said(r) \in Seq(Talk) /\ squeezes \in Seq(Talk)
    BY <1>3, <1>4
  <2>4. \A x, y, z \in Seq(Talk) : (x \o y) \o z = x \o (y \o z)
    BY ConcatAssociative
  <2>2. (Said(r) \o front) \o squeezes = Said(r) \o (front \o squeezes)
    BY <2>1, <2>3, <2>4, Zenon
  <2> QED BY <2>2 DEF front
<1> QED BY <1>3, <1>5, <1>6, <1>7, <1>8, Zenon

\* Talk consists of items.
LEMMA TalkAreItems == Talk \subseteq Items /\ Seq(Talk) \subseteq Seq(Items)
<1>1. Talk \subseteq Items
  BY DEF Talk
<1> QED BY <1>1

\* What one item adds to the absorbed roots and messages.
RootsOf(item) == IF item.op = "root" THEN <<item.of>> ELSE << >>
MessagesOf(item) == IF item.op = "messages" THEN item.of ELSE << >>
Contents == Seq(Nat)

\* An item adds at most one root, and messages.
LEMMA ItemsOf ==
  ASSUME NEW item \in Items
  PROVE  RootsOf(item) \in Seq(Contents) /\ MessagesOf(item) \in Seq(Nat)
<1>1. item.of \in Seq(Nat)
  BY DEF Items
<1>2. MessagesOf(item) \in Seq(Nat)
  BY <1>1 DEF MessagesOf
<1>3. RootsOf(item) \in Seq(Contents)
  <2>1. item.of \in Contents
    BY <1>1 DEF Contents
  <2>2. <<item.of>> \in Seq(Contents) /\ << >> \in Seq(Contents)
    BY <2>1
  <2> QED BY <2>2 DEF RootsOf
<1> QED BY <1>2, <1>3

\* The roots that two chains, one behind the other, have absorbed.
LEMMA AbsorbedRootsConcat ==
  ASSUME NEW c \in Seq(Items), NEW e \in Seq(Items)
  PROVE  /\ AbsorbedRoots(c) \in Seq(Contents)
         /\ AbsorbedRoots(c \o e) = AbsorbedRoots(c) \o AbsorbedRoots(e)
<1> DEFINE each(u) == [i \in DOMAIN u |-> RootsOf(u[i])]
<1>1. \A u \in Seq(Items) : each(u) \in Seq(Seq(Contents))
  <2>1. SUFFICES ASSUME NEW u \in Seq(Items) PROVE each(u) \in Seq(Seq(Contents))
    OBVIOUS
  <2>2. \A i \in DOMAIN u : RootsOf(u[i]) \in Seq(Contents)
    BY ItemsOf
  <2>3. DOMAIN u = 1..Len(u) /\ Len(u) \in Nat
    OBVIOUS
  <2> QED BY <2>2, <2>3
<1>2. each(c \o e) = each(c) \o each(e)
  BY SMTT(25)
<1>3. \A u : AbsorbedRoots(u) = FlattenSeq(each(u))
  BY Zenon DEF AbsorbedRoots, RootsOf
<1> HIDE DEF each
<1>4. FlattenSeq(each(c) \o each(e)) = FlattenSeq(each(c)) \o FlattenSeq(each(e))
  BY <1>1, FlattenConcat
<1>5. FlattenSeq(each(c)) \in Seq(Contents)
  BY <1>1, FlattenType
<1> QED BY <1>2, <1>3, <1>4, <1>5, Zenon

\* The messages that two chains, one behind the other, have absorbed.
LEMMA AbsorbedMessagesConcat ==
  ASSUME NEW c \in Seq(Items), NEW e \in Seq(Items)
  PROVE  /\ AbsorbedMessages(c) \in Seq(Nat)
         /\ AbsorbedMessages(c \o e) = AbsorbedMessages(c) \o AbsorbedMessages(e)
<1> DEFINE each(u) == [i \in DOMAIN u |-> MessagesOf(u[i])]
<1>1. \A u \in Seq(Items) : each(u) \in Seq(Seq(Nat))
  <2>1. SUFFICES ASSUME NEW u \in Seq(Items) PROVE each(u) \in Seq(Seq(Nat))
    OBVIOUS
  <2>2. \A i \in DOMAIN u : MessagesOf(u[i]) \in Seq(Nat)
    BY ItemsOf
  <2>3. DOMAIN u = 1..Len(u) /\ Len(u) \in Nat
    OBVIOUS
  <2> QED BY <2>2, <2>3
<1>2. each(c \o e) = each(c) \o each(e)
  BY SMTT(25)
<1>3. \A u : AbsorbedMessages(u) = FlattenSeq(each(u))
  BY Zenon DEF AbsorbedMessages, MessagesOf
<1> HIDE DEF each
<1>4. FlattenSeq(each(c) \o each(e)) = FlattenSeq(each(c)) \o FlattenSeq(each(e))
  BY <1>1, FlattenConcat
<1>5. FlattenSeq(each(c)) \in Seq(Nat)
  BY <1>1, FlattenType
<1> QED BY <1>2, <1>3, <1>4, <1>5, Zenon

\* A chain of other operations has absorbed nothing.
LEMMA AbsorbedNothing ==
  ASSUME NEW c \in Seq(Items)
  PROVE  /\ (\A i \in DOMAIN c : c[i].op # "root") => AbsorbedRoots(c) = << >>
         /\ (\A i \in DOMAIN c : c[i].op # "messages") => AbsorbedMessages(c) = << >>
<1>1. DOMAIN c = 1..Len(c) /\ Len(c) \in Nat
  OBVIOUS
<1>2. FlattenSeq([i \in 1..Len(c) |-> << >>]) = << >>
  BY <1>1, FlattenEmpties
<1>3. ASSUME \A i \in DOMAIN c : c[i].op # "root" PROVE AbsorbedRoots(c) = << >>
  <2>1. [i \in DOMAIN c |-> IF c[i].op = "root" THEN <<c[i].of>> ELSE << >>]
          = [i \in 1..Len(c) |-> << >>]
    BY <1>1, <1>3
  <2> QED BY <1>2, <2>1, Zenon DEF AbsorbedRoots
<1>4. ASSUME \A i \in DOMAIN c : c[i].op # "messages" PROVE AbsorbedMessages(c) = << >>
  <2>1. [i \in DOMAIN c |-> IF c[i].op = "messages" THEN c[i].of ELSE << >>]
          = [i \in 1..Len(c) |-> << >>]
    BY <1>1, <1>4
  <2> QED BY <1>2, <2>1, Zenon DEF AbsorbedMessages
<1> QED BY <1>3, <1>4

\* What a round has absorbed before its challenges are squeezed.
LEMMA RoundAbsorbs ==
  ASSUME IInv, NEW r \in 0..(num_interaction_rounds - 1), NEW c \in Seq(Items)
  PROVE  /\ Absorbed(c, RoundTrees(r), RoundMessages(r)) \in Seq(Items)
         /\ AbsorbedRoots(Absorbed(c, RoundTrees(r), RoundMessages(r)))
              = AbsorbedRoots(c) \o RoundTrees(r)
         /\ AbsorbedMessages(Absorbed(c, RoundTrees(r), RoundMessages(r)))
              = AbsorbedMessages(c) \o RoundMessages(r)
<1> DEFINE T == RoundTrees(r)
           M == RoundMessages(r)
           roots == [i \in DOMAIN T |-> Absorb("root", T[i])]
           messages == <<Absorb("messages", M)>>
<1>1. Absorbed(c, T, M) = (c \o roots) \o messages
  BY DEF Absorbed
<1>2. roots \in Seq(Items) /\ messages \in Seq(Items)
  <2>1. roots \in Seq(Talk) /\ messages \in Seq(Talk)
    BY RoundItemsType
  <2> QED BY <2>1, TalkAreItems
<1>3. T \in Seq(Trees) /\ DOMAIN T = 1..Len(T) /\ Len(T) \in Nat
  <2>1. domains \in Seq(DomainSizes) /\ r \in Nat
    BY RoundBoundaries DEF IInv, TypeOK
  <2>2. T \in Seq(Trees)
    BY <2>1, RoundTreesType
  <2> QED BY <2>2
<1>4. M \in Seq(Nat)
  BY RoundMessagesFollow
<1>5. \A i \in DOMAIN roots : roots[i].op = "root" /\ roots[i].of = T[i]
  BY DEF Absorb
<1>6. messages[1].op = "messages" /\ messages[1].of = M /\ DOMAIN messages = {1}
      /\ messages = [i \in 1..1 |-> messages[1]]
  BY DEF Absorb
<1>7. DOMAIN roots = DOMAIN T
  OBVIOUS
<1> HIDE DEF T, M, roots, messages
<1>8. AbsorbedRoots(roots) = T
  <2>1. [i \in DOMAIN roots |-> IF roots[i].op = "root" THEN <<roots[i].of>> ELSE << >>]
          = [i \in DOMAIN T |-> <<T[i]>>]
    BY <1>5, <1>7
  <2>2. FlattenSeq([i \in DOMAIN T |-> <<T[i]>>]) = T
    BY <1>3, FlattenSingletons
  <2> QED BY <2>1, <2>2, Zenon DEF AbsorbedRoots
<1>9. AbsorbedMessages(roots) = << >>
  <2>1. \A i \in DOMAIN roots : roots[i].op # "messages"
    BY <1>5
  <2> QED BY <1>2, <2>1, AbsorbedNothing
<1>10. AbsorbedRoots(messages) = << >>
  <2>1. \A i \in DOMAIN messages : messages[i].op # "root"
    BY <1>6
  <2> QED BY <1>2, <2>1, AbsorbedNothing
<1>11. AbsorbedMessages(messages) = M
  <2>1. [i \in DOMAIN messages |-> IF messages[i].op = "messages" THEN messages[i].of ELSE << >>]
          = Append(<< >>, M)
    BY <1>6
  <2>2. FlattenSeq(Append(<< >>, M)) = FlattenSeq(<< >>) \o M
    <3>1. << >> \in Seq(Seq(Nat))
      OBVIOUS
    <3> QED BY <1>4, <3>1, FlattenAppend
  <2>3. << >> \o M = M
    BY <1>4, ConcatEmpty
  <2> QED BY <2>1, <2>2, <2>3, FlattenEmpty, Zenon DEF AbsorbedMessages
<1>12. c \o roots \in Seq(Items)
  BY <1>2, ConcatType
<1>13. AbsorbedRoots(Absorbed(c, T, M)) = AbsorbedRoots(c) \o T
  <2>1. AbsorbedRoots((c \o roots) \o messages)
          = (AbsorbedRoots(c) \o AbsorbedRoots(roots)) \o << >>
    BY <1>2, <1>10, <1>12, AbsorbedRootsConcat, Zenon
  <2>2. AbsorbedRoots(c \o roots) \in Seq(Contents)
    BY <1>2, <1>12, AbsorbedRootsConcat
  <2>3. AbsorbedRoots(c \o roots) \o << >> = AbsorbedRoots(c \o roots)
    BY <2>2, ConcatEmpty
  <2>4. AbsorbedRoots(c \o roots) = AbsorbedRoots(c) \o AbsorbedRoots(roots)
    BY <1>2, AbsorbedRootsConcat
  <2> QED BY <1>1, <1>8, <2>1, <2>3, <2>4, Zenon
<1>14. AbsorbedMessages(Absorbed(c, T, M)) = AbsorbedMessages(c) \o M
  <2>1. AbsorbedMessages((c \o roots) \o messages) = AbsorbedMessages(c \o roots) \o M
    BY <1>2, <1>11, <1>12, AbsorbedMessagesConcat, Zenon
  <2>2. AbsorbedMessages(c \o roots) = AbsorbedMessages(c) \o << >>
    BY <1>2, <1>9, AbsorbedMessagesConcat, Zenon
  <2>3. AbsorbedMessages(c) \in Seq(Nat)
    BY <1>2, AbsorbedMessagesConcat
  <2>4. AbsorbedMessages(c) \o << >> = AbsorbedMessages(c)
    BY <2>3, ConcatEmpty
  <2> QED BY <1>1, <2>1, <2>2, <2>4, Zenon
<1>15. Absorbed(c, T, M) \in Seq(Items)
  BY <1>1, <1>2, <1>12, ConcatType
<1> QED BY <1>13, <1>14, <1>15 DEF T, M

\* Squeezing absorbs nothing.
LEMMA SqueezesAbsorbNothing ==
  ASSUME NEW c \in Seq(Items), NEW kind \in {"challenge", "pow", "position"}, NEW n \in Nat
  PROVE  /\ c \o Squeezes(kind, n) \in Seq(Items)
         /\ AbsorbedRoots(c \o Squeezes(kind, n)) = AbsorbedRoots(c)
         /\ AbsorbedMessages(c \o Squeezes(kind, n)) = AbsorbedMessages(c)
<1> DEFINE s == Squeezes(kind, n)
<1>1. s \in Seq(Items)
  BY SqueezesType
<1>2. \A i \in DOMAIN s : s[i].op # "root" /\ s[i].op # "messages"
  BY DEF Squeezes, Squeeze
<1> HIDE DEF s
<1>3. AbsorbedRoots(s) = << >> /\ AbsorbedMessages(s) = << >>
  BY <1>1, <1>2, AbsorbedNothing
<1>4. AbsorbedRoots(c \o s) = AbsorbedRoots(c) \o << >>
  BY <1>1, <1>3, AbsorbedRootsConcat, Zenon
<1>5. AbsorbedMessages(c \o s) = AbsorbedMessages(c) \o << >>
  BY <1>1, <1>3, AbsorbedMessagesConcat, Zenon
<1>6. AbsorbedRoots(c) \in Seq(Contents) /\ AbsorbedMessages(c) \in Seq(Nat)
  BY AbsorbedRootsConcat, AbsorbedMessagesConcat
<1>7. AbsorbedRoots(c) \o << >> = AbsorbedRoots(c)
      /\ AbsorbedMessages(c) \o << >> = AbsorbedMessages(c)
  BY <1>6, ConcatEmpty
<1>8. c \o s \in Seq(Items)
  BY <1>1, ConcatType
<1> QED BY <1>4, <1>5, <1>7, <1>8, Zenon DEF s

\* What is said has absorbed the trees and the messages of its rounds.
LEMMA SaidAbsorbs ==
  ASSUME IInv, NEW n \in 0..num_interaction_rounds
  PROVE  /\ Said(n) \in Seq(Items)
         /\ AbsorbedRoots(Said(n)) = Built(n)
         /\ AbsorbedMessages(Said(n)) = MessageIds(BeginOf(n, prover_messages_at_end))
<1> DEFINE holds(k) ==
             /\ AbsorbedRoots(Said(k)) = Built(k)
             /\ AbsorbedMessages(Said(k)) = MessageIds(BeginOf(k, prover_messages_at_end))
           N == {k \in Nat : k \in 0..num_interaction_rounds => holds(k)}
<1>1. num_interaction_rounds \in Nat /\ domains \in Seq(DomainSizes)
  BY DEF IInv, TypeOK
<1>2. 0 \in N
  <2>1. Said(0) = << >> /\ Built(0) = << >>
    BY <1>1, SaidGrows, BuiltGrows
  <2>2. << >> \in Seq(Items) /\ DOMAIN << >> = {}
    OBVIOUS
  <2>3. AbsorbedRoots(<< >>) = << >> /\ AbsorbedMessages(<< >>) = << >>
    BY <2>2, AbsorbedNothing
  <2>4. MessageIds(BeginOf(0, prover_messages_at_end)) = << >>
    BY DEF MessageIds, BeginOf
  <2>5. holds(0)
    BY <2>1, <2>3, <2>4, Zenon
  <2> HIDE DEF holds
  <2> QED BY <2>5
<1>3. ASSUME NEW k \in Nat, k \in N PROVE k + 1 \in N
  <2>1. SUFFICES ASSUME k + 1 \in 0..num_interaction_rounds PROVE holds(k + 1)
    <3> HIDE DEF holds
    <3> QED OBVIOUS
  <2>2. k \in 0..(num_interaction_rounds - 1) /\ k \in 0..num_interaction_rounds
        /\ k < num_interaction_rounds
    BY <1>1, <2>1
  <2>3. holds(k)
    BY <1>3, <2>2
  <2>4. Said(k + 1) = Absorbed(Said(k), RoundTrees(k), RoundMessages(k))
                        \o Squeezes("challenge", Cardinality(SqueezedAfter(k)))
    BY <2>2, HashchainIsSaid DEF HashchainAfter
  <2>5. Said(k) \in Seq(Items)
    BY <2>2, SaidGrows, TalkAreItems
  <2> DEFINE a == Absorbed(Said(k), RoundTrees(k), RoundMessages(k))
             z == Cardinality(SqueezedAfter(k))
  <2>6. /\ a \in Seq(Items)
        /\ AbsorbedRoots(a) = AbsorbedRoots(Said(k)) \o RoundTrees(k)
        /\ AbsorbedMessages(a) = AbsorbedMessages(Said(k)) \o RoundMessages(k)
    BY <2>2, <2>5, RoundAbsorbs
  <2>7. z \in Nat
    BY <2>2, SqueezedAfterType
  <2> HIDE DEF a, z
  <2>8. /\ AbsorbedRoots(a \o Squeezes("challenge", z)) = AbsorbedRoots(a)
        /\ AbsorbedMessages(a \o Squeezes("challenge", z)) = AbsorbedMessages(a)
    BY <2>6, <2>7, SqueezesAbsorbNothing
  <2>9. Built(k + 1) = Built(k) \o RoundTrees(k)
    BY <1>1, BuiltGrows
  <2>10. MessageIds(BeginOf(k, prover_messages_at_end)) \o RoundMessages(k)
           = MessageIds(EndOf(k, prover_messages_at_end))
    BY <2>2, RoundMessagesFollow
  <2>11. BeginOf(k + 1, prover_messages_at_end) = EndOf(k, prover_messages_at_end)
    BY <2>2, RoundBoundaries
  <2> QED BY <2>3, <2>4, <2>6, <2>8, <2>9, <2>10, <2>11, Zenon DEF a, z
<1> HIDE DEF N
<1>4. n \in N /\ n \in 0..num_interaction_rounds
  <2>1. n \in Nat
    BY <1>1
  <2> QED BY <1>2, <1>3, <2>1, NatSetInduction
<1>5. holds(n)
  BY <1>4 DEF N
<1>6. Said(n) \in Seq(Items)
  BY SaidGrows, TalkAreItems
<1> QED BY <1>5, <1>6

\* The conversation of a chain is its part before the proof of work.
LEMMA ConversationOfTalk ==
  ASSUME NEW c \in Seq(Talk)
  PROVE  Conversation(c) = c
<1> DEFINE said == {i \in DOMAIN c : \A j \in 1..i :
                      c[j].op \in {"root", "messages", "challenge"}}
<1>1. Len(c) \in Nat /\ DOMAIN c = 1..Len(c)
  OBVIOUS
<1>2. \A j \in 1..Len(c) : c[j].op \in {"root", "messages", "challenge"}
  BY <1>1 DEF Talk
<1>3. said = 1..Len(c)
  BY <1>1, <1>2
<1>4. Cardinality(1..Len(c)) = Len(c)
  BY <1>1, FS_Interval, SMTT(25)
<1>5. SubSeq(c, 1, Len(c)) = c
  BY <1>1
<1>6. Conversation(c) = SubSeq(c, 1, Cardinality(said))
  BY Zenon DEF Conversation
<1> HIDE DEF said
<1> QED BY <1>3, <1>4, <1>5, <1>6, Zenon

\* What follows the proof of work is not part of the conversation.
LEMMA ConversationStops ==
  ASSUME NEW c \in Seq(Talk), NEW e \in Seq(Items)
  PROVE  Conversation(Append(c, Squeeze("pow")) \o e) = c
<1> DEFINE whole == Append(c, Squeeze("pow")) \o e
           said == {i \in DOMAIN whole : \A j \in 1..i :
                      whole[j].op \in {"root", "messages", "challenge"}}
<1>1. Len(c) \in Nat /\ DOMAIN c = 1..Len(c) /\ c \in Seq(Items)
  BY TalkAreItems
<1>2. Squeeze("pow") \in Items /\ Squeeze("pow").op = "pow"
  BY DEF Squeeze, Items, Operations
<1>3. Append(c, Squeeze("pow")) \in Seq(Items)
      /\ Len(Append(c, Squeeze("pow"))) = Len(c) + 1
      /\ Append(c, Squeeze("pow"))[Len(c) + 1] = Squeeze("pow")
      /\ \A j \in 1..Len(c) : Append(c, Squeeze("pow"))[j] = c[j]
  BY <1>1, <1>2
<1>4. /\ whole \in Seq(Items) /\ Len(whole) = Len(c) + 1 + Len(e) /\ Len(e) \in Nat
      /\ \A i \in 1..(Len(c) + 1) : whole[i] = Append(c, Squeeze("pow"))[i]
  <2> DEFINE front == Append(c, Squeeze("pow"))
  <2>1. front \in Seq(Items) /\ Len(front) = Len(c) + 1
    BY <1>3
  <2> HIDE DEF front
  <2>2. /\ front \o e \in Seq(Items) /\ Len(front \o e) = Len(front) + Len(e)
        /\ \A i \in 1..Len(front) : (front \o e)[i] = front[i]
    BY <2>1, ConcatType
  <2> QED BY <2>1, <2>2 DEF front
<1> HIDE DEF whole
<1>5. whole[Len(c) + 1].op = "pow"
  BY <1>1, <1>2, <1>3, <1>4
<1>6. \A j \in 1..Len(c) : whole[j] = c[j] /\ c[j].op \in {"root", "messages", "challenge"}
  BY <1>1, <1>3, <1>4 DEF Talk
<1>7. said = 1..Len(c)
  <2>1. DOMAIN whole = 1..(Len(c) + 1 + Len(e))
    BY <1>4
  <2>2. ASSUME NEW i \in said PROVE i \in 1..Len(c)
    <3>1. i \in 1..(Len(c) + 1 + Len(e))
          /\ \A j \in 1..i : whole[j].op \in {"root", "messages", "challenge"}
      BY <2>1, <2>2
    <3>2. ~(Len(c) + 1 \in 1..i)
      BY <1>5, <3>1
    <3> QED BY <1>1, <1>4, <3>1, <3>2
  <2>3. ASSUME NEW i \in 1..Len(c) PROVE i \in said
    <3>1. i \in 1..(Len(c) + 1 + Len(e)) /\ \A j \in 1..i : j \in 1..Len(c)
      BY <1>1, <1>4
    <3> QED BY <1>6, <2>1, <3>1
  <2> HIDE DEF said
  <2> QED BY <2>2, <2>3
<1>8. Cardinality(1..Len(c)) = Len(c)
  <2>1. \A n \in Nat : Cardinality(1..n) = n
    BY FS_Interval
  <2>2. Len(c) \in Nat
    BY <1>1
  <2> QED BY <2>1, <2>2, Zenon
<1>9. SubSeq(whole, 1, Len(c)) = c
  <2>1. SubSeq(whole, 1, Len(c)) \in Seq(Items) /\ Len(SubSeq(whole, 1, Len(c))) = Len(c)
        /\ \A i \in 1..Len(c) : SubSeq(whole, 1, Len(c))[i] = whole[i]
    BY <1>1, <1>4
  <2>2. SubSeq(whole, 1, Len(c)) = [i \in 1..Len(c) |-> SubSeq(whole, 1, Len(c))[i]]
    BY <2>1, SeqAsFunction
  <2>3. c = [i \in 1..Len(c) |-> c[i]]
    BY SeqAsFunction
  <2> QED BY <1>6, <2>1, <2>2, <2>3
<1>10. Conversation(whole) = SubSeq(whole, 1, Cardinality(said))
  BY Zenon DEF Conversation
<1> HIDE DEF said
<1> QED BY <1>7, <1>8, <1>9, <1>10, Zenon DEF whole

\* A sequence is a strict prefix of any longer one that goes on from it.
LEMMA GoesOn ==
  ASSUME NEW c \in Seq(Items), NEW e \in Seq(Items), e # << >>
  PROVE  IsStrictPrefix(c, c \o e)
<1>1. /\ Len(c) \in Nat /\ Len(e) \in Nat /\ Len(e) # 0
  OBVIOUS
<1>2. /\ c \o e \in Seq(Items) /\ Len(c \o e) = Len(c) + Len(e)
      /\ \A i \in 1..Len(c) : (c \o e)[i] = c[i]
  BY ConcatType
<1>3. SubSeq(c \o e, 1, Len(c)) = SubSeq(c, 1, Len(c))
  BY <1>1, <1>2
<1>4. c \o e # c
  BY <1>1, <1>2
<1>5. Len(c) <= Len(c \o e)
  BY <1>1, <1>2
<1> QED BY <1>3, <1>4, <1>5 DEF IsStrictPrefix, IsPrefix

-----------------------------------------------------------------------------
(***************************************************************************)
(* Entries and positions.                                                  *)
(***************************************************************************)

\* A finite set of positive numbers that has with a number all before it is the
\* interval up to its size.
LEMMA InitialSegment ==
  ASSUME NEW P, IsFiniteSet(P), P \subseteq Nat \ {0},
         \A p \in P : p > 1 => p - 1 \in P
  PROVE  P = 1..Cardinality(P) /\ Cardinality(P) \in Nat
<1>1. CASE P = {}
  <2>1. Cardinality(P) = 0
    BY <1>1, FS_EmptySet
  <2> QED BY <1>1, <2>1
<1>2. CASE P # {}
  <2>1. PICK top \in P : \A p \in P : p <= top
    <3>1. P \subseteq Int
      OBVIOUS
    <3> QED BY <1>2, <3>1, MinMaxExist
  <2> DEFINE N == {n \in Nat : n < top => top - n \in P}
  <2>2. top \in Nat \ {0}
    OBVIOUS
  <2>3. 0 \in N
    BY <2>2
  <2>4. ASSUME NEW n \in Nat, n \in N PROVE n + 1 \in N
    <3>1. SUFFICES ASSUME n + 1 < top PROVE top - (n + 1) \in P
      OBVIOUS
    <3>2. top - n \in P /\ top - n > 1 /\ (top - n) - 1 = top - (n + 1)
      BY <2>2, <2>4, <3>1
    <3> QED BY <3>2
  <2> HIDE DEF N
  <2>5. Nat \subseteq N
    BY <2>3, <2>4, NatSetInduction
  <2>6. ASSUME NEW p \in 1..top PROVE p \in P
    <3>1. top - p \in Nat /\ top - p < top /\ top - (top - p) = p
      BY <2>2
    <3>2. top - p \in N
      BY <2>5, <3>1
    <3> QED BY <3>1, <3>2 DEF N
  <2>9. \A p \in P : p \in 1..top
    BY <2>1, <2>2
  <2>10. \A p \in 1..top : p \in P
    BY <2>6
  <2>7. P = 1..top
    BY <2>9, <2>10, Zenon
  <2>8. Cardinality(1..top) = top
    BY <2>2, FS_Interval
  <2> QED BY <2>2, <2>7, <2>8
<1> QED BY <1>1, <1>2

-----------------------------------------------------------------------------
(***************************************************************************)
(* The programs.                                                           *)
(***************************************************************************)
\* What SealBcs closes: nothing is registered behind the last boundaries, there
\* is one tree to a round that is proved, and a proof of work is registered.
DescriptionInv ==
  /\ \A o \in Oracles : oracle_registrations[o].domain \in DOMAIN domains
  /\ registration_state # "interactive" =>
       /\ oracles_at_end[num_interaction_rounds] = Len(oracle_registrations)
       /\ prover_messages_at_end[num_interaction_rounds]
            = Len(prover_message_registrations)
       /\ is_holographic => num_interaction_rounds >= 3 /\ index # None
       /\ \A r \in 0..(num_interaction_rounds - 1) :
            (is_holographic /\ r = 0) \/ Len(RoundTrees(r)) <= 1
       /\ pow_registered

\* The index is round 0, oracle by oracle.
IndexInv ==
  index # None =>
    /\ is_holographic
    /\ num_interaction_rounds >= 1
    /\ index.trees = RoundTrees(0)
    /\ \A o \in 1..oracles_at_end[1] : index.oracles[o] = o
    /\ index.messages = MessageIds(prover_messages_at_end[1])
    /\ index.verifier_messages = MessageIds(prover_messages_at_end[1])

\* Positions are registered from 1 on, none left out.
QueryInv ==
  /\ registration_state = "interactive" => queries = << >>
  /\ queries \in Seq([oracle : Nat, position : Nat])
  /\ \A i \in DOMAIN queries :
       /\ queries[i].oracle \in 1..oracles_at_end[num_interaction_rounds]
       /\ queries[i].position # 0
       /\ queries[i].position > 1 =>
            \E j \in 1..(i - 1) : queries[j].position = queries[i].position - 1

\* An oracle is submitted as itself; round 0 of a holographic protocol as a whole.
ContentsInv ==
  /\ DOMAIN oracle_contents = oracles_present
  /\ \A o \in oracles_present : oracle_contents[o] = o
  /\ is_holographic /\ num_prover_rounds_done = 0 =>
       oracles_present = {} /\ prover_messages_present = {}

\* The trees, those of the index and of the finished rounds built.
TreesInv ==
  /\ prover_stopped = FALSE
  /\ pow_registered \in BOOLEAN
  /\ processed_MTs = Len(Built(num_prover_rounds_done))
  /\ registration_state = "interactive" => Merkle_trees = << >>
  /\ registration_state # "interactive" =>
       Merkle_trees = [i \in DOMAIN AllTrees |->
         IF i <= processed_MTs \/ (is_holographic /\ AllTrees[i][1] = 0)
         THEN AllTrees[i] ELSE Unbuilt]

\* The prover's chain is what the finished rounds have said.
Ended == registration_state = "done" /\ num_prover_rounds_done = num_interaction_rounds
ChainInv ==
  IF Ended
  THEN /\ pow_answer = Said(num_interaction_rounds)
       /\ hashchain = Sealed(IF transcript = None THEN 0 ELSE NumPositions)
  ELSE /\ pow_answer = << >>
       /\ hashchain = Said(num_prover_rounds_done)
       /\ transcript = None

\* The challenge that is squeezed as message m after round r.
TheChallenge(m, r) == ChallengeOf(m, Said(r), r, RoundTrees(r), RoundMessages(r))
ChallengesInv ==
  /\ registration_state # "done" => DOMAIN challenges = {}
  /\ \A m \in DOMAIN challenges :
       \/ /\ num_interaction_rounds >= 1
          /\ m \in RoundEntries(0, random_messages_at_end)
          /\ m \in RandomMessages
          /\ challenges[m] = << >>
       \/ \E r \in 0..(num_prover_rounds_done - 1) : m \in SqueezedAfter(r)
  /\ \A r \in 0..(num_prover_rounds_done - 1) : \A m \in SqueezedAfter(r) :
       m \in DOMAIN challenges /\ challenges[m] = TheChallenge(m, r)

\* The transcript, with the index in front of it, is the whole protocol.
TheOpening(t) ==
  [positions |-> {PositionFrom(Sealed(0), queries[i].position) :
                    i \in {j \in DOMAIN queries : queries[j].oracle \in OraclesOfTree(t)}},
   columns |-> [o \in OraclesOfTree(t) |-> o]]
TranscriptInv ==
  transcript # None =>
    /\ VerifierRoots = AllTrees
    /\ VerifierMessages = MessageIds(Len(prover_message_registrations))
    /\ transcript.proof_of_work = Said(num_interaction_rounds)
    /\ transcript.openings = [i \in DOMAIN AllTrees |-> TheOpening(AllTrees[i])]

\* The verifier has replayed the prover's chain.
KnownPositions(n) == Cardinality({queries[i].position : i \in 1..n})
VerifierInv ==
  IF verdict = "none"
  THEN /\ verifier_hashchain = << >>
       /\ verifier_challenges = << >>
       /\ transcript_is_valid = FALSE
       /\ num_answered = 0
  ELSE /\ verdict \in {"sealed", "accepted"}
       /\ transcript # None
       /\ transcript_is_valid = TRUE
       /\ num_answered \in 0..Len(queries)
       /\ verifier_hashchain = Sealed(KnownPositions(num_answered))
       /\ DOMAIN verifier_challenges
            = UNION {SqueezedAfter(r) : r \in 0..(num_interaction_rounds - 1)}
       /\ \A r \in 0..(num_interaction_rounds - 1) : \A m \in SqueezedAfter(r) :
            verifier_challenges[m] = TheChallenge(m, r)

BcsInv ==
  /\ IInv
  /\ DescriptionInv
  /\ IndexInv
  /\ QueryInv
  /\ ContentsInv
  /\ TreesInv
  /\ ChainInv
  /\ ChallengesInv
  /\ TranscriptInv
  /\ VerifierInv

-----------------------------------------------------------------------------
(***************************************************************************)
(* Lemmas about the description.                                           *)
(***************************************************************************)

\* A sealed description stays, and with it all that is defined by it.
LEMMA SealedStays ==
  ASSUME UNCHANGED <<roundVars, registrationVars>>
  PROVE  /\ \A n : Built(n)' = Built(n)
         /\ AllTrees' = AllTrees
         /\ \A r : RoundTrees(r)' = RoundTrees(r)
         /\ \A r : RoundMessages(r)' = RoundMessages(r)
         /\ \A r : SqueezedAfter(r)' = SqueezedAfter(r)
         /\ \A t : OraclesOfTree(t)' = OraclesOfTree(t)
         /\ \A n : Said(n)' = Said(n)
         /\ \A n : Sealed(n)' = Sealed(n)
         /\ \A m, r : TheChallenge(m, r)' = TheChallenge(m, r)
<1> USE DEF roundVars, registrationVars
<1>1. \A r, e : TreesOfRound(r, e)' = TreesOfRound(r, e)
  BY DEF TreesOfRound
<1>2. \A n : Built(n)' = Built(n)
  BY DEF Built, TreesOfRounds, TreesOfRound
<1>3. AllTrees' = AllTrees
  BY DEF AllTrees, TreesOfRounds, TreesOfRound
<1>4. \A r : RoundTrees(r)' = RoundTrees(r)
  BY DEF RoundTrees, TreesOfRound
<1>5. \A r : RoundMessages(r)' = RoundMessages(r)
  BY DEF RoundMessages, MessagesOfRound, MessageIds, BeginOf, EndOf
<1>6. \A r : SqueezedAfter(r)' = SqueezedAfter(r)
  BY DEF SqueezedAfter, RoundEntries, BeginOf, EndOf
<1>7. \A t : OraclesOfTree(t)' = OraclesOfTree(t)
  BY DEF OraclesOfTree, RoundEntries, BeginOf, EndOf
<1>8. \A r : RoundItems(r)' = RoundItems(r)
  BY <1>4, <1>5, <1>6, Zenon DEF RoundItems
<1>9. \A n : Said(n)' = Said(n)
  BY <1>8, Zenon DEF Said
<1>10. \A n : Sealed(n)' = Sealed(n)
  BY <1>9, Zenon DEF Sealed
<1>11. \A m, r : TheChallenge(m, r)' = TheChallenge(m, r)
  BY <1>9, <1>4, <1>5, Zenon DEF TheChallenge, ChallengeOf, EndOf
<1> QED BY <1>2, <1>3, <1>4, <1>5, <1>6, <1>7, <1>9, <1>10, <1>11, Zenon

\* At the start nothing is described.
LEMMA InitBcsInv == BcsInit => BcsInv
<1> SUFFICES ASSUME BcsInit PROVE BcsInv
  OBVIOUS
<1> USE DEF BcsInit
<1>1. IInv
  BY InitEstablishes
<1>2. /\ domains = << >> /\ oracle_registrations = << >>
      /\ registration_state = "interactive" /\ num_interaction_rounds = 0
      /\ oracles_present = {} /\ prover_messages_present = {}
      /\ num_prover_rounds_done = 0
  BY DEF Init
<1>3. Built(0) = << >> /\ Said(0) = << >>
  <2>1. domains \in Seq(DomainSizes) /\ 0 \in Nat /\ 0 \in 0..num_interaction_rounds
    BY <1>2
  <2> QED BY <1>1, <2>1, BuiltGrows, SaidGrows
<1>4. DescriptionInv
  BY <1>2 DEF DescriptionInv, Oracles
<1>5. IndexInv /\ QueryInv /\ ContentsInv
  BY <1>2 DEF IndexInv, QueryInv, ContentsInv
<1>6. TreesInv
  BY <1>2, <1>3 DEF TreesInv
<1>7. ChainInv
  BY <1>2, <1>3 DEF ChainInv, Ended
<1>8. ChallengesInv
  BY <1>2 DEF ChallengesInv
<1>9. TranscriptInv /\ VerifierInv
  BY DEF TranscriptInv, VerifierInv
<1> QED BY <1>1, <1>4, <1>5, <1>6, <1>7, <1>8, <1>9 DEF BcsInv

\* Before the description is sealed, nothing is run.
LEMMA NothingIsRun ==
  ASSUME BcsInv, registration_state # "done"
  PROVE  /\ oracles_present = {} /\ prover_messages_present = {}
         /\ num_prover_rounds_done = 0
         /\ processed_MTs = 0
         /\ hashchain = << >> /\ pow_answer = << >>
         /\ transcript = None /\ verdict = "none"
         /\ DOMAIN challenges = {}
<1>1. oracles_present = {} /\ prover_messages_present = {} /\ num_prover_rounds_done = 0
  BY DEF BcsInv, IInv, SealedState
<1>2. Built(0) = << >> /\ Said(0) = << >>
  <2>1. domains \in Seq(DomainSizes) /\ 0 \in Nat /\ 0 \in 0..num_interaction_rounds
    BY DEF BcsInv, IInv, TypeOK
  <2> QED BY <2>1, BuiltGrows, SaidGrows DEF BcsInv
<1>3. processed_MTs = 0
  BY <1>1, <1>2 DEF BcsInv, TreesInv
<1>4. hashchain = << >> /\ pow_answer = << >> /\ transcript = None
  BY <1>1, <1>2 DEF BcsInv, ChainInv, Ended
<1>5. verdict = "none"
  BY <1>4 DEF BcsInv, VerifierInv
<1>6. DOMAIN challenges = {}
  BY DEF BcsInv, ChallengesInv
<1> QED BY <1>1, <1>3, <1>4, <1>5, <1>6

\* In any state nothing is built and nothing said in no rounds.
LEMMA NothingInNoRounds ==
  Built(0) = << >> /\ Said(0) = << >>
<1>1. TreesOfRounds(0, 0 - 1, oracles_at_end) = << >>
  BY NoRounds
<1>2. [i \in 1..0 |-> RoundItems(i - 1)] = << >>
  OBVIOUS
<1> QED BY <1>1, <1>2, FlattenEmpty, Zenon DEF Built, Said

\* All trees are those of all rounds.
LEMMA AllTreesType ==
  TypeOK => /\ AllTrees = Built(num_interaction_rounds)
            /\ AllTrees \in Seq(Trees)
            /\ DOMAIN AllTrees \subseteq Nat \ {0}
<1> SUFFICES ASSUME TypeOK
             PROVE  /\ AllTrees = Built(num_interaction_rounds)
                    /\ AllTrees \in Seq(Trees)
                    /\ DOMAIN AllTrees \subseteq Nat \ {0}
  OBVIOUS
<1>1. domains \in Seq(DomainSizes) /\ num_interaction_rounds \in Nat
  BY DEF TypeOK
<1>2. Built(num_interaction_rounds) \in Seq(Trees)
  BY <1>1, BuiltType
<1>3. AllTrees = Built(num_interaction_rounds)
  BY DEF AllTrees, Built
<1> QED BY <1>2, <1>3

\* While nothing is run, the invariant says only how the description, the index,
\* the queries and the trees are.
LEMMA DescribingKeeps ==
  ASSUME BcsInv, registration_state # "done",
         UNCHANGED <<runVars, oracle_contents, processed_MTs, hashchain, challenges,
                     pow_answer, prover_stopped, transcript, verifierVars>>,
         registration_state' = "done" => registration_state = "query",
         IInv', DescriptionInv', IndexInv', QueryInv',
         pow_registered' \in BOOLEAN,
         registration_state' = "interactive" => Merkle_trees' = << >>,
         registration_state' # "interactive" =>
           Merkle_trees' = [i \in DOMAIN AllTrees' |->
             IF is_holographic' /\ AllTrees'[i][1] = 0 THEN AllTrees'[i] ELSE Unbuilt]
  PROVE  BcsInv'
<1> USE DEF runVars, verifierVars
<1>1. (Built(0) = << >> /\ Said(0) = << >>)'
  BY NothingInNoRounds, PTL
<1>2. /\ oracles_present = {} /\ prover_messages_present = {}
      /\ num_prover_rounds_done = 0 /\ num_prover_rounds_done' = 0
      /\ processed_MTs' = 0
      /\ hashchain' = << >> /\ pow_answer' = << >>
      /\ transcript' = None /\ verdict' = "none" /\ verdict = "none"
      /\ DOMAIN challenges' = {}
      /\ oracles_present' = {} /\ prover_messages_present' = {}
  BY NothingIsRun
<1>3. ContentsInv'
  BY <1>2 DEF BcsInv, ContentsInv
<1>4. TreesInv'
  <2>1. Len(Built(num_prover_rounds_done))' = 0
    <3>1. Built(num_prover_rounds_done)' = << >>
      BY <1>1, <1>2, Zenon
    <3> QED BY <3>1
  <2>2. prover_stopped' = FALSE /\ processed_MTs' = Len(Built(num_prover_rounds_done))'
    BY <1>2, <2>1 DEF BcsInv, TreesInv
  <2>3. DOMAIN AllTrees' \subseteq Nat \ {0} \/ registration_state' = "interactive"
    <3>1. TypeOK'
      BY DEF IInv
    <3>2. (TypeOK => DOMAIN AllTrees \subseteq Nat \ {0})'
      BY AllTreesType, PTL
    <3> QED BY <3>1, <3>2
  <2>4. registration_state' # "interactive" =>
       Merkle_trees' = [i \in DOMAIN AllTrees' |->
         IF i <= processed_MTs' \/ (is_holographic' /\ AllTrees'[i][1] = 0)
         THEN AllTrees'[i] ELSE Unbuilt]
    BY <1>2, <2>3
  <2> QED BY <2>2, <2>4 DEF TreesInv
<1>5. num_interaction_rounds' \in Nat /\ (registration_state' = "done" => num_interaction_rounds' # 0)
  BY DEF IInv, TypeOK, SealedState
<1>6. ChainInv'
  BY <1>1, <1>2, <1>5 DEF ChainInv, Ended
<1>7. ChallengesInv'
  <2>1. 0..(num_prover_rounds_done' - 1) = {}
    BY <1>2
  <2> QED BY <1>2, <2>1 DEF ChallengesInv
<1>8. TranscriptInv' /\ VerifierInv'
  BY <1>2 DEF TranscriptInv, BcsInv, VerifierInv
<1> QED BY <1>3, <1>4, <1>6, <1>7, <1>8 DEF BcsInv

\* A sequence is as it was or has a further entry.
Longer(s, t) == t = s \/ \E e \in Nat : t = Append(s, e)

\* A further registration leaves the others.
LEMMA RegistrationAppended ==
  ASSUME oracle_registrations \in Seq([domain : Nat, indexed : BOOLEAN]),
         NEW d \in Nat, NEW indexed \in BOOLEAN
  PROVE  LET longer == Append(oracle_registrations, [domain |-> d, indexed |-> indexed])
         IN  /\ Len(oracle_registrations) \in Nat
             /\ Len(longer) = Len(oracle_registrations) + 1
             /\ longer[Len(oracle_registrations) + 1] = [domain |-> d, indexed |-> indexed]
             /\ \A o \in 1..Len(oracle_registrations) : longer[o] = oracle_registrations[o]
<1> DEFINE R == [domain : Nat, indexed : BOOLEAN]
           new == [domain |-> d, indexed |-> indexed]
<1>1. new \in R
  OBVIOUS
<1> HIDE DEF R, new
<1>2. oracle_registrations \in Seq(R)
  BY DEF R
<1>3. /\ Len(oracle_registrations) \in Nat
      /\ Len(Append(oracle_registrations, new)) = Len(oracle_registrations) + 1
      /\ Append(oracle_registrations, new)[Len(oracle_registrations) + 1] = new
      /\ \A o \in 1..Len(oracle_registrations) :
           Append(oracle_registrations, new)[o] = oracle_registrations[o]
  BY <1>1, <1>2, AppendType
<1> QED BY <1>3 DEF new

\* When something is registered, round 0 of a description that has one stays.
LEMMA IndexStays ==
  ASSUME BcsInv, registration_state = "interactive",
         domains' = domains \/ \E size \in DomainSizes : domains' = Append(domains, size),
         \/ oracle_registrations' = oracle_registrations
         \/ \E d \in DOMAIN domains, indexed \in BOOLEAN :
              oracle_registrations' =
                Append(oracle_registrations, [domain |-> d, indexed |-> indexed]),
         Longer(oracles_at_end, oracles_at_end'),
         Longer(prover_messages_at_end, prover_messages_at_end')
  PROVE  /\ \A o \in Oracles' : oracle_registrations'[o].domain \in DOMAIN domains'
         /\ num_interaction_rounds >= 1 =>
              /\ oracles_at_end'[1] = oracles_at_end[1]
              /\ prover_messages_at_end'[1] = prover_messages_at_end[1]
              /\ RoundTrees(0)' = RoundTrees(0)
<1>1. /\ domains \in Seq(DomainSizes)
      /\ oracle_registrations \in Seq([domain : Nat, indexed : BOOLEAN])
      /\ \A o \in Oracles : oracle_registrations[o].domain \in DOMAIN domains
      /\ oracles_at_end \in Seq(Nat) /\ Len(oracles_at_end) = num_interaction_rounds
      /\ prover_messages_at_end \in Seq(Nat)
      /\ Len(prover_messages_at_end) = num_interaction_rounds
      /\ Boundaries(oracles_at_end, Len(oracle_registrations))
      /\ num_interaction_rounds \in Nat
  BY DEF BcsInv, IInv, TypeOK, RoundsAreConsecutive, DescriptionInv
<1>2. /\ domains' \in Seq(DomainSizes)
      /\ DOMAIN domains \subseteq DOMAIN domains'
      /\ DOMAIN domains = 1..Len(domains)
  <2>1. CASE domains' = domains
    BY <1>1, <2>1
  <2>2. ASSUME NEW size \in DomainSizes, domains' = Append(domains, size)
        PROVE  domains' \in Seq(DomainSizes) /\ DOMAIN domains \subseteq DOMAIN domains'
    BY <1>1, <2>2, AppendType
  <2> QED BY <1>1, <2>1, <2>2
<1>3. \A o \in Oracles' : oracle_registrations'[o].domain \in DOMAIN domains'
  <2>1. CASE oracle_registrations' = oracle_registrations
    BY <1>1, <1>2, <2>1 DEF Oracles
  <2>2. ASSUME NEW d \in DOMAIN domains, NEW indexed \in BOOLEAN,
               oracle_registrations' =
                 Append(oracle_registrations, [domain |-> d, indexed |-> indexed])
        PROVE  \A o \in Oracles' : oracle_registrations'[o].domain \in DOMAIN domains'
    <3>0. /\ Len(oracle_registrations) \in Nat
          /\ Len(oracle_registrations') = Len(oracle_registrations) + 1
          /\ oracle_registrations'[Len(oracle_registrations) + 1]
               = [domain |-> d, indexed |-> indexed]
          /\ \A o \in 1..Len(oracle_registrations) :
               oracle_registrations'[o] = oracle_registrations[o]
      BY <1>1, <1>2, <2>2, RegistrationAppended
    <3>1. SUFFICES ASSUME NEW o \in 1..(Len(oracle_registrations) + 1)
                   PROVE  oracle_registrations'[o].domain \in DOMAIN domains'
      BY <3>0 DEF Oracles
    <3>2. CASE o = Len(oracle_registrations) + 1
      <4>1. oracle_registrations'[o] = [domain |-> d, indexed |-> indexed]
        BY <3>0, <3>2
      <4> QED BY <1>2, <4>1
    <3>3. CASE o # Len(oracle_registrations) + 1
      <4>1. o \in Oracles
        BY <3>0, <3>1, <3>3 DEF Oracles
      <4>2. oracle_registrations'[o] = oracle_registrations[o]
        BY <3>0, <4>1 DEF Oracles
      <4> QED BY <1>1, <1>2, <4>1, <4>2
    <3> QED BY <3>2, <3>3
  <2> QED BY <2>1, <2>2
<1>4. SUFFICES ASSUME num_interaction_rounds >= 1
               PROVE  /\ oracles_at_end'[1] = oracles_at_end[1]
                      /\ prover_messages_at_end'[1] = prover_messages_at_end[1]
                      /\ RoundTrees(0)' = RoundTrees(0)
  BY <1>3
<1>5. /\ oracles_at_end'[1] = oracles_at_end[1]
      /\ prover_messages_at_end'[1] = prover_messages_at_end[1]
  <2>1. ASSUME NEW s \in Seq(Nat), NEW t, Longer(s, t), Len(s) >= 1 PROVE t[1] = s[1]
    <3>1. CASE t = s
      BY <3>1
    <3>2. ASSUME NEW e \in Nat, t = Append(s, e) PROVE t[1] = s[1]
      BY <2>1, <3>2, AppendType
    <3> QED BY <2>1, <3>1, <3>2 DEF Longer
  <2> QED BY <1>1, <1>4, <2>1
<1>6. /\ 1 \in DOMAIN oracles_at_end
      /\ oracles_at_end[1] \in Nat /\ oracles_at_end[1] <= Len(oracle_registrations)
      /\ Len(oracle_registrations) \in Nat
  <2>1. 1 \in DOMAIN oracles_at_end
    BY <1>1, <1>4
  <2>2. oracles_at_end[1] \in Nat
    BY <1>1, <2>1, SequenceType
  <2>3. oracles_at_end[1] <= Len(oracle_registrations)
    BY <1>1, <2>1 DEF Boundaries
  <2>4. Len(oracle_registrations) \in Nat
    BY <1>1, SequenceType
  <2> QED BY <2>1, <2>2, <2>3, <2>4
<1> DEFINE first == 1..oracles_at_end[1]
           part(d) == IF \E o \in first : oracle_registrations[o].domain = d
                      THEN << <<0, d>> >> ELSE << >>
           parts == [d \in DOMAIN domains |-> part(d)]
<1>7. \A o \in first : /\ o \in Oracles
                       /\ oracle_registrations'[o] = oracle_registrations[o]
  <2>1. \A o \in first : o \in Oracles
    BY <1>6 DEF Oracles
  <2>2. \A o \in Oracles : oracle_registrations'[o] = oracle_registrations[o]
    <3>1. CASE oracle_registrations' = oracle_registrations
      BY <3>1
    <3>2. ASSUME NEW d \in DOMAIN domains, NEW indexed \in BOOLEAN,
                 oracle_registrations' =
                   Append(oracle_registrations, [domain |-> d, indexed |-> indexed])
          PROVE  \A o \in Oracles : oracle_registrations'[o] = oracle_registrations[o]
      <4>1. d \in Nat
        BY <1>2, <3>2
      <4> QED BY <1>1, <3>2, <4>1, RegistrationAppended, Zenon DEF Oracles
    <3> QED BY <3>1, <3>2
  <2> QED BY <2>1, <2>2
<1>8. RoundEntries(0, oracles_at_end) = first /\ RoundEntries(0, oracles_at_end)' = first
  BY <1>5, <1>6 DEF RoundEntries, BeginOf, EndOf
<1>9. RoundTrees(0) = FlattenSeq(parts)
  BY <1>8, Zenon DEF RoundTrees, TreesOfRound
<1>10. RoundTrees(0)' = FlattenSeq([d \in DOMAIN domains' |-> part(d)])
  <2>1. \A d : (\E o \in first : oracle_registrations'[o].domain = d)
                 <=> (\E o \in first : oracle_registrations[o].domain = d)
    BY <1>7
  <2>2. RoundTrees(0)' = FlattenSeq([d \in DOMAIN domains' |->
          IF \E o \in first : oracle_registrations'[o].domain = d
          THEN << <<0, d>> >> ELSE << >>])
    BY <1>8, Zenon DEF RoundTrees, TreesOfRound
  <2>3. [d \in DOMAIN domains' |->
          IF \E o \in first : oracle_registrations'[o].domain = d
          THEN << <<0, d>> >> ELSE << >>] = [d \in DOMAIN domains' |-> part(d)]
    BY <2>1
  <2> QED BY <2>2, <2>3, Zenon
<1>11. CASE domains' = domains
  BY <1>5, <1>9, <1>10, <1>11
<1>12. ASSUME NEW size \in DomainSizes, domains' = Append(domains, size)
       PROVE  RoundTrees(0)' = RoundTrees(0)
  <2>1. DOMAIN domains' = 1..(Len(domains) + 1) /\ DOMAIN domains = 1..Len(domains)
        /\ Len(domains) \in Nat
    BY <1>1, <1>12
  <2>2. \A d \in DOMAIN domains : part(d) \in Seq(Trees)
    <3>1. SUFFICES ASSUME NEW d \in 1..Len(domains) PROVE part(d) \in Seq(Trees)
      BY <2>1
    <3>2. << <<0, d>> >> \in Seq(Trees) /\ << >> \in Seq(Trees)
      BY DEF Trees
    <3> QED BY <3>2
  <2>3. part(Len(domains) + 1) = << >>
    <3>1. \A o \in first : oracle_registrations[o].domain # Len(domains) + 1
      BY <1>1, <1>7, <2>1
    <3> QED BY <3>1
  <2> HIDE DEF part
  <2>4. parts \in Seq(Seq(Trees))
    BY <2>1, <2>2
  <2>5. [d \in DOMAIN domains' |-> part(d)] = Append(parts, << >>)
    <3> DEFINE longer == [d \in DOMAIN domains' |-> part(d)]
    <3>1. \A d \in DOMAIN domains' : part(d) \in Seq(Trees)
      <4>1. SUFFICES ASSUME NEW d \in 1..(Len(domains) + 1) PROVE part(d) \in Seq(Trees)
        BY <2>1
      <4>2. CASE d = Len(domains) + 1
        <5>1. << >> \in Seq(Trees)
          OBVIOUS
        <5> QED BY <2>3, <4>2, <5>1, Zenon
      <4>3. CASE d # Len(domains) + 1
        <5>1. d \in DOMAIN domains
          BY <2>1, <4>3
        <5> QED BY <2>2, <5>1, Zenon
      <4> QED BY <4>2, <4>3
    <3>2. /\ Len(longer) = Len(domains) + 1 /\ Len(parts) = Len(domains)
          /\ \A d \in 1..Len(domains) : longer[d] = parts[d]
          /\ longer[Len(domains) + 1] = << >>
      BY <2>1, <2>3
    <3>3. longer \in Seq(Seq(Trees))
      BY <2>1, <3>1
    <3> HIDE DEF longer, parts
    <3>4. longer = Append(parts, << >>)
      BY <2>4, <3>2, <3>3, AppendUnique
    <3> QED BY <3>4 DEF longer
  <2> HIDE DEF parts
  <2>6. << >> \in Seq(Trees)
    OBVIOUS
  <2>7. FlattenSeq(Append(parts, << >>)) = FlattenSeq(parts) \o << >>
    BY <2>4, <2>6, FlattenAppend
  <2>8. FlattenSeq(parts) \o << >> = FlattenSeq(parts)
    BY <2>4, FlattenType, ConcatEmpty
  <2> QED BY <1>9, <1>10, <2>5, <2>7, <2>8, Zenon
<1> QED BY <1>5, <1>11, <1>12

\* A registration while the description is open keeps the invariant.
LEMMA RegisteringKeeps ==
  ASSUME BcsInv, registration_state = "interactive", registration_state' = "interactive",
         UNCHANGED <<runVars, bcsVars>>,
         IInv',
         domains' = domains \/ \E size \in DomainSizes : domains' = Append(domains, size),
         \/ oracle_registrations' = oracle_registrations
         \/ \E d \in DOMAIN domains, indexed \in BOOLEAN :
              oracle_registrations' =
                Append(oracle_registrations, [domain |-> d, indexed |-> indexed]),
         Longer(oracles_at_end, oracles_at_end'),
         Longer(prover_messages_at_end, prover_messages_at_end'),
         num_interaction_rounds' >= num_interaction_rounds,
         is_holographic => is_holographic'
  PROVE  BcsInv'
<1> USE DEF bcsVars, proverVars
<1>1. DescriptionInv'
  BY IndexStays DEF DescriptionInv
<1>2. IndexInv'
  <2>1. CASE index = None
    BY <2>1 DEF IndexInv
  <2>2. CASE index # None
    <3>1. /\ is_holographic /\ num_interaction_rounds >= 1
          /\ index.trees = RoundTrees(0)
          /\ \A o \in 1..oracles_at_end[1] : index.oracles[o] = o
          /\ index.messages = MessageIds(prover_messages_at_end[1])
          /\ index.verifier_messages = MessageIds(prover_messages_at_end[1])
      BY <2>2 DEF BcsInv, IndexInv
    <3>2. /\ oracles_at_end'[1] = oracles_at_end[1]
          /\ prover_messages_at_end'[1] = prover_messages_at_end[1]
          /\ RoundTrees(0)' = RoundTrees(0)
      BY <3>1, IndexStays
    <3>3. num_interaction_rounds \in Nat /\ num_interaction_rounds' \in Nat
      BY DEF BcsInv, IInv, TypeOK
    <3>4. MessageIds(prover_messages_at_end[1])' = MessageIds(prover_messages_at_end[1])
      BY <3>2 DEF MessageIds
    <3>5. index' = index /\ num_interaction_rounds' >= 1
      BY <3>1, <3>3
    <3> QED BY <3>1, <3>2, <3>4, <3>5 DEF IndexInv
  <2> QED BY <2>1, <2>2
<1>3. QueryInv'
  <2>1. queries' = << >>
    BY DEF BcsInv, QueryInv
  <2> QED BY <2>1 DEF QueryInv
<1>4. Merkle_trees' = << >> /\ pow_registered' \in BOOLEAN
  BY DEF BcsInv, TreesInv
<1> QED BY <1>1, <1>2, <1>3, <1>4, DescribingKeeps

\* How update_rounds_and_direction moves the boundaries.
LEMMA TurnMoves ==
  ASSUME IInv, NEW new, UpdateRoundsAndDirection(new)
  PROVE  /\ Longer(oracles_at_end, oracles_at_end')
         /\ Longer(prover_messages_at_end, prover_messages_at_end')
         /\ num_interaction_rounds' >= num_interaction_rounds
<1>1. /\ num_interaction_rounds \in Nat
      /\ Len(oracle_registrations) \in Nat /\ Len(prover_message_registrations) \in Nat
  BY DEF IInv, TypeOK
<1>2. CASE UNCHANGED roundVars
  BY <1>1, <1>2 DEF Longer, roundVars
<1>3. CASE EndProverTurn
  BY <1>1, <1>3 DEF Longer, EndProverTurn
<1>4. CASE UNCHANGED <<oracles_at_end, prover_messages_at_end, num_interaction_rounds>>
  BY <1>1, <1>4 DEF Longer
<1> QED BY <1>2, <1>3, <1>4 DEF UpdateRoundsAndDirection

\* Whatever a protocol registers keeps the invariant.
LEMMA DescribeInteractionStep ==
  ASSUME BcsInv, DescribeInteraction
  PROVE  BcsInv'
<1>1. IInv'
  <2>1. IInv
    BY DEF BcsInv
  <2>2. Next
    BY DEF DescribeInteraction, Next, Register
  <2> QED BY <2>1, <2>2, NextPreserves
<1>2. IInv /\ UNCHANGED bcsVars
  BY DEF BcsInv, DescribeInteraction
<1>3. \A s : Longer(s, s)
  BY DEF Longer
<1>4. num_interaction_rounds \in Nat /\ num_interaction_rounds >= num_interaction_rounds
  BY <1>2 DEF IInv, TypeOK
<1>5. ASSUME NEW size \in DomainSizes, RegisterDomain(size) PROVE BcsInv'
  <2>1. /\ registration_state = "interactive" /\ registration_state' = "interactive"
        /\ domains' = Append(domains, size)
        /\ UNCHANGED <<oracle_registrations, is_holographic, oracles_at_end,
                       prover_messages_at_end, num_interaction_rounds, runVars>>
    BY <1>5 DEF RegisterDomain, roundVars
  <2> QED BY <1>1, <1>2, <1>3, <1>4, <2>1, RegisteringKeeps
<1>6. ASSUME NEW d \in DOMAIN domains, NEW degree \in Degrees, RegisterOracle(d, degree)
      PROVE  BcsInv'
  <2>1. /\ registration_state = "interactive" /\ registration_state' = "interactive"
        /\ oracle_registrations' =
             Append(oracle_registrations, [domain |-> d, indexed |-> FALSE])
        /\ UpdateRoundsAndDirection(FromProver)
        /\ UNCHANGED <<domains, is_holographic, runVars>>
    BY <1>6 DEF RegisterOracle, OracleCanBeRegistered, AddOracle
  <2>2. FALSE \in BOOLEAN
    OBVIOUS
  <2> QED BY <1>1, <1>2, <2>1, <2>2, TurnMoves, RegisteringKeeps
<1>7. ASSUME registration_state = "interactive",
             NEW d \in DOMAIN domains, RegisterIndexOracle(d)
      PROVE  BcsInv'
  <2>1. /\ registration_state' = "interactive"
        /\ oracle_registrations' =
             Append(oracle_registrations, [domain |-> d, indexed |-> TRUE])
        /\ UpdateRoundsAndDirection(FromProver)
        /\ is_holographic'
        /\ UNCHANGED <<domains, runVars>>
    BY <1>7 DEF RegisterIndexOracle, AddOracle
  <2>2. TRUE \in BOOLEAN
    OBVIOUS
  <2> QED BY <1>1, <1>2, <1>7, <2>1, <2>2, TurnMoves, RegisteringKeeps
<1>8. ASSUME NEW size \in MessageSizes, RegisterProverMessage(size) PROVE BcsInv'
  <2>1. /\ registration_state = "interactive" /\ registration_state' = "interactive"
        /\ UpdateRoundsAndDirection(FromProver)
        /\ UNCHANGED <<domains, oracle_registrations, is_holographic, runVars>>
    BY <1>8 DEF RegisterProverMessage
  <2> QED BY <1>1, <1>2, <2>1, TurnMoves, RegisteringKeeps
<1>9. CASE RegisterVerifierRandomMessage
  <2>1. /\ registration_state = "interactive" /\ registration_state' = "interactive"
        /\ UpdateRoundsAndDirection(FromVerifier)
        /\ UNCHANGED <<domains, oracle_registrations, is_holographic, runVars>>
    BY <1>9 DEF RegisterVerifierRandomMessage
  <2> QED BY <1>1, <1>2, <2>1, TurnMoves, RegisteringKeeps
<1>10. CASE SignalIndexRegistrationsDone
  <2>1. registration_state = "interactive"
    BY <1>2, <1>10, SignalIndexRegistrationsDoneStep
  <2>2. /\ registration_state' = "interactive"
        /\ UpdateRoundsAndDirection(FromVerifier)
        /\ UNCHANGED <<domains, oracle_registrations, is_holographic, runVars>>
    BY <1>10, <2>1 DEF SignalIndexRegistrationsDone, registrationVars
  <2> QED BY <1>1, <1>2, <2>1, <2>2, TurnMoves, RegisteringKeeps
<1>11. CASE SealQueryRegistrations
  <2> USE DEF bcsVars, proverVars
  <2>1. /\ registration_state = "query" /\ registration_state' = "done"
        /\ UNCHANGED <<roundVars, registrationVars, runVars>>
    BY <1>11 DEF SealQueryRegistrations
  <2>2. /\ \A r : RoundTrees(r)' = RoundTrees(r)
        /\ AllTrees' = AllTrees
    BY <2>1, SealedStays
  <2>3. DescriptionInv'
    BY <1>2, <2>1, <2>2 DEF BcsInv, DescriptionInv, Oracles, roundVars, registrationVars
  <2>4. IndexInv'
    BY <1>2, <2>1, <2>2 DEF BcsInv, IndexInv, MessageIds, roundVars, registrationVars
  <2>5. QueryInv'
    BY <1>2, <2>1 DEF BcsInv, QueryInv, roundVars
  <2>6. /\ pow_registered' \in BOOLEAN
        /\ Merkle_trees' = [i \in DOMAIN AllTrees' |->
             IF is_holographic' /\ AllTrees'[i][1] = 0 THEN AllTrees'[i] ELSE Unbuilt]
    <3>1. Merkle_trees = [i \in DOMAIN AllTrees |->
            IF i <= processed_MTs \/ (is_holographic /\ AllTrees[i][1] = 0)
            THEN AllTrees[i] ELSE Unbuilt]
      BY <2>1 DEF BcsInv, TreesInv
    <3>2. processed_MTs = 0 /\ DOMAIN AllTrees \subseteq Nat \ {0}
      BY <1>2, <2>1, NothingIsRun, AllTreesType DEF IInv
    <3>3. Merkle_trees = [i \in DOMAIN AllTrees |->
            IF is_holographic /\ AllTrees[i][1] = 0 THEN AllTrees[i] ELSE Unbuilt]
      BY <3>1, <3>2
    <3>4. pow_registered \in BOOLEAN /\ UNCHANGED <<Merkle_trees, pow_registered, is_holographic>>
      BY <1>2, <2>1 DEF BcsInv, TreesInv, registrationVars
    <3> QED BY <2>2, <3>3, <3>4, Zenon
  <2>7. registration_state # "done" /\ registration_state' # "interactive"
    BY <2>1
  <2> QED BY <1>1, <1>2, <2>1, <2>3, <2>4, <2>5, <2>6, <2>7, DescribingKeeps
<1> QED BY <1>5, <1>6, <1>7, <1>8, <1>9, <1>10, <1>11 DEF DescribeInteraction

\* A registered query goes behind the others.
LEMMA RegisterQueryStep ==
  ASSUME BcsInv, NEW o \in Oracles, NEW p \in 1..MaxQueries, RegisterQuery(o, p)
  PROVE  BcsInv'
<1> DEFINE Q == [oracle : Nat, position : Nat]
           query == [oracle |-> o, position |-> p]
<1>1. /\ registration_state = "query" /\ o <= oracles_at_end[num_interaction_rounds]
      /\ p > 1 => \E i \in DOMAIN queries : queries[i].position = p - 1
      /\ queries' = Append(queries, query)
      /\ UNCHANGED <<vars, index, pow_registered, proverVars, verifierVars>>
  BY DEF RegisterQuery
<1>2. UNCHANGED <<roundVars, registrationVars, registration_state, runVars>>
  BY <1>1 DEF vars
<1>3. IInv'
  BY <1>1, NextPreserves DEF BcsInv
<1>4. /\ \A r : RoundTrees(r)' = RoundTrees(r)
      /\ AllTrees' = AllTrees
  BY <1>2, SealedStays
<1>5. UNCHANGED <<index, pow_registered, registration_state>>
  BY <1>1, <1>2
<1>6. DescriptionInv'
  BY <1>1, <1>2, <1>4, <1>5 DEF BcsInv, DescriptionInv, Oracles, roundVars, registrationVars
<1>7. IndexInv'
  BY <1>2, <1>4, <1>5 DEF BcsInv, IndexInv, MessageIds, roundVars, registrationVars
<1>8. QueryInv'
  <2>1. queries \in Seq(Q) /\ query \in Q
    <3>1. o \in Nat /\ p \in Nat
      BY DEF BcsInv, IInv, TypeOK, Oracles
    <3> QED BY <3>1 DEF BcsInv, QueryInv
  <2>2. query.oracle = o /\ query.position = p /\ p # 0
    <3>1. p \in Nat \ {0}
      OBVIOUS
    <3> QED BY <3>1
  <2> DEFINE n == oracles_at_end[num_interaction_rounds]
             fine(s, i) == /\ s[i].oracle \in 1..n
                           /\ s[i].position # 0
                           /\ s[i].position > 1 =>
                                \E j \in 1..(i - 1) : s[j].position = s[i].position - 1
  <2>3. \A i \in DOMAIN queries : fine(queries, i)
    BY DEF BcsInv, QueryInv
  <2>4. o \in 1..n
    <3>1. n \in Nat /\ o \in Nat /\ o >= 1
      <4>1. /\ num_interaction_rounds \in Nat /\ num_interaction_rounds >= 1
            /\ Len(oracles_at_end) = num_interaction_rounds /\ oracles_at_end \in Seq(Nat)
        BY <1>1 DEF BcsInv, IInv, SealedState, TypeOK, RoundsAreConsecutive
      <4>2. n \in Nat
        BY <4>1
      <4> QED BY <4>2 DEF BcsInv, IInv, TypeOK, Oracles
    <3> QED BY <1>1, <3>1
  <2> HIDE DEF Q, query, n
  <2>5. /\ queries' \in Seq(Q) /\ Len(queries) \in Nat
        /\ DOMAIN queries' = 1..(Len(queries) + 1) /\ DOMAIN queries = 1..Len(queries)
        /\ \A i \in 1..Len(queries) : queries'[i] = queries[i]
        /\ queries'[Len(queries) + 1] = query
    BY <1>1, <2>1, AppendType
  <2>6. ASSUME NEW i \in DOMAIN queries' PROVE fine(queries', i)
    <3>1. CASE i \in 1..Len(queries)
      <4>1. fine(queries, i) /\ queries'[i] = queries[i]
        BY <2>3, <2>5, <3>1
      <4>2. \A j \in 1..(i - 1) : queries'[j] = queries[j]
        BY <2>5, <3>1
      <4> QED BY <4>1, <4>2
    <3>2. CASE i = Len(queries) + 1
      <4>1. queries'[i] = query
        BY <2>5, <3>2
      <4>2. p > 1 => \E j \in 1..Len(queries) : queries'[j].position = p - 1
        BY <1>1, <2>5
      <4>3. i - 1 = Len(queries)
        BY <2>5, <3>2
      <4>4. p > 1 => \E j \in 1..(i - 1) : queries'[j].position = p - 1
        BY <4>2, <4>3
      <4> QED BY <2>2, <2>4, <4>1, <4>4
    <3> QED BY <2>5, <3>1, <3>2
  <2>7. registration_state' = "query" /\ n' = n
    BY <1>1, <1>2 DEF n, roundVars
  <2> QED BY <2>5, <2>6, <2>7 DEF QueryInv, Q, n
<1>9. /\ pow_registered' \in BOOLEAN
      /\ registration_state' = "query" /\ registration_state # "done"
  BY <1>1, <1>5 DEF BcsInv, TreesInv
<1>10. Merkle_trees' = [i \in DOMAIN AllTrees' |->
         IF is_holographic' /\ AllTrees'[i][1] = 0 THEN AllTrees'[i] ELSE Unbuilt]
  <2>1. Merkle_trees = [i \in DOMAIN AllTrees |->
          IF i <= processed_MTs \/ (is_holographic /\ AllTrees[i][1] = 0)
          THEN AllTrees[i] ELSE Unbuilt]
    BY <1>1 DEF BcsInv, TreesInv
  <2>2. processed_MTs = 0 /\ DOMAIN AllTrees \subseteq Nat \ {0}
    BY <1>1, NothingIsRun, AllTreesType DEF BcsInv, IInv
  <2>3. Merkle_trees = [i \in DOMAIN AllTrees |->
          IF is_holographic /\ AllTrees[i][1] = 0 THEN AllTrees[i] ELSE Unbuilt]
    BY <2>1, <2>2
  <2>4. UNCHANGED <<Merkle_trees, is_holographic>>
    BY <1>1, <1>2 DEF proverVars, registrationVars
  <2> QED BY <1>4, <2>3, <2>4, Zenon
<1>11. UNCHANGED <<runVars, oracle_contents, processed_MTs, hashchain, challenges,
                   pow_answer, prover_stopped, transcript, verifierVars>>
  BY <1>1, <1>2 DEF proverVars
<1> QED BY <1>3, <1>6, <1>7, <1>8, <1>9, <1>10, <1>11, DescribingKeeps

\* Every oracle of round 0 is among those the indexer collects.
LEMMA IndexedOraclesComplete ==
  ASSUME BcsInv, num_interaction_rounds >= 1, NEW o \in 1..oracles_at_end[1]
  PROVE  \E j \in DOMAIN IndexedOracles : IndexedOracles[j] = o
<1>1. /\ domains \in Seq(DomainSizes)
      /\ oracles_at_end \in Seq(Nat) /\ Len(oracles_at_end) = num_interaction_rounds
      /\ Boundaries(oracles_at_end, Len(oracle_registrations))
      /\ Len(oracle_registrations) \in Nat
      /\ num_interaction_rounds \in Nat
      /\ \A q \in Oracles : oracle_registrations[q].domain \in DOMAIN domains
  BY DEF BcsInv, IInv, TypeOK, RoundsAreConsecutive, DescriptionInv
<1>2. /\ oracles_at_end[1] \in Nat /\ oracles_at_end[1] <= Len(oracle_registrations)
  <2>1. 1 \in DOMAIN oracles_at_end
    BY <1>1
  <2> QED BY <1>1, <2>1 DEF Boundaries
<1> DEFINE last == oracles_at_end[1]
           home == oracle_registrations[o].domain
           part(d, q) == IF oracle_registrations[q].domain = d THEN <<q>> ELSE << >>
           single(d) == [q \in 1..last |-> part(d, q)]
           tree(d) == FlattenSeq(single(d))
           whole == [d \in DOMAIN domains |-> tree(d)]
<1>3. home \in DOMAIN domains
  BY <1>1, <1>2 DEF Oracles
<1>4. RoundEntries(0, oracles_at_end) = 1..last
  BY <1>2 DEF RoundEntries, BeginOf, EndOf
<1>5. IndexedOracles = FlattenSeq(whole)
  BY <1>4, Zenon DEF IndexedOracles
<1>6. ASSUME NEW d \in DOMAIN domains PROVE single(d) \in Seq(Seq(Nat)) /\ tree(d) \in Seq(Nat)
  <2>1. \A q \in 1..last : part(d, q) \in Seq(Nat)
    <3>1. SUFFICES ASSUME NEW q \in 1..last PROVE part(d, q) \in Seq(Nat)
      OBVIOUS
    <3>2. <<q>> \in Seq(Nat) /\ << >> \in Seq(Nat)
      BY <1>2
    <3> QED BY <3>2
  <2>3. last \in Nat
    BY <1>2
  <2> HIDE DEF part, last
  <2>2. single(d) \in Seq(Seq(Nat))
    BY <2>1, <2>3
  <2> HIDE DEF single
  <2> QED BY <2>2, FlattenType
<1>7. \E j \in DOMAIN tree(home) : tree(home)[j] = o
  <2>1. single(home) \in Seq(Seq(Nat))
    BY <1>3, <1>6
  <2>2. /\ o \in DOMAIN single(home) /\ single(home)[o] = <<o>>
        /\ 1 \in DOMAIN <<o>> /\ <<o>>[1] = o
    BY <1>2
  <2> HIDE DEF single, home
  <2>3. \E i \in DOMAIN single(home) : \E j \in DOMAIN single(home)[i] : single(home)[i][j] = o
    BY <2>2, Zenon
  <2> QED BY <2>1, <2>3, FlattenMembers, ZenonT(40)
<1> HIDE DEF tree, home, last
<1>8. /\ whole \in Seq(Seq(Nat)) /\ home \in DOMAIN whole
      /\ whole[home] = tree(home)
  <2>1. DOMAIN domains = 1..Len(domains) /\ Len(domains) \in Nat
    BY <1>1
  <2>2. \A d \in DOMAIN domains : tree(d) \in Seq(Nat)
    BY <1>6
  <2> QED BY <1>3, <2>1, <2>2
<1> HIDE DEF whole
<1>9. \E i \in DOMAIN whole : \E j \in DOMAIN whole[i] : whole[i][j] = o
  BY <1>7, <1>8, Zenon
<1>10. \E j \in DOMAIN FlattenSeq(whole) : FlattenSeq(whole)[j] = o
  BY <1>8, <1>9, FlattenMembers, ZenonT(40)
<1> QED BY <1>5, <1>10, Zenon

\* The indexer's run makes an index that is round 0.
LEMMA RunIndexerStep ==
  ASSUME CarefulCallers, BcsInv, RunIndexer
  PROVE  BcsInv'
<1>1. /\ registration_state = "interactive" /\ is_holographic
      /\ num_interaction_rounds = 1
      /\ IndexIsPlain
      /\ index' = [trees |-> IndexTrees,
                   oracles |-> IndexedOracles,
                   messages |-> MessageIds(prover_messages_at_end[1]),
                   verifier_messages |-> MessageIds(Len(prover_message_registrations))]
      /\ UNCHANGED <<vars, queries, pow_registered, proverVars, verifierVars>>
  BY DEF RunIndexer
<1>2. UNCHANGED <<roundVars, registrationVars, registration_state, runVars>>
  BY <1>1 DEF vars
<1>3. IInv'
  BY <1>1, NextPreserves DEF BcsInv
<1>4. /\ \A r : RoundTrees(r)' = RoundTrees(r)
      /\ AllTrees' = AllTrees
  BY <1>2, SealedStays
<1>5. DescriptionInv'
  BY <1>1, <1>2 DEF BcsInv, DescriptionInv, Oracles, registrationVars
<1>6. IndexInv'
  <2>1. \A o \in 1..oracles_at_end[1] : IndexedOracles[o] = o
    <3>1. ASSUME NEW o \in 1..oracles_at_end[1] PROVE IndexedOracles[o] = o
      <4>1. PICK j \in DOMAIN IndexedOracles : IndexedOracles[j] = o
        BY <1>1, IndexedOraclesComplete
      <4>2. IndexedOracles[j] = j
        BY <1>1 DEF IndexIsPlain
      <4> QED BY <4>1, <4>2
    <3> QED BY <3>1
  <2>2. Len(prover_message_registrations) = prover_messages_at_end[1]
    BY <1>1 DEF IndexIsPlain
  <2>3. /\ index'.trees = RoundTrees(0)
        /\ index'.oracles = IndexedOracles
        /\ index'.messages = MessageIds(prover_messages_at_end[1])
        /\ index'.verifier_messages = MessageIds(prover_messages_at_end[1])
    BY <1>1, <2>2 DEF IndexTrees, RoundTrees
  <2>4. /\ UNCHANGED <<is_holographic, num_interaction_rounds, oracles_at_end,
                       prover_messages_at_end>>
        /\ MessageIds(prover_messages_at_end[1])' = MessageIds(prover_messages_at_end[1])
    BY <1>2 DEF roundVars, registrationVars, MessageIds
  <2> QED BY <1>1, <1>4, <2>1, <2>3, <2>4 DEF IndexInv
<1>7. QueryInv'
  BY <1>1, <1>2 DEF BcsInv, QueryInv
<1>8. /\ pow_registered' \in BOOLEAN
      /\ registration_state' = "interactive" /\ registration_state # "done"
      /\ Merkle_trees' = << >>
  BY <1>1, <1>2 DEF BcsInv, TreesInv, proverVars
<1>9. UNCHANGED <<runVars, oracle_contents, processed_MTs, hashchain, challenges,
                  pow_answer, prover_stopped, transcript, verifierVars>>
  BY <1>1, <1>2 DEF proverVars
<1> QED BY <1>3, <1>5, <1>6, <1>7, <1>8, <1>9, DescribingKeeps

\* Sealing allocates a tree for each that is to be built, behind those of the index.
LEMMA SealBcsStep ==
  ASSUME CarefulCallers, BcsInv, SealBcs
  PROVE  BcsInv'
<1> DEFINE n == num_interaction_rounds
           ends == Append(oracles_at_end, Len(oracle_registrations))
           own == IF is_holographic THEN 1 ELSE 0
           trees == TreesOfRounds(own, n, ends)
<1>1. /\ is_holographic => index # None
      /\ SealInteractionRegistrations
      /\ DescriptionIsPlain
      /\ pow_registered' = ~(is_holographic /\ n = 1)
      /\ UNCHANGED <<queries, index, oracle_contents, processed_MTs, hashchain, challenges,
                     pow_answer, prover_stopped, transcript, verifierVars>>
  BY DEF SealBcs
<1>2. /\ registration_state = "interactive" /\ registration_state' = "query"
      /\ n' = n + 1
      /\ oracles_at_end' = ends
      /\ prover_messages_at_end' =
           Append(prover_messages_at_end, Len(prover_message_registrations))
      /\ UNCHANGED <<registrationVars, runVars>>
  BY <1>1 DEF SealInteractionRegistrations, CanSeal, EndProverTurn
<1>3. /\ IInv /\ n \in Nat /\ domains \in Seq(DomainSizes)
      /\ oracles_at_end \in Seq(Nat) /\ Len(oracles_at_end) = n
      /\ prover_messages_at_end \in Seq(Nat) /\ Len(prover_messages_at_end) = n
      /\ Len(oracle_registrations) \in Nat /\ Len(prover_message_registrations) \in Nat
  BY DEF BcsInv, IInv, TypeOK, RoundsAreConsecutive
<1>4. IInv'
  BY <1>1, <1>3, SealInteractionRegistrationsStep
<1>5. /\ ends \in Seq(Nat) /\ Len(ends) = n + 1 /\ ends[n + 1] = Len(oracle_registrations)
      /\ \A i \in 1..n : ends[i] = oracles_at_end[i]
      /\ prover_messages_at_end'[n + 1] = Len(prover_message_registrations)
      /\ \A i \in 1..n : prover_messages_at_end'[i] = prover_messages_at_end[i]
  BY <1>2, <1>3, AppendType
<1>6. Merkle_trees' = (IF is_holographic THEN index.trees ELSE << >>)
                        \o [i \in DOMAIN trees |-> Unbuilt]
  <2>1. n' - 1 = n
    BY <1>2, <1>3
  <2>2. Merkle_trees' = (IF is_holographic THEN index.trees ELSE << >>)
          \o [i \in DOMAIN TreesOfRounds(own, n' - 1, oracles_at_end') |-> Unbuilt]
    BY Zenon DEF SealBcs
  <2> QED BY <1>2, <2>1, <2>2, Zenon
<1>7. \A r : RoundTrees(r)' = TreesOfRound(r, ends)
  BY <1>2 DEF RoundTrees, TreesOfRound, registrationVars
<1>8. AllTrees' = TreesOfRounds(0, n, ends)
  <2>1. n' - 1 = n
    BY <1>2, <1>3
  <2>2. AllTrees' = TreesOfRounds(0, n' - 1, ends)
    BY <1>2 DEF AllTrees, TreesOfRounds, TreesOfRound, registrationVars
  <2> QED BY <2>1, <2>2, Zenon
<1> HIDE DEF ends
<1>9. DescriptionInv'
  <2>1. \A o \in Oracles' : oracle_registrations'[o].domain \in DOMAIN domains'
    BY <1>2 DEF BcsInv, DescriptionInv, Oracles, registrationVars
  <2>2. is_holographic' => n' >= 3 /\ index' # None
    BY <1>1, <1>2 DEF DescriptionIsPlain, registrationVars
  <2>3. \A r \in 0..(n' - 1) : (is_holographic' /\ r = 0) \/ Len(RoundTrees(r)') <= 1
    <3>1. \A r \in 0..(n' - 1) : (is_holographic /\ r = 0) \/ Len(TreesOfRound(r, ends)) <= 1
      BY <1>1, <1>2, Zenon DEF DescriptionIsPlain
    <3>2. is_holographic' = is_holographic
      BY <1>2 DEF registrationVars
    <3> QED BY <1>7, <3>1, <3>2
  <2>4. pow_registered'
    <3>1. is_holographic => n + 1 >= 3
      BY <1>2, <2>2 DEF registrationVars
    <3>2. ~(is_holographic /\ n = 1)
      BY <1>3, <3>1
    <3> QED BY <1>1, <3>2, Zenon
  <2>5. /\ oracles_at_end'[n'] = Len(oracle_registrations')
        /\ prover_messages_at_end'[n'] = Len(prover_message_registrations')
    BY <1>2, <1>5 DEF registrationVars
  <2> HIDE DEF n
  <2> QED BY <2>1, <2>2, <2>3, <2>4, <2>5 DEF DescriptionInv, n
<1>10. ASSUME index # None
       PROVE  /\ is_holographic /\ n >= 1
              /\ index.trees = RoundTrees(0)
              /\ TreesOfRound(0, ends) = RoundTrees(0)
  <2>1. is_holographic /\ n >= 1 /\ index.trees = RoundTrees(0)
    BY <1>10 DEF BcsInv, IndexInv
  <2>2. ends[1] = oracles_at_end[1]
    BY <1>3, <1>5, <2>1
  <2>3. RoundEntries(0, ends) = RoundEntries(0, oracles_at_end)
    BY <2>2 DEF RoundEntries, BeginOf, EndOf
  <2>4. TreesOfRound(0, ends) = RoundTrees(0)
    BY <2>3, Zenon DEF RoundTrees, TreesOfRound
  <2> QED BY <2>1, <2>4
<1>11. IndexInv'
  <2>1. CASE index = None
    BY <1>1, <2>1 DEF IndexInv
  <2>2. CASE index # None
    <3>1. /\ is_holographic /\ n >= 1
          /\ index.trees = RoundTrees(0)
          /\ \A o \in 1..oracles_at_end[1] : index.oracles[o] = o
          /\ index.messages = MessageIds(prover_messages_at_end[1])
          /\ index.verifier_messages = MessageIds(prover_messages_at_end[1])
      BY <2>2 DEF BcsInv, IndexInv
    <3>2. oracles_at_end'[1] = oracles_at_end[1]
          /\ prover_messages_at_end'[1] = prover_messages_at_end[1]
      BY <1>2, <1>3, <1>5, <3>1
    <3>3. RoundTrees(0)' = RoundTrees(0)
      BY <1>7, <1>10, <2>2
    <3>4. index' = index /\ is_holographic' = is_holographic /\ n' >= 1
      BY <1>1, <1>2, <1>3 DEF registrationVars
    <3>5. MessageIds(prover_messages_at_end[1])' = MessageIds(prover_messages_at_end[1])
      BY <3>2 DEF MessageIds
    <3> QED BY <3>1, <3>2, <3>3, <3>4, <3>5 DEF IndexInv
  <2> QED BY <2>1, <2>2
<1>12. QueryInv'
  <2>1. queries' = << >>
    BY <1>1, <1>2 DEF BcsInv, QueryInv
  <2> QED BY <2>1 DEF QueryInv
<1>13. Merkle_trees' = [i \in DOMAIN AllTrees' |->
         IF is_holographic' /\ AllTrees'[i][1] = 0 THEN AllTrees'[i] ELSE Unbuilt]
  <2>1. is_holographic' = is_holographic
    BY <1>2 DEF registrationVars
  <2>2. TreesOfRounds(0, n, ends) \in Seq(Trees)
    <3>1. (n + 1) - 1 = n /\ n + 1 \in Nat /\ 0 \in Nat /\ 0 + (n + 1) - 1 = n
      BY <1>3
    <3>2. TreesOfRounds(0, 0 + (n + 1) - 1, ends) \in Seq(TreesBetween(0, 0 + (n + 1) - 1))
      BY <1>3, <3>1, TreesOfRoundsParts
    <3>3. TreesBetween(0, n) \subseteq Trees
      BY DEF TreesBetween, Trees
    <3>4. Seq(TreesBetween(0, n)) \subseteq Seq(Trees)
      BY <3>3
    <3> QED BY <3>1, <3>2, <3>4, Zenon
  <2> DEFINE all == TreesOfRounds(0, n, ends)
             goal == [i \in DOMAIN all |->
                        IF is_holographic /\ all[i][1] = 0 THEN all[i] ELSE Unbuilt]
  <2>3. CASE ~is_holographic
    <3>1. trees = all
      BY <2>3, Zenon
    <3> HIDE DEF all, trees
    <3>2. Merkle_trees' = << >> \o [i \in DOMAIN all |-> Unbuilt]
      BY <1>6, <2>3, <3>1, Zenon
    <3>3. [i \in DOMAIN all |-> Unbuilt] \in Seq({Unbuilt})
      BY <2>2 DEF all
    <3>4. << >> \o [i \in DOMAIN all |-> Unbuilt] = [i \in DOMAIN all |-> Unbuilt]
      BY <3>3, ConcatEmpty
    <3>5. goal = [i \in DOMAIN all |-> Unbuilt]
      BY <2>3
    <3>6. Merkle_trees' = goal
      BY <3>2, <3>4, <3>5, Zenon
    <3> QED BY <1>8, <2>1, <3>6, Zenon DEF all
  <2>4. CASE is_holographic
    <3>1. index # None
      BY <1>1, <2>4
    <3>2. all = index.trees \o trees
      <4>1. own = 1
        BY <2>4
      <4>2. all = TreesOfRound(0, ends) \o TreesOfRounds(1, n, ends)
        BY <1>3, IndexTreesFirst
      <4> QED BY <1>10, <3>1, <4>1, <4>2, Zenon
    <3>3. index.trees \in Seq(Trees) /\ \A i \in DOMAIN index.trees : index.trees[i][1] = 0
      <4>1. RoundTrees(0) \in Seq(Trees) /\ RoundTrees(0) \in Seq(TreesBetween(0, 0))
        BY <1>3, RoundTreesType
      <4>2. \A t \in TreesBetween(0, 0) : t[1] = 0
        BY DEF TreesBetween
      <4> HIDE DEF n
      <4>3. \A i \in DOMAIN RoundTrees(0) : RoundTrees(0)[i] \in TreesBetween(0, 0)
        BY <4>1
      <4> QED BY <1>10, <3>1, <4>1, <4>2, <4>3
    <3>4. trees \in Seq(Trees) /\ \A i \in DOMAIN trees : trees[i][1] # 0
      <4>1. n \in Nat /\ 1 \in Nat /\ 1 + n - 1 = n /\ own = 1
        BY <1>3, <2>4
      <4>2. TreesOfRounds(1, 1 + n - 1, ends) \in Seq(TreesBetween(1, 1 + n - 1))
        BY <1>3, <4>1, TreesOfRoundsParts
      <4>3. trees \in Seq(TreesBetween(1, n))
        BY <4>1, <4>2, Zenon
      <4>4. TreesBetween(1, n) \subseteq Trees /\ \A t \in TreesBetween(1, n) : t[1] # 0
        BY <1>3 DEF TreesBetween, Trees
      <4> HIDE DEF trees, n
      <4>5. \A i \in DOMAIN trees : trees[i] \in TreesBetween(1, n)
        BY <4>3
      <4>6. Seq(TreesBetween(1, n)) \subseteq Seq(Trees)
        BY <4>4
      <4> QED BY <4>3, <4>4, <4>5, <4>6
    <3> DEFINE front == index.trees
               blank == [i \in DOMAIN trees |-> Unbuilt]
    <3>5. Merkle_trees' = front \o blank
      BY <1>6, <2>4, Zenon
    <3> HIDE DEF all, trees, front
    <3>6. /\ Len(front) \in Nat /\ Len(trees) \in Nat
          /\ DOMAIN front = 1..Len(front) /\ DOMAIN trees = 1..Len(trees)
          /\ blank \in Seq({Unbuilt}) /\ Len(blank) = Len(trees)
      BY <3>3, <3>4 DEF front
    <3>7. /\ all \in Seq(Trees) /\ Len(all) = Len(front) + Len(trees)
          /\ \A i \in 1..Len(front) : all[i] = front[i]
          /\ \A i \in 1..Len(trees) : all[Len(front) + i] = trees[i]
      BY <3>2, <3>3, <3>4, ConcatType DEF front
    <3>8. /\ front \o blank \in Seq(Trees \union {Unbuilt})
          /\ Len(front \o blank) = Len(front) + Len(trees)
          /\ \A i \in 1..Len(front) : (front \o blank)[i] = front[i]
          /\ \A i \in 1..Len(trees) : (front \o blank)[Len(front) + i] = Unbuilt
      <4>1. front \in Seq(Trees \union {Unbuilt}) /\ blank \in Seq(Trees \union {Unbuilt})
        BY <3>3, <3>6 DEF front
      <4>2. \A i \in 1..Len(trees) : blank[i] = Unbuilt
        BY <3>6
      <4> HIDE DEF blank
      <4>3. /\ front \o blank \in Seq(Trees \union {Unbuilt})
            /\ Len(front \o blank) = Len(front) + Len(blank)
            /\ \A i \in 1..Len(front) : (front \o blank)[i] = front[i]
            /\ \A i \in 1..Len(blank) : (front \o blank)[Len(front) + i] = blank[i]
        BY <4>1, ConcatType
      <4> QED BY <3>6, <4>2, <4>3
    <3> HIDE DEF blank
    <3>9. DOMAIN all = 1..(Len(front) + Len(trees))
          /\ DOMAIN (front \o blank) = 1..(Len(front) + Len(trees))
      BY <3>6, <3>7, <3>8
    <3>10. ASSUME NEW i \in 1..(Len(front) + Len(trees))
           PROVE  (front \o blank)[i]
                    = IF is_holographic /\ all[i][1] = 0 THEN all[i] ELSE Unbuilt
      <4>1. CASE i \in 1..Len(front)
        BY <2>4, <3>3, <3>6, <3>7, <3>8, <4>1 DEF front
      <4>2. CASE i \notin 1..Len(front)
        <5>1. i - Len(front) \in 1..Len(trees) /\ Len(front) + (i - Len(front)) = i
          BY <3>6, <4>2
        <5>2. all[i] = trees[i - Len(front)] /\ (front \o blank)[i] = Unbuilt
          BY <3>7, <3>8, <5>1
        <5>3. all[i][1] # 0
          BY <3>4, <3>6, <5>1, <5>2
        <5> QED BY <5>2, <5>3
      <4> QED BY <4>1, <4>2
    <3>11. front \o blank = [i \in 1..(Len(front) + Len(trees)) |-> (front \o blank)[i]]
      BY <3>8, SeqAsFunction
    <3>12. front \o blank = goal
      BY <3>9, <3>10, <3>11
    <3>13. Merkle_trees' = goal
      BY <3>5, <3>12, Zenon
    <3> QED BY <1>8, <2>1, <3>13, Zenon DEF all
  <2> QED BY <2>3, <2>4
<1>14. /\ pow_registered' \in BOOLEAN
       /\ registration_state # "done"
       /\ registration_state' = "query"
  BY <1>1, <1>2
<1>15. UNCHANGED <<runVars, oracle_contents, processed_MTs, hashchain, challenges,
                  pow_answer, prover_stopped, transcript, verifierVars>>
  BY <1>1, <1>2
<1> QED BY <1>4, <1>9, <1>11, <1>12, <1>13, <1>14, <1>15, DescribingKeeps

-----------------------------------------------------------------------------
(***************************************************************************)
(* The prover's steps.                                                     *)
(***************************************************************************)

\* What the steps of prover and verifier leave alone.
Described == <<roundVars, registrationVars, registration_state, queries, index,
               pow_registered>>

\* A step that leaves the description, queries and index alone keeps what is said
\* of them.
LEMMA DescribedStays ==
  ASSUME BcsInv, UNCHANGED Described
  PROVE  DescriptionInv' /\ IndexInv' /\ QueryInv'
<1> USE DEF Described
<1>1. \A r : RoundTrees(r)' = RoundTrees(r)
  BY SealedStays
<1>2. DescriptionInv'
  BY <1>1 DEF BcsInv, DescriptionInv, Oracles, roundVars, registrationVars
<1>3. IndexInv'
  BY <1>1 DEF BcsInv, IndexInv, MessageIds, roundVars, registrationVars
<1>4. QueryInv'
  BY DEF BcsInv, QueryInv, roundVars
<1> QED BY <1>2, <1>3, <1>4

\* A message is squeezed after one round only, and those of round 0 after none.
LEMMA SqueezedOnce ==
  ASSUME IInv, registration_state # "interactive",
         NEW q \in 0..(num_interaction_rounds - 1), NEW r \in 0..(num_interaction_rounds - 1),
         q < r, NEW m \in SqueezedAfter(r)
  PROVE  /\ m \notin SqueezedAfter(q)
         /\ m \notin RoundEntries(0, random_messages_at_end)
<1>1. /\ num_interaction_rounds \in Nat /\ num_random_messages \in Nat
      /\ random_messages_at_end \in Seq(Nat)
      /\ Len(random_messages_at_end) = num_interaction_rounds
      /\ Boundaries(random_messages_at_end, num_random_messages)
  BY DEF IInv, TypeOK, RoundsAreConsecutive
<1>2. r # num_interaction_rounds - 1 /\ m \in RoundEntries(r + 1, random_messages_at_end)
  BY DEF SqueezedAfter
<1>3. /\ q + 1 \in Nat /\ r + 1 \in Nat /\ 0 \in Nat /\ q + 1 < r + 1 /\ 0 < r + 1
      /\ r + 1 < Len(random_messages_at_end)
  BY <1>1, <1>2
<1>4. /\ \A e \in RoundEntries(q + 1, random_messages_at_end) :
           e \notin RoundEntries(r + 1, random_messages_at_end)
      /\ \A e \in RoundEntries(0, random_messages_at_end) :
           e \notin RoundEntries(r + 1, random_messages_at_end)
  BY <1>1, <1>3, RoundsAreDisjoint
<1> QED BY <1>2, <1>4 DEF SqueezedAfter

\* The chain with the proof of work and no position.
LEMMA SealedZero ==
  ASSUME IInv
  PROVE  /\ Sealed(0) = Append(Said(num_interaction_rounds), Squeeze("pow"))
         /\ Sealed(0) \in Seq(Items)
         /\ Said(num_interaction_rounds) \in Seq(Talk)
         /\ Said(num_interaction_rounds) \in Seq(Items)
<1>1. Said(num_interaction_rounds) \in Seq(Talk) /\ Said(num_interaction_rounds) \in Seq(Items)
  <2>1. num_interaction_rounds \in 0..num_interaction_rounds
    BY DEF IInv, TypeOK
  <2> QED BY <2>1, SaidGrows, TalkAreItems
<1>2. Squeeze("pow") \in Items
  BY DEF Squeeze, Items, Operations
<1>3. Append(Said(num_interaction_rounds), Squeeze("pow")) \in Seq(Items)
  BY <1>1, <1>2, AppendType
<1>4. Squeezes("position", 0) = << >>
  BY DEF Squeezes
<1> QED BY <1>1, <1>3, <1>4, ConcatEmpty DEF Sealed

\* run_hashchain_for_round of the round that has just ended.
LEMMA RunHashchainKeeps ==
  ASSUME BcsInv, registration_state = "done", UNCHANGED Described,
         NEW r, r = num_prover_rounds_done, r < num_interaction_rounds,
         num_prover_rounds_done' = r + 1, transcript' = None,
         NEW trees,
         SubSeq(trees, processed_MTs + 1, processed_MTs + Len(RoundTrees(r))) = RoundTrees(r),
         RunHashchain(r, trees, r = num_interaction_rounds - 1)
  PROVE  /\ processed_MTs' = Len(Built(r + 1))
         /\ ChainInv'
         /\ ChallengesInv'
<1> DEFINE n == num_interaction_rounds
<1>1. /\ IInv /\ n \in Nat /\ r \in Nat /\ r \in 0..(n - 1) /\ domains \in Seq(DomainSizes)
      /\ n' = n /\ registration_state' = "done"
  BY DEF BcsInv, IInv, TypeOK, Described, roundVars
<1>2. /\ ~Ended /\ pow_answer = << >> /\ hashchain = Said(r)
      /\ processed_MTs = Len(Built(r))
  BY <1>1 DEF BcsInv, ChainInv, Ended, TreesInv
<1>3. /\ \A k : Said(k)' = Said(k)
      /\ \A k : Sealed(k)' = Sealed(k)
      /\ \A q : SqueezedAfter(q)' = SqueezedAfter(q)
      /\ \A m, q : TheChallenge(m, q)' = TheChallenge(m, q)
      /\ UNCHANGED <<random_messages_at_end, num_random_messages>>
  BY SealedStays DEF Described, roundVars, registrationVars
<1>4. /\ processed_MTs' = processed_MTs + Len(RoundTrees(r))
      /\ challenges' = ChallengesAfter(challenges, hashchain, r, RoundTrees(r), RoundMessages(r))
      /\ LET chain == HashchainAfter(hashchain, r, RoundTrees(r), RoundMessages(r))
             works == r = n - 1
         IN  /\ pow_answer' = IF works THEN chain ELSE pow_answer
             /\ hashchain' = IF works THEN Append(chain, Squeeze("pow")) ELSE chain
  BY Zenon DEF RunHashchain, RoundTrees, RoundMessages
<1>5. HashchainAfter(hashchain, r, RoundTrees(r), RoundMessages(r)) = Said(r + 1)
  BY <1>1, <1>2, HashchainIsSaid
<1>6. processed_MTs' = Len(Built(r + 1))
  <2>1. /\ Built(r + 1) = Built(r) \o RoundTrees(r)
        /\ Built(r) \in Seq(Trees) /\ RoundTrees(r) \in Seq(Trees)
    BY <1>1, BuiltGrows, BuiltType, RoundTreesType
  <2>2. Len(Built(r) \o RoundTrees(r)) = Len(Built(r)) + Len(RoundTrees(r))
    BY <2>1, ConcatType
  <2> QED BY <1>2, <1>4, <2>1, <2>2
<1>7. ChainInv'
  <2>1. CASE r = n - 1
    <3>1. r + 1 = n
      BY <1>1, <2>1
    <3>2. pow_answer' = Said(n) /\ hashchain' = Append(Said(n), Squeeze("pow"))
      BY <1>4, <1>5, <2>1, <3>1
    <3>3. hashchain' = Sealed(0)
      BY <1>1, <3>2, SealedZero
    <3>4. Ended'
      BY <1>1, <3>1 DEF Ended
    <3>5. (IF transcript = None THEN 0 ELSE NumPositions)' = 0
      OBVIOUS
    <3> HIDE DEF n
    <3>6. pow_answer' = Said(n)' /\ hashchain' = Sealed(0)' /\ Said(n)' = (Said(num_interaction_rounds))'
      BY <1>1, <1>3, <3>2, <3>3 DEF n
    <3> QED BY <3>4, <3>5, <3>6 DEF ChainInv
  <2>2. CASE r # n - 1
    <3>1. ~(Ended')
      BY <1>1, <2>2 DEF Ended
    <3>2. pow_answer' = << >> /\ hashchain' = Said(r + 1)
      BY <1>2, <1>4, <1>5, <2>2
    <3>3. hashchain' = Said(num_prover_rounds_done)'
      BY <1>3, <3>2, Zenon
    <3> QED BY <3>1, <3>2, <3>3 DEF ChainInv
  <2> QED BY <2>1, <2>2
<1>8. ChallengesInv'
  <2> DEFINE old == DOMAIN challenges
             new == SqueezedAfter(r)
  <2>1. challenges' = [m \in old \union new |->
                         IF m \in old THEN challenges[m] ELSE TheChallenge(m, r)]
    BY <1>2, <1>4, Zenon DEF ChallengesAfter, TheChallenge
  <2>2. /\ \A m \in old :
             \/ /\ n >= 1 /\ m \in RoundEntries(0, random_messages_at_end)
                /\ m \in RandomMessages /\ challenges[m] = << >>
             \/ \E q \in 0..(r - 1) : m \in SqueezedAfter(q)
        /\ \A q \in 0..(r - 1) : \A m \in SqueezedAfter(q) :
             m \in old /\ challenges[m] = TheChallenge(m, q)
    BY DEF BcsInv, ChallengesInv
  <2>3. \A m \in new : m \notin old
    <3>1. SUFFICES ASSUME NEW m \in new, m \in old PROVE FALSE
      OBVIOUS
    <3>2. ASSUME NEW q \in 0..(r - 1) PROVE m \notin SqueezedAfter(q)
      <4>1. q \in 0..(n - 1) /\ q < r
        BY <1>1
      <4> QED BY <1>1, <4>1, SqueezedOnce
    <3>3. n >= 1 /\ m \in RoundEntries(0, random_messages_at_end)
      BY <2>2, <3>1, <3>2
    <3>4. CASE r = 0
      <4>1. /\ random_messages_at_end \in Seq(Nat)
            /\ Len(random_messages_at_end) = n
            /\ Boundaries(random_messages_at_end, num_random_messages)
            /\ num_random_messages \in Nat
        BY <1>1 DEF IInv, TypeOK, RoundsAreConsecutive
      <4>2. r # n - 1 /\ m \in RoundEntries(r + 1, random_messages_at_end)
        BY DEF SqueezedAfter
      <4>3. 0 \in Nat /\ r + 1 \in Nat /\ 0 < r + 1 /\ r + 1 < Len(random_messages_at_end)
        BY <1>1, <4>1, <4>2
      <4> QED BY <3>3, <4>1, <4>2, <4>3, RoundsAreDisjoint
    <3>5. CASE r # 0
      <4>1. 0 \in 0..(n - 1) /\ 0 < r
        BY <1>1, <3>5
      <4> QED BY <1>1, <3>3, <4>1, SqueezedOnce
    <3> QED BY <3>4, <3>5
  <2>4. /\ DOMAIN challenges' = old \union new
        /\ \A m \in old : challenges'[m] = challenges[m]
        /\ \A m \in new : challenges'[m] = TheChallenge(m, r)
    BY <2>1, <2>3
  <2> HIDE DEF old, new, n
  <2>5. /\ 0..(num_prover_rounds_done' - 1) = 0..r
        /\ r \in 0..r
        /\ \A q \in 0..r : (q = r \/ q \in 0..(r - 1))
        /\ \A q \in 0..(r - 1) : q \in 0..r
    BY <1>1
  <2>6. \A m \in DOMAIN challenges' :
           \/ /\ num_interaction_rounds' >= 1
              /\ m \in RoundEntries(0, random_messages_at_end)'
              /\ m \in RandomMessages'
              /\ challenges'[m] = << >>
           \/ \E q \in 0..(num_prover_rounds_done' - 1) : m \in SqueezedAfter(q)'
    <3>1. RoundEntries(0, random_messages_at_end)' = RoundEntries(0, random_messages_at_end)
          /\ RandomMessages' = RandomMessages
      BY <1>3 DEF RoundEntries, BeginOf, EndOf, RandomMessages
    <3>2. SUFFICES ASSUME NEW m \in old \union new
                   PROVE  \/ /\ n >= 1
                             /\ m \in RoundEntries(0, random_messages_at_end)
                             /\ m \in RandomMessages
                             /\ challenges'[m] = << >>
                          \/ \E q \in 0..r : m \in SqueezedAfter(q)
      BY <1>1, <1>3, <2>4, <2>5, <3>1 DEF n
    <3>3. CASE m \in new
      BY <2>5, <3>3 DEF new
    <3>4. CASE m \in old
      BY <2>2, <2>4, <2>5, <3>4
    <3> QED BY <3>3, <3>4
  <2>7. \A q \in 0..(num_prover_rounds_done' - 1) : \A m \in SqueezedAfter(q)' :
          m \in DOMAIN challenges' /\ challenges'[m] = TheChallenge(m, q)'
    <3>1. SUFFICES ASSUME NEW q \in 0..r, NEW m \in SqueezedAfter(q)
                   PROVE  m \in old \union new /\ challenges'[m] = TheChallenge(m, q)
      BY <1>3, <2>4, <2>5
    <3>2. CASE q = r
      BY <2>4, <3>2 DEF new
    <3>3. CASE q \in 0..(r - 1)
      BY <2>2, <2>4, <3>3
    <3> QED BY <2>5, <3>2, <3>3
  <2>8. registration_state' = "done"
    BY <1>1
  <2> QED BY <2>6, <2>7, <2>8 DEF ChallengesInv
<1> QED BY <1>6, <1>7, <1>8

\* Where the trees of a round are among all trees.
LEMMA RoundAmongTrees ==
  ASSUME IInv, NEW r \in 0..(num_interaction_rounds - 1)
  PROVE  /\ Len(Built(r)) \in Nat /\ Len(RoundTrees(r)) \in Nat /\ Len(AllTrees) \in Nat
         /\ AllTrees \in Seq(Trees) /\ DOMAIN AllTrees = 1..Len(AllTrees)
         /\ Len(Built(r + 1)) = Len(Built(r)) + Len(RoundTrees(r))
         /\ Len(Built(r)) + Len(RoundTrees(r)) <= Len(AllTrees)
         /\ \A i \in 1..Len(Built(r)) : AllTrees[i] = Built(r)[i]
         /\ \A i \in 1..Len(RoundTrees(r)) :
              AllTrees[Len(Built(r)) + i] = RoundTrees(r)[i]
<1>1. /\ r \in Nat /\ num_interaction_rounds \in Nat /\ domains \in Seq(DomainSizes)
      /\ TypeOK
  BY DEF IInv, TypeOK
<1>2. /\ AllTrees = Built(num_interaction_rounds) /\ AllTrees \in Seq(Trees)
  BY <1>1, AllTreesType
<1>3. r + 1 \in Nat /\ num_interaction_rounds - (r + 1) \in Nat
      /\ (r + 1) + (num_interaction_rounds - (r + 1)) = num_interaction_rounds
  BY <1>1
<1>4. PICK rest \in Seq(Trees) : AllTrees = Built(r + 1) \o rest
  <2>1. \E rest \in Seq(Trees) :
          Built((r + 1) + (num_interaction_rounds - (r + 1))) = Built(r + 1) \o rest
    BY <1>1, <1>3, BuiltBegins
  <2> QED BY <1>2, <1>3, <2>1, Zenon
<1>5. /\ Built(r + 1) = Built(r) \o RoundTrees(r)
      /\ Built(r) \in Seq(Trees) /\ RoundTrees(r) \in Seq(Trees)
      /\ Built(r + 1) \in Seq(Trees)
  BY <1>1, <1>3, BuiltGrows, BuiltType, RoundTreesType
<1> DEFINE a == Built(r)
           b == RoundTrees(r)
           c == Built(r + 1)
<1>6. /\ a \in Seq(Trees) /\ b \in Seq(Trees) /\ c \in Seq(Trees) /\ c = a \o b
      /\ AllTrees = c \o rest
  BY <1>4, <1>5
<1> HIDE DEF a, b, c
<1>7. /\ Len(a) \in Nat /\ Len(b) \in Nat /\ Len(c) = Len(a) + Len(b)
      /\ \A i \in 1..Len(a) : c[i] = a[i]
      /\ \A i \in 1..Len(b) : c[Len(a) + i] = b[i]
  BY <1>6, ConcatType
<1>8. /\ Len(rest) \in Nat /\ Len(AllTrees) = Len(c) + Len(rest)
      /\ \A i \in 1..Len(c) : AllTrees[i] = c[i]
  BY <1>6, ConcatType
<1>9. \A i \in 1..Len(b) : Len(a) + i \in 1..Len(c)
  BY <1>7
<1>10. \A i \in 1..Len(a) : i \in 1..Len(c)
  BY <1>7
<1>11. /\ Len(AllTrees) \in Nat /\ DOMAIN AllTrees = 1..Len(AllTrees)
       /\ Len(a) + Len(b) <= Len(AllTrees)
  BY <1>2, <1>7, <1>8
<1> QED BY <1>2, <1>7, <1>8, <1>9, <1>10, <1>11 DEF a, b, c

\* Nothing the verifier has changes while there is no transcript.
LEMMA VerifierWaits ==
  ASSUME BcsInv, transcript = None, transcript' = None, UNCHANGED verifierVars
  PROVE  TranscriptInv' /\ VerifierInv' /\ verdict = "none"
<1>1. verdict = "none"
  BY DEF BcsInv, VerifierInv
<1> QED BY <1>1 DEF BcsInv, VerifierInv, TranscriptInv, verifierVars

\* The prover ends a round: its one tree is built.
LEMMA ProverRoundDoneStep ==
  ASSUME BcsInv, ProverRoundDone
  PROVE  BcsInv'
<1> SUFFICES ASSUME NEW r, r = num_prover_rounds_done,
                    NEW n, n = num_interaction_rounds,
                    NEW p, p = processed_MTs
             PROVE  BcsInv'
  OBVIOUS
<1>1. /\ ~prover_stopped /\ transcript = None
      /\ is_holographic => r > 0
      /\ SignalProverRoundDone
      /\ UNCHANGED <<queries, index, pow_registered, oracle_contents, transcript, verifierVars>>
  BY DEF ProverRoundDone, Proving
<1>2. /\ Merkle_trees' = IF RoundTrees(r) = << >> THEN Merkle_trees
                         ELSE [Merkle_trees EXCEPT ![p + 1] = RoundTrees(r)[1]]
      /\ \/ /\ Len(RoundTrees(r)) <= 1
            /\ RunHashchain(r, Merkle_trees', r = num_interaction_rounds - 1)
            /\ UNCHANGED prover_stopped
         \/ Len(RoundTrees(r)) > 1
  BY Zenon DEF ProverRoundDone, RoundTrees
<1>3. /\ registration_state = "done" /\ r < n /\ num_prover_rounds_done' = r + 1
      /\ UNCHANGED <<roundVars, registrationVars, registration_state,
                     oracles_present, prover_messages_present>>
  BY <1>1 DEF SignalProverRoundDone
<1>4. IInv /\ r \in Nat /\ n \in Nat /\ r \in 0..(n - 1)
  BY <1>3 DEF BcsInv, IInv, TypeOK
<1>5. IInv'
  BY <1>1, <1>4, SignalProverRoundDoneStep
<1>6. UNCHANGED Described
  BY <1>1, <1>3 DEF Described
<1>7. Len(RoundTrees(r)) <= 1
  BY <1>1, <1>3, <1>4 DEF BcsInv, DescriptionInv
<1>8. RunHashchain(r, Merkle_trees', r = num_interaction_rounds - 1) /\ UNCHANGED prover_stopped
  <2>1. Len(RoundTrees(r)) \in Nat
    BY <1>4, RoundAmongTrees
  <2> QED BY <1>2, <1>7, <2>1
<1>9. /\ Len(Built(r)) \in Nat /\ Len(RoundTrees(r)) \in Nat /\ Len(AllTrees) \in Nat
      /\ AllTrees \in Seq(Trees) /\ DOMAIN AllTrees = 1..Len(AllTrees)
      /\ Len(Built(r + 1)) = Len(Built(r)) + Len(RoundTrees(r))
      /\ Len(Built(r)) + Len(RoundTrees(r)) <= Len(AllTrees)
      /\ \A i \in 1..Len(RoundTrees(r)) : AllTrees[Len(Built(r)) + i] = RoundTrees(r)[i]
      /\ p = Len(Built(r))
  BY <1>4, RoundAmongTrees DEF BcsInv, TreesInv
<1> DEFINE state(i, q) == IF i <= q \/ (is_holographic /\ AllTrees[i][1] = 0)
                          THEN AllTrees[i] ELSE Unbuilt
<1>10. Merkle_trees = [i \in DOMAIN AllTrees |-> state(i, p)]
  BY <1>3 DEF BcsInv, TreesInv
<1>11. Merkle_trees' = [i \in DOMAIN AllTrees |-> state(i, p + Len(RoundTrees(r)))]
  <2>1. CASE RoundTrees(r) = << >>
    <3>1. Len(RoundTrees(r)) = 0
      BY <2>1
    <3>2. p + Len(RoundTrees(r)) = p
      BY <1>9, <3>1
    <3> QED BY <1>2, <1>10, <2>1, <3>2
  <2>2. CASE RoundTrees(r) # << >>
    <3>1. Len(RoundTrees(r)) = 1
      <4>1. RoundTrees(r) \in Seq(Trees)
        BY <1>4, RoundTreesType DEF IInv, TypeOK
      <4>2. Len(RoundTrees(r)) # 0
        BY <2>2, <4>1
      <4>3. \A k \in Nat : k <= 1 /\ k # 0 => k = 1
        OBVIOUS
      <4> QED BY <1>7, <1>9, <4>2, <4>3, Zenon
    <3>2. p + 1 \in DOMAIN AllTrees /\ AllTrees[p + 1] = RoundTrees(r)[1]
      BY <1>9, <3>1
    <3>3. Merkle_trees' = [Merkle_trees EXCEPT ![p + 1] = AllTrees[p + 1]]
      BY <1>2, <2>2, <3>2
    <3>4. \A i \in DOMAIN AllTrees :
            state(i, p + 1) = IF i = p + 1 THEN AllTrees[p + 1] ELSE state(i, p)
      BY <1>9
    <3> HIDE DEF state
    <3>5. Merkle_trees' = [i \in DOMAIN AllTrees |-> state(i, p + 1)]
      BY <1>10, <3>2, <3>3, <3>4
    <3> QED BY <3>1, <3>5
  <2> QED BY <2>1, <2>2
<1>12. SubSeq(Merkle_trees', p + 1, p + Len(RoundTrees(r))) = RoundTrees(r)
  <2>1. RoundTrees(r) \in Seq(Trees)
    BY <1>4, RoundTreesType DEF IInv, TypeOK
  <2> DEFINE k == Len(RoundTrees(r))
  <2>2. \A i \in 1..k : /\ p + i \in DOMAIN AllTrees
                        /\ Merkle_trees'[p + i] = RoundTrees(r)[i]
    <3>1. SUFFICES ASSUME NEW i \in 1..k
                   PROVE  p + i \in DOMAIN AllTrees /\ Merkle_trees'[p + i] = RoundTrees(r)[i]
      OBVIOUS
    <3>2. p + i \in DOMAIN AllTrees /\ p + i <= p + k /\ AllTrees[p + i] = RoundTrees(r)[i]
      BY <1>9
    <3> QED BY <1>11, <3>2
  <2>3. Merkle_trees' \in Seq(Trees \union {Unbuilt}) /\ p \in Nat /\ k \in Nat
        /\ p + k <= Len(AllTrees) /\ Len(Merkle_trees') = Len(AllTrees)
    <3>1. \A i \in DOMAIN AllTrees : state(i, p + k) \in Trees \union {Unbuilt}
      BY <1>9
    <3> HIDE DEF state
    <3> QED BY <1>9, <1>11, <3>1
  <2> HIDE DEF k, state
  <2>4. SubSeq(Merkle_trees', p + 1, p + k) = [i \in 1..k |-> Merkle_trees'[p + i]]
    BY <2>3, CutType
  <2>5. RoundTrees(r) = [i \in 1..k |-> RoundTrees(r)[i]]
    BY <2>1, SeqAsFunction DEF k
  <2> QED BY <2>2, <2>4, <2>5 DEF k
<1>13. processed_MTs' = Len(Built(r + 1)) /\ ChainInv' /\ ChallengesInv'
  <2>1. processed_MTs + 1 = p + 1 /\ transcript' = None
    BY <1>1
  <2> QED BY <1>3, <1>6, <1>8, <1>12, <2>1, RunHashchainKeeps
<1>14. TreesInv'
  <2>1. AllTrees' = AllTrees /\ Built(r + 1)' = Built(r + 1)
    BY <1>3, SealedStays
  <2>2. prover_stopped' = FALSE /\ pow_registered' \in BOOLEAN
    BY <1>1, <1>8 DEF BcsInv, TreesInv
  <2>3. processed_MTs' = p + Len(RoundTrees(r)) /\ is_holographic' = is_holographic
    BY <1>3, <1>9, <1>13 DEF registrationVars
  <2>4. Merkle_trees' = [i \in DOMAIN AllTrees' |->
          IF i <= processed_MTs' \/ (is_holographic' /\ AllTrees'[i][1] = 0)
          THEN AllTrees'[i] ELSE Unbuilt]
    BY <1>11, <2>1, <2>3
  <2>5. processed_MTs' = Len(Built(num_prover_rounds_done))'
    <3>1. Built(num_prover_rounds_done)' = Built(r + 1)'
      BY <1>3
    <3> QED BY <1>13, <2>1, <3>1
  <2> QED BY <1>3, <2>2, <2>4, <2>5 DEF TreesInv
<1>15. ContentsInv'
  BY <1>1, <1>3, <1>4 DEF BcsInv, ContentsInv
<1>16. DescriptionInv' /\ IndexInv' /\ QueryInv'
  BY <1>3, <1>6, DescribedStays
<1>17. TranscriptInv' /\ VerifierInv'
  BY <1>1, VerifierWaits
<1> QED BY <1>5, <1>13, <1>14, <1>15, <1>16, <1>17 DEF BcsInv

\* The trees are right as long as nothing touches them.
LEMMA TreesStay ==
  ASSUME BcsInv, UNCHANGED Described,
         UNCHANGED <<num_prover_rounds_done, Merkle_trees, processed_MTs, prover_stopped>>
  PROVE  TreesInv'
<1> USE DEF Described
<1>1. AllTrees' = AllTrees /\ Built(num_prover_rounds_done)' = Built(num_prover_rounds_done)
  <2>1. AllTrees' = AllTrees
    BY SealedStays
  <2>2. Built(num_prover_rounds_done)' = Built(num_prover_rounds_done)
    BY DEF Built, TreesOfRounds, TreesOfRound, roundVars, registrationVars
  <2> QED BY <2>1, <2>2
<1> QED BY <1>1 DEF BcsInv, TreesInv, registrationVars

\* And so is the chain.
LEMMA ChainStays ==
  ASSUME BcsInv, UNCHANGED Described,
         UNCHANGED <<num_prover_rounds_done, hashchain, pow_answer, transcript>>
  PROVE  ChainInv'
<1> USE DEF Described
<1>1. /\ Said(num_interaction_rounds)' = Said(num_interaction_rounds)
      /\ Said(num_prover_rounds_done)' = Said(num_prover_rounds_done)
      /\ Sealed(IF transcript = None THEN 0 ELSE NumPositions)'
           = Sealed(IF transcript = None THEN 0 ELSE NumPositions)
  <2>1. \A k : Said(k)' = Said(k) /\ Sealed(k)' = Sealed(k)
    BY SealedStays
  <2>2. /\ num_interaction_rounds' = num_interaction_rounds
        /\ NumPositions' = NumPositions
    BY DEF roundVars, NumPositions
  <2> QED BY <2>1, <2>2
<1>2. Ended' = Ended
  BY DEF Ended, roundVars
<1> QED BY <1>1, <1>2 DEF BcsInv, ChainInv

\* And so are the challenges.
LEMMA ChallengesStay ==
  ASSUME BcsInv, UNCHANGED Described,
         UNCHANGED <<num_prover_rounds_done, challenges>>
  PROVE  ChallengesInv'
<1> USE DEF Described
<1>1. /\ \A q : SqueezedAfter(q)' = SqueezedAfter(q)
      /\ \A m, q : TheChallenge(m, q)' = TheChallenge(m, q)
      /\ RoundEntries(0, random_messages_at_end)' = RoundEntries(0, random_messages_at_end)
      /\ RandomMessages' = RandomMessages
      /\ num_interaction_rounds' = num_interaction_rounds
  BY SealedStays DEF RoundEntries, BeginOf, EndOf, RandomMessages, roundVars, registrationVars
<1>2. /\ \A m \in DOMAIN challenges :
           \/ /\ num_interaction_rounds >= 1
              /\ m \in RoundEntries(0, random_messages_at_end)
              /\ m \in RandomMessages
              /\ challenges[m] = << >>
           \/ \E r \in 0..(num_prover_rounds_done - 1) : m \in SqueezedAfter(r)
      /\ \A r \in 0..(num_prover_rounds_done - 1) : \A m \in SqueezedAfter(r) :
           m \in DOMAIN challenges /\ challenges[m] = TheChallenge(m, r)
  BY DEF BcsInv, ChallengesInv
<1>3. registration_state # "done" => DOMAIN challenges = {}
  BY DEF BcsInv, ChallengesInv
<1> QED BY <1>1, <1>2, <1>3 DEF ChallengesInv

\* An oracle is submitted with its own evaluations.
LEMMA ProverSubmitsOracleStep ==
  ASSUME BcsInv, NEW o \in Oracles, NEW size \in DomainSizes, ProverSubmitsOracle(o, size)
  PROVE  BcsInv'
<1>1. /\ Proving /\ SubmitOracle(o, size)
      /\ oracle_contents' = Inserted(oracle_contents, o, o)
      /\ UNCHANGED <<queries, index, pow_registered, Merkle_trees, processed_MTs, hashchain,
                     challenges, pow_answer, prover_stopped, transcript, verifierVars>>
  BY DEF ProverSubmitsOracle
<1>2. /\ registration_state = "done" /\ registration_state' = "done"
      /\ oracles_present' = oracles_present \union {o}
      /\ UNCHANGED <<roundVars, registrationVars, registration_state,
                     prover_messages_present, num_prover_rounds_done>>
  BY <1>1 DEF SubmitOracle
<1>3. IInv'
  BY <1>1, SubmitOracleStep DEF BcsInv
<1>4. UNCHANGED Described
  BY <1>1, <1>2 DEF Described
<1>5. DescriptionInv' /\ IndexInv' /\ QueryInv'
  BY <1>2, <1>4, DescribedStays
<1>6. TreesInv' /\ ChainInv' /\ ChallengesInv'
  BY <1>1, <1>2, <1>4, TreesStay, ChainStays, ChallengesStay
<1>7. TranscriptInv' /\ VerifierInv'
  BY <1>1, VerifierWaits DEF Proving
<1>8. ContentsInv'
  <2>1. /\ DOMAIN oracle_contents = oracles_present
        /\ \A q \in oracles_present : oracle_contents[q] = q
    BY DEF BcsInv, ContentsInv
  <2>2. /\ DOMAIN oracle_contents' = oracles_present'
        /\ \A q \in oracles_present' : oracle_contents'[q] = q
    BY <1>1, <1>2, <2>1 DEF Inserted
  <2>3. ~(is_holographic' /\ num_prover_rounds_done' = 0)
    <3>1. num_prover_rounds_done \in Nat /\ (is_holographic => num_prover_rounds_done > 0)
      BY <1>1 DEF Proving, BcsInv, IInv, TypeOK
    <3> QED BY <1>2, <3>1 DEF registrationVars
  <2> QED BY <2>2, <2>3 DEF ContentsInv
<1> QED BY <1>3, <1>5, <1>6, <1>7, <1>8 DEF BcsInv

\* A prover message waits for the end of its round.
LEMMA ProverSubmitsMessageStep ==
  ASSUME BcsInv, NEW m \in ProverMessages, NEW size \in MessageSizes,
         ProverSubmitsMessage(m, size)
  PROVE  BcsInv'
<1>1. Proving /\ SubmitProverMessage(m, size) /\ UNCHANGED bcsVars
  BY DEF ProverSubmitsMessage
<1>2. /\ registration_state = "done" /\ registration_state' = "done"
      /\ UNCHANGED <<roundVars, registrationVars, registration_state,
                     oracles_present, num_prover_rounds_done>>
  BY <1>1 DEF SubmitProverMessage
<1>3. IInv'
  BY <1>1, SubmitProverMessageStep DEF BcsInv
<1>4. UNCHANGED Described /\ UNCHANGED <<proverVars, verifierVars>>
  BY <1>1, <1>2 DEF Described, bcsVars
<1>5. DescriptionInv' /\ IndexInv' /\ QueryInv'
  BY <1>2, <1>4, DescribedStays
<1>6. TreesInv' /\ ChainInv' /\ ChallengesInv'
  BY <1>2, <1>4, TreesStay, ChainStays, ChallengesStay DEF proverVars
<1>7. TranscriptInv' /\ VerifierInv'
  BY <1>1, <1>4, VerifierWaits DEF Proving, proverVars
<1>8. ContentsInv'
  <2>1. num_prover_rounds_done \in Nat /\ (is_holographic => num_prover_rounds_done > 0)
    BY <1>1 DEF Proving, BcsInv, IInv, TypeOK
  <2>2. ~(is_holographic' /\ num_prover_rounds_done' = 0)
    BY <1>2, <2>1 DEF registrationVars
  <2>3. oracle_contents' = oracle_contents /\ oracles_present' = oracles_present
    BY <1>2, <1>4 DEF proverVars
  <2> QED BY <2>2, <2>3 DEF BcsInv, ContentsInv
<1> QED BY <1>3, <1>5, <1>6, <1>7, <1>8 DEF BcsInv

\* obtain_verifier_random_message leaves an empty vector for a message of round 0.
LEMMA ProverReadsChallengeStep ==
  ASSUME CarefulCallers, BcsInv, NEW m \in RandomMessages, ProverReadsChallenge(m)
  PROVE  BcsInv'
<1> DEFINE k == num_prover_rounds_done
           n == num_interaction_rounds
<1>1. /\ transcript = None /\ registration_state = "done" /\ k < n
      /\ m <= EndOf(k, random_messages_at_end)
      /\ m \notin DOMAIN challenges
      /\ challenges' = Inserted(challenges, m, << >>)
      /\ UNCHANGED <<vars, queries, index, pow_registered, oracle_contents, Merkle_trees,
                     processed_MTs, hashchain, pow_answer, prover_stopped, transcript,
                     verifierVars>>
  BY DEF ProverReadsChallenge
<1>2. /\ UNCHANGED <<roundVars, registrationVars, registration_state, runVars>>
      /\ UNCHANGED <<oracles_present, prover_messages_present, num_prover_rounds_done>>
  BY <1>1 DEF vars, runVars
<1>3. IInv'
  BY <1>1, NextPreserves DEF BcsInv
<1>4. UNCHANGED Described
  BY <1>1, <1>2 DEF Described
<1>5. DescriptionInv' /\ IndexInv' /\ QueryInv'
  BY <1>1, <1>4, DescribedStays
<1>6. TreesInv' /\ ChainInv'
  BY <1>1, <1>2, <1>4, TreesStay, ChainStays
<1>7. TranscriptInv' /\ VerifierInv'
  BY <1>1, VerifierWaits
<1>8. ContentsInv'
  BY <1>1, <1>2 DEF BcsInv, ContentsInv, registrationVars
<1>9. m \in RoundEntries(0, random_messages_at_end)
  <2>1. /\ k \in Nat /\ n \in Nat
        /\ random_messages_at_end \in Seq(Nat)
        /\ Len(random_messages_at_end) = n
        /\ Boundaries(random_messages_at_end, num_random_messages)
        /\ num_random_messages \in Nat
    BY <1>1 DEF BcsInv, IInv, TypeOK, RoundsAreConsecutive
  <2>2. k + 1 \in 1..Len(random_messages_at_end) /\ m \in 1..random_messages_at_end[k + 1]
    BY <1>1, <2>1 DEF RandomMessages, EndOf
  <2>3. PICK r \in 0..((k + 1) - 1) : m \in RoundEntries(r, random_messages_at_end)
    BY <2>1, <2>2, EntryHasARound
  <2>4. CASE r = 0
    BY <2>3, <2>4
  <2>5. CASE r # 0
    <3>1. r - 1 \in 0..(k - 1) /\ r - 1 # n - 1 /\ (r - 1) + 1 = r
      BY <1>1, <2>1, <2>5
    <3>2. m \in SqueezedAfter(r - 1)
      BY <2>3, <3>1 DEF SqueezedAfter
    <3>3. m \in DOMAIN challenges
      BY <3>1, <3>2 DEF BcsInv, ChallengesInv
    <3> QED BY <1>1, <3>3
  <2> QED BY <2>4, <2>5
<1>10. ChallengesInv'
  <2>1. /\ \A q : SqueezedAfter(q)' = SqueezedAfter(q)
        /\ \A e, q : TheChallenge(e, q)' = TheChallenge(e, q)
        /\ RoundEntries(0, random_messages_at_end)' = RoundEntries(0, random_messages_at_end)
        /\ RandomMessages' = RandomMessages
        /\ num_interaction_rounds' = num_interaction_rounds
    BY <1>2, SealedStays
       DEF RoundEntries, BeginOf, EndOf, RandomMessages, roundVars, registrationVars
  <2>2. /\ \A e \in DOMAIN challenges :
             \/ /\ num_interaction_rounds >= 1
                /\ e \in RoundEntries(0, random_messages_at_end)
                /\ e \in RandomMessages
                /\ challenges[e] = << >>
             \/ \E r \in 0..(k - 1) : e \in SqueezedAfter(r)
        /\ \A r \in 0..(k - 1) : \A e \in SqueezedAfter(r) :
             e \in DOMAIN challenges /\ challenges[e] = TheChallenge(e, r)
    BY DEF BcsInv, ChallengesInv
  <2>3. /\ DOMAIN challenges' = DOMAIN challenges \union {m}
        /\ challenges'[m] = << >>
        /\ \A e \in DOMAIN challenges : challenges'[e] = challenges[e]
    BY <1>1 DEF Inserted
  <2>4. n >= 1
    BY <1>1 DEF BcsInv, IInv, TypeOK
  <2> QED BY <1>1, <1>2, <1>9, <2>1, <2>2, <2>3, <2>4 DEF ChallengesInv
<1> QED BY <1>3, <1>5, <1>6, <1>7, <1>8, <1>10 DEF BcsInv

\* submit_prover_index: round 0 is as the indexer has left it.
LEMMA ProverSubmitsIndexStep ==
  ASSUME BcsInv, ProverSubmitsIndex
  PROVE  BcsInv'
<1> DEFINE n == num_interaction_rounds
           k == Len(RoundTrees(0))
<1>1. /\ ~prover_stopped /\ index # None
      /\ SubmitProverIndex
      /\ oracle_contents' = [o \in RoundEntries(0, oracles_at_end) |-> index.oracles[o]]
      /\ RunHashchain(0, Merkle_trees, FALSE)
      /\ UNCHANGED <<queries, index, pow_registered, Merkle_trees, prover_stopped,
                     transcript, verifierVars>>
  BY DEF ProverSubmitsIndex
<1>2. /\ registration_state = "done" /\ registration_state' = "done"
      /\ num_prover_rounds_done = 0 /\ num_prover_rounds_done' = 1
      /\ oracles_present' = oracles_present \union RoundEntries(0, oracles_at_end)
      /\ UNCHANGED <<roundVars, registrationVars, registration_state>>
  BY <1>1 DEF SubmitProverIndex
<1>3. /\ IInv /\ n \in Nat /\ 0 < n /\ 0 \in 0..(n - 1) /\ 0 + 1 = 1
      /\ domains \in Seq(DomainSizes)
  BY <1>2 DEF BcsInv, IInv, TypeOK, SealedState
<1>4. IInv'
  BY <1>1, <1>3, SubmitProverIndexStep
<1>5. UNCHANGED Described
  BY <1>1, <1>2 DEF Described
<1>6. DescriptionInv' /\ IndexInv' /\ QueryInv'
  BY <1>2, <1>5, DescribedStays
<1>7. transcript = None
  BY <1>2, <1>3 DEF BcsInv, ChainInv, Ended
<1>8. TranscriptInv' /\ VerifierInv'
  BY <1>1, <1>7, VerifierWaits
<1>9. /\ is_holographic
      /\ \A o \in 1..oracles_at_end[1] : index.oracles[o] = o
  BY <1>1 DEF BcsInv, IndexInv
<1>10. /\ Built(0) = << >> /\ Len(Built(0)) = 0 /\ processed_MTs = 0
       /\ k \in Nat /\ Len(AllTrees) \in Nat
       /\ AllTrees \in Seq(Trees) /\ DOMAIN AllTrees = 1..Len(AllTrees)
       /\ Len(Built(1)) = k /\ k <= Len(AllTrees)
       /\ \A i \in 1..k : AllTrees[i] = RoundTrees(0)[i]
       /\ RoundTrees(0) \in Seq(Trees)
  <2>1. Built(0) = << >> /\ Len(Built(0)) = 0
    <3>1. Built(0) = << >>
      BY NothingInNoRounds
    <3> QED BY <3>1
  <2>2. processed_MTs = 0
    BY <1>2, <2>1 DEF BcsInv, TreesInv
  <2>3. /\ Len(Built(0)) \in Nat /\ k \in Nat /\ Len(AllTrees) \in Nat
        /\ AllTrees \in Seq(Trees) /\ DOMAIN AllTrees = 1..Len(AllTrees)
        /\ Len(Built(0 + 1)) = Len(Built(0)) + k
        /\ Len(Built(0)) + k <= Len(AllTrees)
        /\ \A i \in 1..k : AllTrees[Len(Built(0)) + i] = RoundTrees(0)[i]
    BY <1>3, RoundAmongTrees
  <2>4. /\ \A i \in 1..k : Len(Built(0)) + i = i
        /\ Len(Built(0)) + k = k
    BY <2>1, <2>3
  <2>5. RoundTrees(0) \in Seq(Trees)
    BY <1>3, RoundTreesType
  <2> HIDE DEF k
  <2>6. /\ Len(Built(1)) = k /\ k <= Len(AllTrees)
        /\ \A i \in 1..k : AllTrees[i] = RoundTrees(0)[i]
    BY <1>3, <2>3, <2>4, Zenon
  <2> QED BY <2>1, <2>2, <2>3, <2>5, <2>6
<1>11. \A i \in 1..k : AllTrees[i][1] = 0
  <2>1. RoundTrees(0) \in Seq(TreesBetween(0, 0))
    BY <1>3, RoundTreesType
  <2>2. \A t \in TreesBetween(0, 0) : t[1] = 0
    BY DEF TreesBetween
  <2>3. \A i \in 1..k : RoundTrees(0)[i] \in TreesBetween(0, 0)
    BY <2>1
  <2> QED BY <1>10, <2>2, <2>3
<1>12. Merkle_trees = [i \in DOMAIN AllTrees |->
         IF AllTrees[i][1] = 0 THEN AllTrees[i] ELSE Unbuilt]
  <2>1. Merkle_trees = [i \in DOMAIN AllTrees |->
          IF i <= processed_MTs \/ (is_holographic /\ AllTrees[i][1] = 0)
          THEN AllTrees[i] ELSE Unbuilt]
    BY <1>2 DEF BcsInv, TreesInv
  <2> QED BY <1>9, <1>10, <2>1
<1>13. SubSeq(Merkle_trees, processed_MTs + 1, processed_MTs + k) = RoundTrees(0)
  <2> HIDE DEF k
  <2>1. Merkle_trees \in Seq(Trees \union {Unbuilt}) /\ Len(Merkle_trees) = Len(AllTrees)
    <3>1. \A i \in DOMAIN AllTrees :
            (IF AllTrees[i][1] = 0 THEN AllTrees[i] ELSE Unbuilt) \in Trees \union {Unbuilt}
      BY <1>10
    <3> QED BY <1>10, <1>12, <3>1
  <2>2. \A i \in 1..k : 0 + i = i /\ i \in DOMAIN AllTrees /\ Merkle_trees[i] = RoundTrees(0)[i]
    BY <1>10, <1>11, <1>12
  <2>3. SubSeq(Merkle_trees, 0 + 1, 0 + k) = [i \in 1..k |-> Merkle_trees[0 + i]]
    <3>1. 0 \in Nat /\ 0 + k <= Len(Merkle_trees)
      BY <1>10, <2>1
    <3> QED BY <1>10, <2>1, <3>1, CutType
  <2>4. RoundTrees(0) = [i \in 1..k |-> RoundTrees(0)[i]]
    BY <1>10, SeqAsFunction DEF k
  <2>5. [i \in 1..k |-> Merkle_trees[0 + i]] = [i \in 1..k |-> RoundTrees(0)[i]]
    BY <2>2
  <2> QED BY <1>10, <2>3, <2>4, <2>5, Zenon
<1>14. processed_MTs' = Len(Built(0 + 1)) /\ ChainInv' /\ ChallengesInv'
  <2>1. 0 = num_prover_rounds_done /\ 0 < num_interaction_rounds
        /\ num_prover_rounds_done' = 0 + 1 /\ transcript' = None
    BY <1>1, <1>2, <1>3, <1>7
  <2>2. RunHashchain(0, Merkle_trees, 0 = num_interaction_rounds - 1)
    <3>1. ~(0 = num_interaction_rounds - 1)
      BY <1>2, <1>3, <1>9 DEF BcsInv, DescriptionInv
    <3>2. (0 = num_interaction_rounds - 1) = FALSE
      BY <3>1
    <3> QED BY <1>1, <3>2, Zenon
  <2> QED BY <1>1, <1>2, <1>5, <1>13, <2>1, <2>2, RunHashchainKeeps
<1>15. TreesInv'
  <2>1. AllTrees' = AllTrees /\ Built(1)' = Built(1)
    BY <1>2, SealedStays
  <2>2. processed_MTs' = k /\ processed_MTs' = Len(Built(num_prover_rounds_done))'
    <3>1. Built(num_prover_rounds_done)' = Built(1)'
      BY <1>2
    <3> QED BY <1>3, <1>10, <1>14, <2>1, <3>1
  <2>3. Merkle_trees' = [i \in DOMAIN AllTrees' |->
          IF i <= processed_MTs' \/ (is_holographic' /\ AllTrees'[i][1] = 0)
          THEN AllTrees'[i] ELSE Unbuilt]
    <3>1. \A i \in DOMAIN AllTrees : i <= k => AllTrees[i][1] = 0
      BY <1>10, <1>11
    <3>2. Merkle_trees' = Merkle_trees /\ is_holographic'
      BY <1>1, <1>2, <1>9 DEF registrationVars
    <3> HIDE DEF k
    <3> QED BY <1>12, <2>1, <2>2, <3>1, <3>2
  <2>4. prover_stopped' = FALSE /\ pow_registered' \in BOOLEAN
    BY <1>1 DEF BcsInv, TreesInv
  <2> QED BY <1>2, <2>2, <2>3, <2>4 DEF TreesInv
<1>16. ContentsInv'
  <2>1. oracles_present = {}
    BY <1>2, <1>9 DEF BcsInv, ContentsInv
  <2>2. RoundEntries(0, oracles_at_end) = 1..oracles_at_end[1]
    <3>1. 1 \in DOMAIN oracles_at_end /\ oracles_at_end \in Seq(Nat)
      BY <1>3 DEF IInv, TypeOK, RoundsAreConsecutive
    <3> QED BY <3>1 DEF RoundEntries, BeginOf, EndOf
  <2>3. /\ DOMAIN oracle_contents' = oracles_present'
        /\ \A o \in oracles_present' : oracle_contents'[o] = o
    BY <1>1, <1>2, <1>9, <2>1, <2>2
  <2> QED BY <1>2, <2>3 DEF ContentsInv
<1> QED BY <1>4, <1>6, <1>8, <1>14, <1>15, <1>16 DEF BcsInv

\* A position is squeezed from the chain that goes on from the challenge of the
\* proof of work.
LEMMA PositionsFollowTheChallenge ==
  ASSUME IInv, NEW k \in Nat
  PROVE  /\ PositionFrom(Sealed(0), k) = Sealed(k)
         /\ Sealed(k) \in Seq(Items)
         /\ Len(Sealed(k)) = Len(Said(num_interaction_rounds)) + 1 + k
<1>1. /\ Sealed(0) = Append(Said(num_interaction_rounds), Squeeze("pow"))
      /\ Sealed(0) \in Seq(Items)
      /\ Said(num_interaction_rounds) \in Seq(Items)
  BY SealedZero
<1>2. PositionFrom(Sealed(0), k) = Sealed(k)
  BY <1>1, Zenon DEF PositionFrom, Sealed
<1>3. Squeezes("position", k) \in Seq(Items) /\ Len(Squeezes("position", k)) = k
  BY SqueezesType
<1>4. Sealed(k) = Sealed(0) \o Squeezes("position", k)
  BY <1>2 DEF PositionFrom
<1>5. Len(Sealed(0)) = Len(Said(num_interaction_rounds)) + 1
  <2>1. Squeeze("pow") \in Items
    BY DEF Squeeze, Items, Operations
  <2> QED BY <1>1, <2>1, AppendType
<1>6. Sealed(k) \in Seq(Items) /\ Len(Sealed(k)) = Len(Sealed(0)) + k
  BY <1>1, <1>3, <1>4, ConcatType, ZenonT(40)
<1> QED BY <1>2, <1>5, <1>6

\* Finitely many positions are queried.
LEMMA PositionsAreFinite ==
  ASSUME QueryInv, NEW I, I \subseteq DOMAIN queries
  PROVE  IsFiniteSet({queries[i].position : i \in I})
<1>1. IsFiniteSet(DOMAIN queries)
  <2>1. DOMAIN queries = 1..Len(queries) /\ Len(queries) \in Nat
    BY DEF QueryInv
  <2>2. IsFiniteSet(1..Len(queries))
    BY <2>1, FS_Interval
  <2> QED BY <2>1, <2>2
<1>2. IsFiniteSet(I)
  BY <1>1, FS_Subset
<1> DEFINE f == [i \in DOMAIN queries |-> queries[i].position]
<1>3. IsFiniteSet({f[i] : i \in I})
  <2> HIDE DEF f
  <2> QED BY <1>2, ImageIsFinite
<1> QED BY <1>3

\* What a tree is opened to does not depend on the prover's run.
LEMMA OpeningStays ==
  ASSUME UNCHANGED <<roundVars, registrationVars, queries>>
  PROVE  \A t : TheOpening(t)' = TheOpening(t)
<1>1. SUFFICES ASSUME NEW t PROVE TheOpening(t)' = TheOpening(t)
  OBVIOUS
<1> DEFINE asked(os) == {j \in DOMAIN queries : queries[j].oracle \in os}
           at(c, os) == {PositionFrom(c, queries[i].position) : i \in asked(os)}
           shown(os) == [o \in os |-> o]
<1>2. OraclesOfTree(t)' = OraclesOfTree(t) /\ Sealed(0)' = Sealed(0)
  BY SealedStays
<1>3. TheOpening(t) = [positions |-> at(Sealed(0), OraclesOfTree(t)),
                       columns |-> shown(OraclesOfTree(t))]
  BY Zenon DEF TheOpening
<1>4. TheOpening(t)' = [positions |-> at(Sealed(0)', OraclesOfTree(t)'),
                        columns |-> shown(OraclesOfTree(t)')]
  BY DEF TheOpening, PositionFrom, Squeezes, Squeeze
<1> HIDE DEF at, shown
<1> QED BY <1>2, <1>3, <1>4, Zenon

\* get_transcript: with the index in front of it, the transcript has every tree and
\* every message, and each tree is opened to its oracles.
LEMMA GetTranscriptStep ==
  ASSUME BcsInv, GetTranscript
  PROVE  BcsInv'
<1> DEFINE n == num_interaction_rounds
           ids == MessageIds(Len(prover_message_registrations))
           sent == WithoutIndex(Merkle_trees, ids)
           opening(t) ==
             [positions |-> {PositionFrom(hashchain, queries[i].position) :
                               i \in {j \in DOMAIN queries :
                                        queries[j].oracle \in OraclesOfTree(t)}},
              columns |-> [o \in OraclesOfTree(t) |-> oracle_contents[o]]]
<1>1. /\ ~prover_stopped /\ transcript = None
      /\ registration_state = "done" /\ num_prover_rounds_done = n
      /\ transcript' = [roots |-> sent.roots,
                        messages |-> sent.messages,
                        openings |-> [i \in DOMAIN AllTrees |-> opening(AllTrees[i])],
                        proof_of_work |-> pow_answer]
      /\ hashchain' = PositionFrom(hashchain, NumPositions)
      /\ UNCHANGED <<vars, queries, index, pow_registered, oracle_contents, Merkle_trees,
                     processed_MTs, challenges, pow_answer, prover_stopped, verifierVars>>
  BY DEF GetTranscript
<1>2. /\ UNCHANGED <<roundVars, registrationVars, registration_state, runVars>>
      /\ UNCHANGED <<oracles_present, prover_messages_present, num_prover_rounds_done>>
  BY <1>1 DEF vars, runVars
<1>3. IInv /\ n \in Nat /\ domains \in Seq(DomainSizes) /\ TypeOK
  BY DEF BcsInv, IInv, TypeOK
<1>4. IInv'
  BY <1>1, <1>3, NextPreserves
<1>5. UNCHANGED Described
  BY <1>1, <1>2 DEF Described
<1>6. DescriptionInv' /\ IndexInv' /\ QueryInv'
  BY <1>1, <1>5, DescribedStays
<1>7. TreesInv' /\ ChallengesInv'
  BY <1>1, <1>2, <1>5, TreesStay, ChallengesStay
<1>8. ContentsInv'
  BY <1>1, <1>2 DEF BcsInv, ContentsInv, registrationVars
<1>9. Ended /\ pow_answer = Said(n) /\ hashchain = Sealed(0)
  BY <1>1 DEF BcsInv, ChainInv, Ended
<1> HIDE DEF opening, sent
<1>10. transcript' # None
  <2>1. "roots" \in DOMAIN transcript' /\ "roots" \notin DOMAIN None
    BY <1>1 DEF None
  <2> QED BY <2>1
<1>11. ChainInv'
  <2>1. Ended'
    BY <1>2, <1>9 DEF Ended, roundVars
  <2>2. NumPositions \in Nat /\ NumPositions' = NumPositions
    <3>1. QueryInv
      BY DEF BcsInv
    <3>2. IsFiniteSet({queries[i].position : i \in DOMAIN queries})
      BY <3>1, PositionsAreFinite
    <3>3. NumPositions \in Nat
      BY <3>2, FS_CardinalityType DEF NumPositions
    <3> QED BY <1>1, <3>3 DEF NumPositions
  <2>3. hashchain' = Sealed(NumPositions)
    BY <1>1, <1>3, <1>9, <2>2, PositionsFollowTheChallenge
  <2>4. /\ Said(num_interaction_rounds)' = Said(num_interaction_rounds)
        /\ Sealed(NumPositions)' = Sealed(NumPositions)
    <3>1. \A k : Said(k)' = Said(k) /\ Sealed(k)' = Sealed(k)
      BY <1>2, SealedStays
    <3>2. num_interaction_rounds' = num_interaction_rounds
      BY <1>2 DEF roundVars
    <3> QED BY <2>2, <3>1, <3>2
  <2>5. pow_answer' = Said(num_interaction_rounds)
    BY <1>1, <1>9
  <2> QED BY <1>10, <2>1, <2>3, <2>4, <2>5 DEF ChainInv
<1>12. Merkle_trees = AllTrees /\ AllTrees \in Seq(Trees)
  <2>1. AllTrees = Built(n) /\ AllTrees \in Seq(Trees)
    BY <1>3, AllTreesType
  <2>2. processed_MTs = Len(AllTrees)
    BY <1>1, <2>1 DEF BcsInv, TreesInv
  <2>3. Merkle_trees = [i \in DOMAIN AllTrees |->
          IF i <= processed_MTs \/ (is_holographic /\ AllTrees[i][1] = 0)
          THEN AllTrees[i] ELSE Unbuilt]
    BY <1>1 DEF BcsInv, TreesInv
  <2>4. DOMAIN AllTrees = 1..Len(AllTrees) /\ AllTrees = [i \in 1..Len(AllTrees) |-> AllTrees[i]]
    BY <2>1, SeqAsFunction
  <2> HIDE DEF n
  <2>5. Merkle_trees = [i \in 1..Len(AllTrees) |-> AllTrees[i]]
    BY <2>2, <2>3, <2>4
  <2> QED BY <2>1, <2>4, <2>5, Zenon
<1>13. VerifierRoots' = AllTrees
  <2>1. transcript'.roots = sent.roots /\ index' = index
    BY <1>1
  <2>2. CASE index = None
    <3>1. sent.roots = AllTrees
      BY <1>12, <2>2 DEF sent, WithoutIndex
    <3> QED BY <2>1, <2>2, <3>1 DEF VerifierRoots
  <2>3. CASE index # None
    <3>1. index.trees = RoundTrees(0) /\ n >= 1
      BY <2>3 DEF BcsInv, IndexInv
    <3>2. sent.roots = SubSeq(AllTrees, Len(RoundTrees(0)) + 1, Len(AllTrees))
      BY <1>12, <2>3, <3>1 DEF sent, WithoutIndex
    <3>3. PICK rest \in Seq(Trees) : AllTrees = RoundTrees(0) \o rest
      <4>1. AllTrees = Built(1 + (n - 1)) /\ n - 1 \in Nat
        <5>1. 1 + (n - 1) = n
          BY <1>3
        <5> QED BY <1>3, <3>1, <5>1, AllTreesType
      <4>2. PICK rest \in Seq(Trees) : Built(1 + (n - 1)) = Built(1) \o rest
        BY <1>3, <4>1, BuiltBegins
      <4>3. Built(1) = RoundTrees(0)
        <5>1. Built(0) = << >> /\ 0 + 1 = 1
          BY NothingInNoRounds
        <5>3. Built(0 + 1) = Built(0) \o RoundTrees(0)
          <6>1. 0 \in Nat
            OBVIOUS
          <6> QED BY <1>3, <6>1, BuiltGrows, Zenon
        <5>2. << >> \o RoundTrees(0) = RoundTrees(0)
          BY <1>3, RoundTreesType, ConcatEmpty
        <5> QED BY <5>1, <5>2, <5>3, Zenon
      <4> QED BY <4>1, <4>2, <4>3, Zenon
    <3>4. RoundTrees(0) \in Seq(Trees)
      BY <1>3, RoundTreesType
    <3>5. SubSeq(RoundTrees(0) \o rest, Len(RoundTrees(0)) + 1, Len(RoundTrees(0) \o rest)) = rest
      BY <3>4, CutBehind
    <3>6. sent.roots = rest
      BY <3>2, <3>3, <3>5, Zenon
    <3> QED BY <2>1, <2>3, <3>1, <3>3, <3>6 DEF VerifierRoots
  <2> QED BY <2>2, <2>3
<1>14. VerifierMessages' = ids
  <2>1. transcript'.messages = sent.messages /\ index' = index
    BY <1>1
  <2>2. CASE index = None
    <3>1. sent.messages = ids
      BY <2>2 DEF sent, WithoutIndex
    <3> QED BY <2>1, <2>2, <3>1 DEF VerifierMessages
  <2>3. CASE index # None
    <3> DEFINE b == prover_messages_at_end[1]
               e == Len(prover_message_registrations)
    <3>1. /\ index.messages = MessageIds(b) /\ index.verifier_messages = MessageIds(b)
          /\ n >= 1
      BY <2>3 DEF BcsInv, IndexInv
    <3>2. b \in Nat /\ e \in Nat /\ b <= e
      <4>1. /\ 1 \in DOMAIN prover_messages_at_end /\ prover_messages_at_end \in Seq(Nat)
            /\ Boundaries(prover_messages_at_end, e) /\ e \in Nat
        BY <1>3, <3>1 DEF IInv, TypeOK, RoundsAreConsecutive
      <4> QED BY <4>1 DEF Boundaries
    <3> HIDE DEF b, e
    <3>3. /\ MessageIds(b) \o SubSeq(MessageIds(e), b + 1, e) = MessageIds(e)
          /\ Len(MessageIds(e)) = e
      <4>1. e <= e
        BY <3>2
      <4> QED BY <3>2, <4>1, MessageIdsCut, Zenon
    <3>4. Len(MessageIds(b)) = b
      <4>1. b <= b
        BY <3>2
      <4> QED BY <3>2, <4>1, MessageIdsCut, Zenon
    <3>5. ids = MessageIds(e)
      BY DEF e
    <3>6. sent.messages = SubSeq(MessageIds(e), b + 1, e)
      BY <2>3, <3>1, <3>3, <3>4, <3>5 DEF sent, WithoutIndex
    <3> QED BY <2>1, <2>3, <3>1, <3>3, <3>5, <3>6 DEF VerifierMessages
  <2> QED BY <2>2, <2>3
<1>15. \A i \in DOMAIN AllTrees : opening(AllTrees[i]) = TheOpening(AllTrees[i])
  <2>1. SUFFICES ASSUME NEW i \in DOMAIN AllTrees
                 PROVE  opening(AllTrees[i]) = TheOpening(AllTrees[i])
    OBVIOUS
  <2>2. AllTrees[i][1] \in 0..(n - 1)
    <3>1. AllTrees \in Seq(TreesBetween(0, n - 1))
      BY <1>3, AllTreesType, BuiltType
    <3>2. \A t \in TreesBetween(0, n - 1) : t[1] \in 0..(n - 1)
      BY DEF TreesBetween
    <3> HIDE DEF n
    <3>3. AllTrees[i] \in TreesBetween(0, n - 1)
      BY <3>1
    <3> QED BY <3>2, <3>3
  <2>3. RoundEntries(AllTrees[i][1], oracles_at_end) \subseteq oracles_present
    <3>1. AllTrees[i][1] < num_prover_rounds_done
      BY <1>1, <1>3, <2>2
    <3> QED BY <1>3, <2>2, <3>1 DEF IInv, SubmissionsFollowRounds
  <2>4. \A o \in OraclesOfTree(AllTrees[i]) : oracle_contents[o] = o
    BY <2>3 DEF OraclesOfTree, BcsInv, ContentsInv
  <2>5. [o \in OraclesOfTree(AllTrees[i]) |-> oracle_contents[o]]
          = [o \in OraclesOfTree(AllTrees[i]) |-> o]
    BY <2>4
  <2> QED BY <1>9, <2>5, ZenonT(40) DEF opening, TheOpening
<1>16. TranscriptInv'
  <2>1. AllTrees' = AllTrees /\ \A k : Said(k)' = Said(k) /\ \A t : OraclesOfTree(t)' = OraclesOfTree(t)
        /\ Sealed(0)' = Sealed(0)
    BY <1>2, SealedStays
  <2>2. /\ UNCHANGED <<queries, prover_message_registrations, num_interaction_rounds>>
    BY <1>1, <1>2 DEF roundVars, registrationVars
  <2>3. \A t : TheOpening(t)' = TheOpening(t)
    BY <1>2, <2>2, OpeningStays
  <2>4. /\ transcript'.proof_of_work = Said(n)
        /\ transcript'.openings = [i \in DOMAIN AllTrees |-> TheOpening(AllTrees[i])]
    BY <1>1, <1>9, <1>15
  <2>5. VerifierRoots' = AllTrees'
    BY <1>13, <2>1
  <2>6. VerifierMessages' = MessageIds(Len(prover_message_registrations))'
    BY <1>14, <2>2 DEF MessageIds
  <2>7. transcript'.proof_of_work = Said(num_interaction_rounds)'
    BY <2>1, <2>2, <2>4
  <2>8. transcript'.openings = [i \in DOMAIN AllTrees' |-> TheOpening(AllTrees[i])']
    BY <2>1, <2>3, <2>4
  <2> QED BY <2>5, <2>6, <2>7, <2>8 DEF TranscriptInv
<1>17. VerifierInv'
  <2>1. verdict = "none"
    BY <1>1 DEF BcsInv, VerifierInv
  <2> QED BY <1>1, <2>1 DEF BcsInv, VerifierInv, verifierVars
<1> QED BY <1>4, <1>6, <1>7, <1>8, <1>11, <1>16, <1>17 DEF BcsInv

\* The transcript says the same of the same description.
LEMMA TranscriptStays ==
  ASSUME BcsInv, UNCHANGED Described, UNCHANGED transcript
  PROVE  TranscriptInv'
<1> USE DEF Described
<1>1. /\ UNCHANGED <<queries, index, prover_message_registrations, num_interaction_rounds>>
      /\ UNCHANGED <<roundVars, registrationVars>>
  BY DEF roundVars, registrationVars
<1>2. /\ AllTrees' = AllTrees
      /\ Said(num_interaction_rounds)' = Said(num_interaction_rounds)
      /\ \A t : TheOpening(t)' = TheOpening(t)
  <2>1. AllTrees' = AllTrees /\ \A k : Said(k)' = Said(k)
    BY <1>1, SealedStays
  <2>2. \A t : TheOpening(t)' = TheOpening(t)
    BY <1>1, OpeningStays
  <2> QED BY <1>1, <2>1, <2>2
<1>3. VerifierRoots' = VerifierRoots /\ VerifierMessages' = VerifierMessages
  BY <1>1 DEF VerifierRoots, VerifierMessages, None
<1>4. MessageIds(Len(prover_message_registrations))' = MessageIds(Len(prover_message_registrations))
  BY <1>1 DEF MessageIds
<1>5. [i \in DOMAIN AllTrees' |-> TheOpening(AllTrees[i])']
        = [i \in DOMAIN AllTrees |-> TheOpening(AllTrees[i])]
  BY <1>2
<1>6. transcript # None =>
        /\ VerifierRoots' = AllTrees'
        /\ VerifierMessages' = MessageIds(Len(prover_message_registrations))'
        /\ transcript.proof_of_work = Said(num_interaction_rounds)'
        /\ transcript.openings = [i \in DOMAIN AllTrees' |-> TheOpening(AllTrees[i])']
  BY <1>2, <1>3, <1>4, <1>5, Zenon DEF BcsInv, TranscriptInv
<1>7. transcript' = transcript
  OBVIOUS
<1> QED BY <1>6, <1>7 DEF TranscriptInv, None

\* The verifier runs when the prover has ended, and changes nothing of it.
LEMMA VerifierRuns ==
  ASSUME BcsInv, transcript # None,
         UNCHANGED <<vars, queries, index, pow_registered, proverVars>>
  PROVE  /\ registration_state = "done" /\ num_prover_rounds_done = num_interaction_rounds
         /\ UNCHANGED Described
         /\ IInv' /\ DescriptionInv' /\ IndexInv' /\ QueryInv' /\ ContentsInv'
         /\ TreesInv' /\ ChainInv' /\ ChallengesInv' /\ TranscriptInv'
<1>1. registration_state = "done" /\ num_prover_rounds_done = num_interaction_rounds
  BY DEF BcsInv, ChainInv, Ended
<1>2. UNCHANGED Described
  BY DEF vars, Described, roundVars, registrationVars
<1>3. /\ UNCHANGED <<num_prover_rounds_done, oracles_present, prover_messages_present>>
      /\ is_holographic' = is_holographic
      /\ UNCHANGED <<oracle_contents, Merkle_trees, processed_MTs, hashchain, challenges,
                     pow_answer, prover_stopped, transcript>>
  BY DEF vars, runVars, registrationVars, proverVars
<1>4. IInv'
  BY NextPreserves DEF BcsInv
<1>5. DescriptionInv' /\ IndexInv' /\ QueryInv'
  BY <1>1, <1>2, DescribedStays
<1>6. ContentsInv'
  BY <1>3 DEF BcsInv, ContentsInv
<1>7. TreesInv' /\ ChainInv' /\ ChallengesInv'
  BY <1>1, <1>2, <1>3, TreesStay, ChainStays, ChallengesStay
<1>8. TranscriptInv'
  BY <1>2, <1>3, TranscriptStays
<1> QED BY <1>1, <1>2, <1>4, <1>5, <1>6, <1>7, <1>8

\* What the verifier takes out of the transcript for a round is the round's.
LEMMA RoundsAreReplayed ==
  ASSUME BcsInv, transcript # None, NEW r \in 0..(num_interaction_rounds - 1)
  PROVE  ReplayedRoots(r) = RoundTrees(r) /\ ReplayedMessages(r) = RoundMessages(r)
<1>1. /\ VerifierRoots = AllTrees
      /\ VerifierMessages = MessageIds(Len(prover_message_registrations))
  BY DEF BcsInv, TranscriptInv
<1>2. ReplayedMessages(r) = RoundMessages(r)
  BY <1>1, Zenon DEF ReplayedMessages, RoundMessages
<1> DEFINE b == Len(Built(r))
           k == Len(RoundTrees(r))
<1>3. /\ b \in Nat /\ k \in Nat /\ AllTrees \in Seq(Trees) /\ b + k <= Len(AllTrees)
      /\ \A i \in 1..k : AllTrees[b + i] = RoundTrees(r)[i]
  BY RoundAmongTrees DEF BcsInv
<1>4. ReplayedRoots(r) = SubSeq(AllTrees, b + 1, b + k)
  BY <1>1, Zenon DEF ReplayedRoots, Built, RoundTrees
<1>5. RoundTrees(r) = [i \in 1..k |-> RoundTrees(r)[i]]
  <2>1. domains \in Seq(DomainSizes) /\ r \in Nat
    BY DEF BcsInv, IInv, TypeOK
  <2>2. RoundTrees(r) \in Seq(Trees)
    BY <2>1, RoundTreesType
  <2> QED BY <2>2, SeqAsFunction
<1> HIDE DEF b, k
<1>6. SubSeq(AllTrees, b + 1, b + k) = [i \in 1..k |-> AllTrees[b + i]]
  BY <1>3, CutType
<1>7. [i \in 1..k |-> AllTrees[b + i]] = [i \in 1..k |-> RoundTrees(r)[i]]
  BY <1>3
<1> QED BY <1>2, <1>4, <1>5, <1>6, <1>7, Zenon

\* The verifier's chain is the prover's.
LEMMA ReplayIsSaid ==
  ASSUME BcsInv, transcript # None
  PROVE  \A k \in 0..num_interaction_rounds : Replay[k] = Said(k)
<1> DEFINE n == num_interaction_rounds
           step(chain, k) == HashchainAfter(chain, k, ReplayedRoots(k), ReplayedMessages(k))
           def(g) == [k \in 0..n |-> IF k = 0 THEN << >> ELSE step(g[k - 1], k - 1)]
           said == [k \in 0..n |-> Said(k)]
<1>1. n \in Nat /\ IInv /\ Said(0) = << >>
  BY NothingInNoRounds DEF BcsInv, IInv, TypeOK
<1>2. \A k \in 0..(n - 1) : step(Said(k), k) = Said(k + 1)
  <2>1. SUFFICES ASSUME NEW k \in 0..(n - 1) PROVE step(Said(k), k) = Said(k + 1)
    OBVIOUS
  <2>2. ReplayedRoots(k) = RoundTrees(k) /\ ReplayedMessages(k) = RoundMessages(k)
    BY RoundsAreReplayed
  <2>3. HashchainAfter(Said(k), k, RoundTrees(k), RoundMessages(k)) = Said(k + 1)
    BY <1>1, HashchainIsSaid
  <2> QED BY <2>2, <2>3, Zenon
<1>3. Replay = CHOOSE g : g = def(g)
  BY Zenon DEF Replay
<1> HIDE DEF step, n
<1>4. said = def(said)
  <2>1. \A k \in 0..n : k # 0 => k - 1 \in 0..(n - 1) /\ k - 1 \in 0..n /\ (k - 1) + 1 = k
    BY <1>1
  <2>2. \A k \in 0..n : said[k] = IF k = 0 THEN << >> ELSE step(said[k - 1], k - 1)
    <3>1. SUFFICES ASSUME NEW k \in 0..n
                   PROVE  said[k] = IF k = 0 THEN << >> ELSE step(said[k - 1], k - 1)
      OBVIOUS
    <3>2. CASE k = 0
      BY <1>1, <3>2
    <3>3. CASE k # 0
      <4>1. k - 1 \in 0..(n - 1) /\ k - 1 \in 0..n /\ (k - 1) + 1 = k
        BY <2>1, <3>3
      <4>2. step(Said(k - 1), k - 1) = Said((k - 1) + 1)
        BY <1>2, <4>1
      <4> QED BY <3>3, <4>1, <4>2
    <3> QED BY <3>2, <3>3
  <2> QED BY <2>2
<1>5. Replay = def(Replay)
  <2> HIDE DEF said, def
  <2> QED BY <1>3, <1>4, Zenon
<1> DEFINE N == {k \in Nat : k \in 0..n => Replay[k] = Said(k)}
<1>6. 0 \in N
  BY <1>1, <1>5
<1>7. ASSUME NEW k \in Nat, k \in N PROVE k + 1 \in N
  <2>1. SUFFICES ASSUME k + 1 \in 0..n PROVE Replay[k + 1] = Said(k + 1)
    OBVIOUS
  <2>2. k \in 0..n /\ k \in 0..(n - 1) /\ k + 1 # 0 /\ (k + 1) - 1 = k
    BY <1>1, <2>1
  <2>3. Replay[k + 1] = step(Replay[(k + 1) - 1], (k + 1) - 1)
    BY <1>5, <2>1, <2>2
  <2>4. Replay[k] = Said(k)
    BY <1>7, <2>2
  <2>5. step(Said(k), k) = Said(k + 1)
    BY <1>2, <2>2
  <2> QED BY <2>2, <2>3, <2>4, <2>5
<1> HIDE DEF N
<1>8. N = Nat
  <2>1. N \subseteq Nat
    BY DEF N
  <2> QED BY <1>6, <1>7, <2>1, NatSetInduction
<1>9. ASSUME NEW k \in 0..n PROVE Replay[k] = Said(k)
  <2>1. k \in N
    BY <1>1, <1>8
  <2> QED BY <2>1 DEF N
<1> QED BY <1>9 DEF n

\* And so are its challenges.
LEMMA ChallengesAreReplayed ==
  ASSUME BcsInv, transcript # None
  PROVE  /\ DOMAIN ReplayedChallenges
              = UNION {SqueezedAfter(r) : r \in 0..(num_interaction_rounds - 1)}
         /\ \A r \in 0..(num_interaction_rounds - 1) : \A m \in SqueezedAfter(r) :
              ReplayedChallenges[m] = TheChallenge(m, r)
<1> DEFINE n == num_interaction_rounds
           R == 0..(n - 1)
           of(m) == CHOOSE q \in R : m \in SqueezedAfter(q)
           value(m, q) == ChallengeOf(m, Replay[q], q, ReplayedRoots(q), ReplayedMessages(q))
           all == UNION {SqueezedAfter(r) : r \in R}
<1>1. n \in Nat /\ IInv /\ registration_state = "done"
  BY DEF BcsInv, IInv, TypeOK, ChainInv, Ended
<1>2. ReplayedChallenges = [m \in all |-> value(m, of(m))]
  BY Zenon DEF ReplayedChallenges
<1>3. ASSUME NEW r \in R, NEW m \in SqueezedAfter(r)
      PROVE  m \in all /\ of(m) = r /\ value(m, r) = TheChallenge(m, r)
  <2>1. of(m) \in R /\ m \in SqueezedAfter(of(m))
    <3>1. \E q \in R : m \in SqueezedAfter(q)
      BY <1>3
    <3> QED BY <3>1, Zenon
  <2> HIDE DEF of
  <2>2. ~(of(m) < r) /\ ~(r < of(m))
    <3>1. ASSUME of(m) < r PROVE FALSE
      <4>1. m \notin SqueezedAfter(of(m))
        BY <1>1, <1>3, <2>1, <3>1, SqueezedOnce
      <4> QED BY <2>1, <4>1
    <3>2. ASSUME r < of(m) PROVE FALSE
      <4>1. m \notin SqueezedAfter(r)
        BY <1>1, <1>3, <2>1, <3>2, SqueezedOnce
      <4> QED BY <1>3, <4>1
    <3> QED BY <3>1, <3>2
  <2>3. of(m) = r
    BY <1>1, <1>3, <2>1, <2>2
  <2>4. ReplayedRoots(r) = RoundTrees(r) /\ ReplayedMessages(r) = RoundMessages(r)
    BY <1>3, RoundsAreReplayed
  <2>5. Replay[r] = Said(r)
    <3>1. r \in 0..n
      BY <1>1, <1>3
    <3> QED BY <3>1, ReplayIsSaid
  <2>6. value(m, r) = TheChallenge(m, r)
    BY <2>4, <2>5, Zenon DEF TheChallenge
  <2> QED BY <1>3, <2>3, <2>6
<1> HIDE DEF of, value
<1>4. DOMAIN ReplayedChallenges = all
  BY <1>2
<1>5. \A r \in R : \A m \in SqueezedAfter(r) : ReplayedChallenges[m] = TheChallenge(m, r)
  <2>1. SUFFICES ASSUME NEW r \in R, NEW m \in SqueezedAfter(r)
                 PROVE  ReplayedChallenges[m] = TheChallenge(m, r)
    OBVIOUS
  <2>2. m \in all /\ of(m) = r /\ value(m, r) = TheChallenge(m, r)
    BY <1>3
  <2> HIDE DEF all
  <2>3. ReplayedChallenges[m] = value(m, of(m))
    BY <1>2, <2>2
  <2> QED BY <2>2, <2>3
<1> QED BY <1>4, <1>5

\* What is said of a verifier that has sealed does not depend on its verdict.
LEMMA VerifierStays ==
  ASSUME BcsInv, verdict # "none", verdict' \in {"sealed", "accepted"},
         UNCHANGED Described,
         UNCHANGED <<transcript, verifier_hashchain, verifier_challenges,
                     transcript_is_valid, num_answered>>
  PROVE  VerifierInv'
<1>1. UNCHANGED <<queries, num_interaction_rounds, roundVars, registrationVars>>
  BY DEF Described, roundVars
<1>2. /\ \A k : Sealed(k)' = Sealed(k)
      /\ \A r : SqueezedAfter(r)' = SqueezedAfter(r)
      /\ \A m, r : TheChallenge(m, r)' = TheChallenge(m, r)
  BY <1>1, SealedStays
<1>3. KnownPositions(num_answered)' = KnownPositions(num_answered)
  BY <1>1 DEF KnownPositions
<1>4. Sealed(KnownPositions(num_answered))' = Sealed(KnownPositions(num_answered))
  BY <1>2, <1>3
<1>5. /\ transcript # None
      /\ transcript_is_valid = TRUE
      /\ num_answered \in 0..Len(queries)
      /\ verifier_hashchain = Sealed(KnownPositions(num_answered))
      /\ DOMAIN verifier_challenges
           = UNION {SqueezedAfter(r) : r \in 0..(num_interaction_rounds - 1)}
      /\ \A r \in 0..(num_interaction_rounds - 1) : \A m \in SqueezedAfter(r) :
           verifier_challenges[m] = TheChallenge(m, r)
  BY DEF BcsInv, VerifierInv
<1>6. /\ DOMAIN verifier_challenges'
           = UNION {SqueezedAfter(r)' : r \in 0..(num_interaction_rounds' - 1)}
      /\ \A r \in 0..(num_interaction_rounds' - 1) : \A m \in SqueezedAfter(r)' :
           verifier_challenges'[m] = TheChallenge(m, r)'
  BY <1>1, <1>2, <1>5
<1>7. transcript' # None' /\ verdict' # "none"
  BY <1>5 DEF None
<1> QED BY <1>1, <1>4, <1>5, <1>6, <1>7 DEF VerifierInv

\* No positions are known before the first query.
LEMMA NothingKnown == KnownPositions(0) = 0
<1>1. {queries[i].position : i \in 1..0} = {}
  OBVIOUS
<1> QED BY <1>1, FS_EmptySet DEF KnownPositions

\* bcs_verifier::seal_interaction_registrations: the rounds are replayed to the
\* prover's chain, and nothing in the transcript is refused.
LEMMA SealVerifierStep ==
  ASSUME BcsInv, SealVerifier
  PROVE  BcsInv'
<1> DEFINE n == num_interaction_rounds
<1>1. /\ verdict = "none" /\ transcript # None
      /\ UNCHANGED <<vars, queries, index, pow_registered, proverVars, num_answered>>
  BY DEF SealVerifier
<1>2. /\ registration_state = "done" /\ num_prover_rounds_done = n
      /\ UNCHANGED Described
      /\ IInv' /\ DescriptionInv' /\ IndexInv' /\ QueryInv' /\ ContentsInv'
      /\ TreesInv' /\ ChainInv' /\ ChallengesInv' /\ TranscriptInv'
  BY <1>1, VerifierRuns
<1>3. /\ VerifierRoots = AllTrees
      /\ transcript.proof_of_work = Said(n)
      /\ transcript.openings = [i \in DOMAIN AllTrees |-> TheOpening(AllTrees[i])]
  BY <1>1 DEF BcsInv, TranscriptInv
<1>4. n \in Nat /\ IInv /\ pow_registered
  BY <1>2 DEF BcsInv, IInv, TypeOK, DescriptionInv
<1>5. IndexHasTheRightSize
  <2>1. SUFFICES ASSUME index # None
                 PROVE  /\ Len(index.trees) = Len(TreesOfRound(0, oracles_at_end))
                        /\ Len(index.verifier_messages) = prover_messages_at_end[1]
    BY DEF IndexHasTheRightSize
  <2>2. /\ n >= 1 /\ index.trees = RoundTrees(0)
        /\ index.verifier_messages = MessageIds(prover_messages_at_end[1])
    BY <2>1 DEF BcsInv, IndexInv
  <2>3. prover_messages_at_end[1] \in Nat
    BY <1>4, <2>2 DEF IInv, TypeOK, RoundsAreConsecutive
  <2>4. Len(MessageIds(prover_messages_at_end[1])) = prover_messages_at_end[1]
    BY <2>3 DEF MessageIds
  <2> QED BY <2>2, <2>4 DEF RoundTrees
<1>6. \A i \in DOMAIN AllTrees : OpeningIsValid(VerifierRoots[i], transcript.openings[i])
  <2>1. SUFFICES ASSUME NEW i \in DOMAIN AllTrees
                 PROVE  OpeningIsValid(VerifierRoots[i], transcript.openings[i])
    OBVIOUS
  <2>2. transcript.openings[i] = TheOpening(AllTrees[i]) /\ VerifierRoots[i] = AllTrees[i]
    BY <1>3
  <2>3. TheOpening(AllTrees[i]).columns = [o \in OraclesOfTree(AllTrees[i]) |-> o]
    BY DEF TheOpening
  <2> QED BY <2>2, <2>3 DEF OpeningIsValid
<1>7. Replay[n] = Said(n)
  <2>1. n \in 0..n
    BY <1>4
  <2> QED BY <1>1, <2>1, ReplayIsSaid
<1>8. /\ verifier_hashchain' = Append(Said(n), Squeeze("pow"))
      /\ verifier_challenges' = ReplayedChallenges
      /\ transcript_is_valid' = TRUE
      /\ verdict' = "sealed"
  <2>1. /\ verifier_hashchain' = Append(Replay[n], Squeeze("pow"))
        /\ verifier_challenges' = ReplayedChallenges
        /\ \E pow_is_valid \in ProofOfWorkResults(Replay[n]) :
             transcript_is_valid' =
               /\ pow_is_valid
               /\ \A i \in DOMAIN AllTrees :
                    OpeningIsValid(VerifierRoots[i], transcript.openings[i])
        /\ verdict' = "sealed"
    BY <1>5, Zenon DEF SealVerifier
  <2>2. ProofOfWorkResults(Replay[n]) = {TRUE}
    <3>1. transcript.proof_of_work = Replay[n]
      BY <1>3, <1>7, Zenon
    <3>2. (transcript.proof_of_work = Replay[n]) = TRUE
      BY <3>1, Zenon
    <3> QED BY <1>4, <3>2, Zenon DEF ProofOfWorkResults
  <2>3. \E pow_is_valid \in {TRUE} :
             transcript_is_valid' =
               /\ pow_is_valid
               /\ \A i \in DOMAIN AllTrees :
                    OpeningIsValid(VerifierRoots[i], transcript.openings[i])
    BY <2>1, <2>2, Zenon
  <2>4. transcript_is_valid' = TRUE
    BY <1>6, <2>3, Zenon
  <2> QED BY <1>7, <2>1, <2>4
<1>9. verifier_hashchain' = Sealed(0) /\ Sealed(0)' = Sealed(0)
  <2>1. UNCHANGED <<roundVars, registrationVars>>
    BY <1>2 DEF Described
  <2>2. \A k : Sealed(k)' = Sealed(k)
    BY <2>1, SealedStays
  <2>3. verifier_hashchain' = Sealed(0)
    BY <1>4, <1>8, SealedZero
  <2> QED BY <2>2, <2>3
<1>10. /\ num_answered' = 0 /\ 0 \in 0..Len(queries')
       /\ KnownPositions(num_answered)' = 0
  <2>1. num_answered = 0 /\ num_answered' = 0 /\ queries' = queries
    BY <1>1 DEF BcsInv, VerifierInv
  <2>2. (KnownPositions(0) = 0)'
    BY NothingKnown, PTL
  <2>3. Len(queries) \in Nat
    BY DEF BcsInv, QueryInv
  <2> QED BY <2>1, <2>2, <2>3
<1>11. /\ DOMAIN verifier_challenges'
            = UNION {SqueezedAfter(r)' : r \in 0..(num_interaction_rounds' - 1)}
       /\ \A r \in 0..(num_interaction_rounds' - 1) : \A m \in SqueezedAfter(r)' :
            verifier_challenges'[m] = TheChallenge(m, r)'
  <2>1. UNCHANGED <<roundVars, registrationVars>>
    BY <1>2 DEF Described
  <2>2. /\ \A r : SqueezedAfter(r)' = SqueezedAfter(r)
        /\ \A m, r : TheChallenge(m, r)' = TheChallenge(m, r)
    BY <2>1, SealedStays
  <2>3. num_interaction_rounds' = num_interaction_rounds
    BY <2>1 DEF roundVars
  <2>4. /\ DOMAIN verifier_challenges'
             = UNION {SqueezedAfter(r) : r \in 0..(num_interaction_rounds - 1)}
        /\ \A r \in 0..(num_interaction_rounds - 1) : \A m \in SqueezedAfter(r) :
             verifier_challenges'[m] = TheChallenge(m, r)
    BY <1>1, <1>8, ChallengesAreReplayed
  <2> QED BY <2>2, <2>3, <2>4
<1>12. VerifierInv'
  <2>1. transcript' # None' /\ verdict' \in {"sealed", "accepted"} /\ verdict' # "none"
    BY <1>1, <1>8 DEF proverVars, None
  <2>2. verifier_hashchain' = Sealed(KnownPositions(num_answered))'
    BY <1>9, <1>10
  <2> QED BY <1>8, <1>10, <1>11, <2>1, <2>2 DEF VerifierInv
<1> QED BY <1>2, <1>12 DEF BcsInv

\* The predicate has the protocol's last word: an honest transcript is accepted.
LEMMA VerifierDecidesStep ==
  ASSUME BcsInv, VerifierDecides
  PROVE  BcsInv'
<1>1. /\ verdict = "sealed" /\ num_answered = Len(queries)
      /\ verdict' = IF transcript_is_valid THEN "accepted" ELSE "rejected"
      /\ UNCHANGED <<vars, queries, index, pow_registered, proverVars>>
      /\ UNCHANGED <<verifier_hashchain, verifier_challenges, transcript_is_valid, num_answered>>
  BY DEF VerifierDecides
<1>2. /\ transcript # None /\ transcript_is_valid = TRUE
  BY <1>1 DEF BcsInv, VerifierInv
<1>3. /\ UNCHANGED Described
      /\ IInv' /\ DescriptionInv' /\ IndexInv' /\ QueryInv' /\ ContentsInv'
      /\ TreesInv' /\ ChainInv' /\ ChallengesInv' /\ TranscriptInv'
  BY <1>1, <1>2, VerifierRuns
<1>4. verdict' = "accepted"
  BY <1>1, <1>2
<1>5. VerifierInv'
  <2>1. verdict # "none" /\ verdict' \in {"sealed", "accepted"} /\ transcript' = transcript
    BY <1>1, <1>4 DEF proverVars
  <2> QED BY <1>1, <1>3, <2>1, VerifierStays
<1> QED BY <1>3, <1>5 DEF BcsInv

\* Positions are numbers from 1 on.
LEMMA PositionsAreNumbers ==
  ASSUME QueryInv, NEW i \in DOMAIN queries
  PROVE  queries[i].position \in Nat \ {0}
<1> DEFINE Query == [oracle : Nat, position : Nat]
<1>1. queries \in Seq(Query)
  BY Zenon DEF QueryInv
<1>2. \A query \in Query : query.position \in Nat
  OBVIOUS
<1> HIDE DEF Query
<1>3. queries[i] \in Query
  BY <1>1
<1>4. queries[i].position # 0
  BY Zenon DEF QueryInv
<1> QED BY <1>2, <1>3, <1>4

\* The positions of the first queries are numbered without a gap.
LEMMA PositionsAreNumbered ==
  ASSUME QueryInv, NEW j \in 0..Len(queries)
  PROVE  /\ {queries[i].position : i \in 1..j} = 1..KnownPositions(j)
         /\ KnownPositions(j) \in Nat
<1> DEFINE P == {queries[i].position : i \in 1..j}
<1>1. Len(queries) \in Nat /\ DOMAIN queries = 1..Len(queries) /\ 1..j \subseteq DOMAIN queries
  BY DEF QueryInv
<1>2. \A i \in 1..j : queries[i].position \in Nat \ {0}
  BY <1>1, PositionsAreNumbers
<1>3. IsFiniteSet(P)
  BY <1>1, PositionsAreFinite
<1>4. ASSUME NEW p \in P, p > 1 PROVE p - 1 \in P
  <2>1. PICK i \in 1..j : p = queries[i].position
    BY <1>4
  <2>2. PICK h \in 1..(i - 1) : queries[h].position = queries[i].position - 1
    BY <1>1, <1>4, <2>1 DEF QueryInv
  <2>3. h \in 1..j
    BY <1>1, <2>2
  <2> QED BY <2>1, <2>2, <2>3
<1>5. P \subseteq Nat \ {0}
  BY <1>2
<1> HIDE DEF P
<1>6. P = 1..Cardinality(P) /\ Cardinality(P) \in Nat
  BY <1>3, <1>4, <1>5, InitialSegment
<1> QED BY <1>6 DEF P, KnownPositions

\* The next query is at a position that is known or at the next one.
LEMMA PositionsGrow ==
  ASSUME QueryInv, NEW j \in Nat, j < Len(queries)
  PROVE  KnownPositions(j + 1) = IF queries[j + 1].position > KnownPositions(j)
                                 THEN queries[j + 1].position ELSE KnownPositions(j)
<1> DEFINE q == queries[j + 1].position
           P(k) == {queries[i].position : i \in 1..k}
<1>1. Len(queries) \in Nat /\ DOMAIN queries = 1..Len(queries)
  BY DEF QueryInv
<1>2. j \in 0..Len(queries) /\ j + 1 \in 0..Len(queries) /\ j + 1 \in DOMAIN queries
  BY <1>1
<1>3. q \in Nat /\ q # 0
  BY <1>2, PositionsAreNumbers
<1>4. /\ P(j) = 1..KnownPositions(j) /\ KnownPositions(j) \in Nat
      /\ P(j + 1) = 1..KnownPositions(j + 1) /\ KnownPositions(j + 1) \in Nat
  BY <1>2, PositionsAreNumbered
<1>5. P(j + 1) = P(j) \union {q}
  <2>1. 1..(j + 1) = (1..j) \union {j + 1}
    BY <1>1
  <2> QED BY <2>1
<1>6. q > 1 => q - 1 \in P(j)
  <2>1. SUFFICES ASSUME q > 1 PROVE q - 1 \in P(j)
    OBVIOUS
  <2>2. PICK h \in 1..((j + 1) - 1) : queries[h].position = q - 1
    BY <1>2, <2>1 DEF QueryInv
  <2>3. h \in 1..j
    BY <2>2
  <2> QED BY <2>2, <2>3
<1> HIDE DEF q, P
<1> DEFINE a == KnownPositions(j)
           b == KnownPositions(j + 1)
<1>7. /\ a \in Nat /\ b \in Nat /\ 1..b = (1..a) \union {q} /\ (q > 1 => q - 1 \in 1..a)
  BY <1>4, <1>5, <1>6
<1> HIDE DEF a, b
<1>8. CASE q > a
  <2>1. q = a + 1
    BY <1>3, <1>7, <1>8
  <2>2. 1..b = 1..(a + 1)
    BY <1>7, <2>1
  <2>3. b = a + 1
    <3>1. a + 1 \in 1..b
      BY <1>7, <2>2
    <3>2. b \in 1..(a + 1)
      BY <1>7, <2>2, <3>1
    <3> QED BY <1>7, <3>1, <3>2
  <2> QED BY <1>8, <2>1, <2>3 DEF a, b, q
<1>9. CASE ~(q > a)
  <2>1. q \in 1..a
    BY <1>3, <1>7, <1>9
  <2>2. 1..b = 1..a
    BY <1>7, <2>1
  <2>3. b = a
    <3>1. a \in 1..b /\ b \in 1..a
      <4>1. a \in 1..a
        BY <1>7, <2>1
      <4>2. a \in 1..b
        BY <2>2, <4>1
      <4>3. b \in 1..b
        BY <1>7, <4>2
      <4> QED BY <2>2, <4>2, <4>3
    <3> QED BY <1>7, <3>1
  <2> QED BY <1>9, <2>3 DEF a, b, q
<1> QED BY <1>8, <1>9

\* The tree of an oracle commits to it.
LEMMA OracleIsInItsTree ==
  ASSUME BcsInv, registration_state = "done",
         NEW o \in 1..oracles_at_end[num_interaction_rounds]
  PROVE  TreeOf(o) \in DOMAIN AllTrees /\ o \in OraclesOfTree(AllTrees[TreeOf(o)])
<1> DEFINE n == num_interaction_rounds
<1>1. /\ IInv /\ n \in Nat /\ 0 < n /\ domains \in Seq(DomainSizes)
      /\ oracles_at_end \in Seq(Nat) /\ Len(oracles_at_end) = n
      /\ Boundaries(oracles_at_end, Len(oracle_registrations))
      /\ Len(oracle_registrations) \in Nat
  BY DEF BcsInv, IInv, TypeOK, SealedState, RoundsAreConsecutive
<1>2. PICK r \in 0..(n - 1) : o \in RoundEntries(r, oracles_at_end)
  <2>1. n \in 1..Len(oracles_at_end)
    BY <1>1
  <2> QED BY <1>1, <2>1, EntryHasARound
<1>3. oracle_registrations[o].domain \in DOMAIN domains
  <2>1. o \in Oracles
    BY <1>1 DEF BcsInv, DescriptionInv, Oracles
  <2> QED BY <2>1 DEF BcsInv, DescriptionInv
<1> DEFINE tree == <<r, oracle_registrations[o].domain>>
<1>4. PICK i \in DOMAIN RoundTrees(r) : RoundTrees(r)[i] = tree
  <2>1. r \in Nat
    BY <1>1, <1>2
  <2> QED BY <1>1, <1>2, <1>3, <2>1, OracleHasATree DEF RoundTrees
<1>5. DOMAIN RoundTrees(r) = 1..Len(RoundTrees(r))
  <2>1. RoundTrees(r) \in Seq(Trees)
    BY <1>1, <1>2, RoundTreesType
  <2> QED BY <2>1
<1>6. /\ Len(Built(r)) + i \in DOMAIN AllTrees
      /\ AllTrees[Len(Built(r)) + i] = tree
  <2>1. /\ Len(Built(r)) \in Nat /\ Len(RoundTrees(r)) \in Nat /\ Len(AllTrees) \in Nat
        /\ DOMAIN AllTrees = 1..Len(AllTrees)
        /\ Len(Built(r)) + Len(RoundTrees(r)) <= Len(AllTrees)
        /\ \A h \in 1..Len(RoundTrees(r)) :
             AllTrees[Len(Built(r)) + h] = RoundTrees(r)[h]
    BY <1>1, <1>2, RoundAmongTrees
  <2> QED BY <1>4, <1>5, <2>1
<1>7. o \in OraclesOfTree(tree)
  BY <1>1, <1>2 DEF OraclesOfTree, BcsInv, DescriptionInv
<1>8. \E h \in DOMAIN AllTrees : o \in OraclesOfTree(AllTrees[h])
  BY <1>6, <1>7
<1> QED BY <1>8, Zenon DEF TreeOf

\* query_oracle_at of the verifier: the position is squeezed as the prover has
\* squeezed it, and is among those that the tree of the oracle is opened at.
LEMMA VerifierAsksQueryStep ==
  ASSUME BcsInv, VerifierAsksQuery
  PROVE  BcsInv'
<1> DEFINE n == num_interaction_rounds
           k == num_answered
           query == queries[k + 1]
           known == KnownPositions(k)
           position == PositionFrom(SubSeq(verifier_hashchain, 1,
                                           Len(verifier_hashchain) - known), query.position)
           opening == transcript.openings[TreeOf(query.oracle)]
<1>1. /\ verdict = "sealed" /\ k < Len(queries)
      /\ verifier_hashchain' = IF query.position > known THEN position ELSE verifier_hashchain
      /\ verdict' = IF position \in opening.positions THEN verdict ELSE "exception"
      /\ num_answered' = k + 1
      /\ UNCHANGED <<vars, queries, index, pow_registered, proverVars>>
      /\ UNCHANGED <<verifier_challenges, transcript_is_valid>>
  BY Zenon DEF VerifierAsksQuery, KnownPositions
<1>2. /\ transcript # None /\ transcript_is_valid = TRUE
      /\ k \in 0..Len(queries)
      /\ verifier_hashchain = Sealed(known)
      /\ DOMAIN verifier_challenges
           = UNION {SqueezedAfter(r) : r \in 0..(num_interaction_rounds - 1)}
      /\ \A r \in 0..(num_interaction_rounds - 1) : \A m \in SqueezedAfter(r) :
           verifier_challenges[m] = TheChallenge(m, r)
  BY <1>1 DEF BcsInv, VerifierInv
<1>3. /\ registration_state = "done"
      /\ UNCHANGED Described
      /\ IInv' /\ DescriptionInv' /\ IndexInv' /\ QueryInv' /\ ContentsInv'
      /\ TreesInv' /\ ChainInv' /\ ChallengesInv' /\ TranscriptInv'
  BY <1>1, <1>2, VerifierRuns
<1>4. /\ QueryInv /\ IInv /\ Len(queries) \in Nat /\ k \in Nat /\ k + 1 \in 0..Len(queries)
      /\ k + 1 \in DOMAIN queries
  BY <1>1, <1>2 DEF BcsInv, QueryInv
<1>5. /\ query.oracle \in 1..oracles_at_end[n]
      /\ query.position \in Nat
  BY <1>4, PositionsAreNumbers DEF QueryInv
<1>6. known \in Nat
  BY <1>2, <1>4, PositionsAreNumbered
<1> HIDE DEF known
<1>7. SubSeq(verifier_hashchain, 1, Len(verifier_hashchain) - known) = Sealed(0)
  <2> DEFINE s == Squeezes("position", known)
  <2>1. /\ s \in Seq(Items) /\ Len(s) = known
    BY <1>6, SqueezesType
  <2>2. Sealed(0) \in Seq(Items) /\ Sealed(known) = Sealed(0) \o s
    <3>1. PositionFrom(Sealed(0), known) = Sealed(known)
      BY <1>4, <1>6, PositionsFollowTheChallenge
    <3> QED BY <1>4, <3>1, SealedZero DEF PositionFrom
  <2> HIDE DEF s
  <2>3. Len(Sealed(0) \o s) = Len(Sealed(0)) + known /\ Len(Sealed(0)) \in Nat
    BY <2>1, <2>2, ConcatType
  <2>4. Len(Sealed(0) \o s) - known = Len(Sealed(0))
    BY <1>6, <2>3
  <2>5. SubSeq(Sealed(0) \o s, 1, Len(Sealed(0))) = Sealed(0)
    BY <2>1, <2>2, CutFront
  <2> QED BY <1>2, <2>2, <2>4, <2>5, Zenon
<1>8. position = Sealed(query.position)
  <2>1. PositionFrom(Sealed(0), query.position) = Sealed(query.position)
    BY <1>4, <1>5, PositionsFollowTheChallenge
  <2> QED BY <1>7, <2>1, Zenon
<1>9. position \in opening.positions
  <2>1. /\ TreeOf(query.oracle) \in DOMAIN AllTrees
        /\ query.oracle \in OraclesOfTree(AllTrees[TreeOf(query.oracle)])
    BY <1>3, <1>5, OracleIsInItsTree
  <2> DEFINE t == AllTrees[TreeOf(query.oracle)]
  <2>2. opening = TheOpening(t)
    <3>1. transcript.openings = [i \in DOMAIN AllTrees |-> TheOpening(AllTrees[i])]
      BY <1>2 DEF BcsInv, TranscriptInv
    <3> QED BY <2>1, <3>1
  <2> HIDE DEF t
  <2>3. TheOpening(t).positions =
          {PositionFrom(Sealed(0), queries[i].position) :
             i \in {j \in DOMAIN queries : queries[j].oracle \in OraclesOfTree(t)}}
    BY DEF TheOpening
  <2>4. k + 1 \in {j \in DOMAIN queries : queries[j].oracle \in OraclesOfTree(t)}
    BY <1>4, <2>1 DEF t
  <2>5. PositionFrom(Sealed(0), query.position) \in TheOpening(t).positions
    BY <2>3, <2>4
  <2> QED BY <1>7, <2>2, <2>5, Zenon
<1> HIDE DEF position, opening
<1>10. verdict' = "sealed" /\ num_answered' \in 0..Len(queries')
  BY <1>1, <1>4, <1>9
<1>11. verifier_hashchain' = Sealed(KnownPositions(k + 1))
  <2>1. KnownPositions(k + 1) = IF query.position > known THEN query.position ELSE known
    BY <1>1, <1>4, PositionsGrow DEF known
  <2> QED BY <1>1, <1>2, <1>8, <2>1
<1>12. VerifierInv'
  <2>1. /\ UNCHANGED <<queries, num_interaction_rounds, roundVars, registrationVars>>
        /\ transcript' = transcript
    BY <1>1, <1>3 DEF Described, roundVars, proverVars
  <2>2. /\ \A j : Sealed(j)' = Sealed(j)
        /\ \A r : SqueezedAfter(r)' = SqueezedAfter(r)
        /\ \A m, r : TheChallenge(m, r)' = TheChallenge(m, r)
    BY <2>1, SealedStays
  <2>3. KnownPositions(num_answered)' = KnownPositions(k + 1)
    BY <1>1, <2>1 DEF KnownPositions
  <2>4. Sealed(KnownPositions(num_answered))' = Sealed(KnownPositions(k + 1))
    BY <2>2, <2>3
  <2>5. /\ DOMAIN verifier_challenges'
             = UNION {SqueezedAfter(r)' : r \in 0..(num_interaction_rounds' - 1)}
        /\ \A r \in 0..(num_interaction_rounds' - 1) : \A m \in SqueezedAfter(r)' :
             verifier_challenges'[m] = TheChallenge(m, r)'
    BY <1>1, <1>2, <2>1, <2>2
  <2>6. transcript' # None' /\ verdict' # "none" /\ verdict' \in {"sealed", "accepted"}
        /\ transcript_is_valid' = TRUE
    BY <1>1, <1>2, <1>10, <2>1 DEF None
  <2> QED BY <1>10, <1>11, <2>4, <2>5, <2>6 DEF VerifierInv
<1> QED BY <1>3, <1>12 DEF BcsInv

-----------------------------------------------------------------------------
(***************************************************************************)
(* The invariant.                                                          *)
(***************************************************************************)

\* It is kept when nothing happens.
LEMMA NothingHappens ==
  ASSUME BcsInv, UNCHANGED <<vars, bcsVars>>
  PROVE  BcsInv'
<1>1. /\ UNCHANGED vars /\ UNCHANGED Described
      /\ UNCHANGED <<num_prover_rounds_done, oracles_present, prover_messages_present>>
      /\ is_holographic' = is_holographic
      /\ UNCHANGED proverVars /\ UNCHANGED verifierVars
  BY DEF vars, runVars, registrationVars, Described, roundVars, bcsVars
<1>2. UNCHANGED <<oracle_contents, Merkle_trees, processed_MTs, hashchain, challenges,
                  pow_answer, prover_stopped, transcript>>
  BY <1>1 DEF proverVars
<1>3. IInv'
  BY <1>1, NextPreserves DEF BcsInv
<1>4. DescriptionInv' /\ IndexInv' /\ QueryInv'
  BY <1>1, DescribedStays
<1>5. ContentsInv'
  BY <1>1, <1>2 DEF BcsInv, ContentsInv
<1>6. TreesInv' /\ ChainInv' /\ ChallengesInv'
  BY <1>1, <1>2, TreesStay, ChainStays, ChallengesStay
<1>7. TranscriptInv'
  BY <1>1, <1>2, TranscriptStays
<1>8. VerifierInv'
  <2>1. CASE verdict = "none"
    BY <1>1, <2>1 DEF BcsInv, VerifierInv, verifierVars
  <2>2. CASE verdict # "none"
    <3>1. verdict' \in {"sealed", "accepted"}
      BY <1>1, <2>2 DEF BcsInv, VerifierInv, verifierVars
    <3>2. UNCHANGED <<transcript, verifier_hashchain, verifier_challenges,
                      transcript_is_valid, num_answered>>
      BY <1>1, <1>2 DEF verifierVars
    <3> QED BY <1>1, <2>2, <3>1, <3>2, VerifierStays
  <2> QED BY <2>1, <2>2
<1> QED BY <1>3, <1>4, <1>5, <1>6, <1>7, <1>8 DEF BcsInv

\* Every step of the programs keeps the invariant.
LEMMA BcsNextPreserves ==
  CarefulCallers => (BcsInv /\ [BcsNext]_<<vars, bcsVars>> => BcsInv')
<1> SUFFICES ASSUME CarefulCallers, BcsInv, [BcsNext]_<<vars, bcsVars>> PROVE BcsInv'
  OBVIOUS
<1>1. CASE Describe
  BY <1>1, DescribeInteractionStep, RunIndexerStep, SealBcsStep, RegisterQueryStep DEF Describe
<1>2. CASE ProverStep
  BY <1>2, ProverSubmitsOracleStep, ProverSubmitsMessageStep, ProverSubmitsIndexStep,
     ProverRoundDoneStep, ProverReadsChallengeStep, GetTranscriptStep DEF ProverStep
<1>3. CASE VerifierStep
  BY <1>3, SealVerifierStep, VerifierAsksQueryStep, VerifierDecidesStep DEF VerifierStep
<1>4. CASE UNCHANGED <<vars, bcsVars>>
  BY <1>4, NothingHappens
<1> QED BY <1>1, <1>2, <1>3, <1>4 DEF BcsNext

\* When callers keep to what the classes support, trees and chain follow the
\* rounds, the transcript is the protocol, and the verifier replays the prover.
THEOREM BcsInvariant ==
  ASSUME CarefulCallers
  PROVE  BcsSpec => []BcsInv
<1>1. BcsInit => BcsInv
  BY InitBcsInv
<1>2. BcsInv /\ [BcsNext]_<<vars, bcsVars>> => BcsInv'
  BY BcsNextPreserves
<1> QED BY <1>1, <1>2, PTL DEF BcsSpec

-----------------------------------------------------------------------------
(***************************************************************************)
(* What follows from it.                                                   *)
(***************************************************************************)

\* What a chain that is said or sealed consists of.
LEMMA ChainsAreItems ==
  ASSUME BcsInv
  PROVE  /\ hashchain \in Seq(Items)
         /\ pow_answer \in Seq(Items)
         /\ verifier_hashchain \in Seq(Items)
<1> DEFINE n == num_interaction_rounds
<1>1. /\ IInv /\ n \in Nat /\ num_prover_rounds_done \in 0..n
      /\ QueryInv
  BY DEF BcsInv, IInv, TypeOK, SealedState
<1>2. \A k \in 0..n : Said(k) \in Seq(Items)
  BY <1>1, SaidAbsorbs
<1>3. \A k \in Nat : Sealed(k) \in Seq(Items)
  BY <1>1, PositionsFollowTheChallenge
<1>4. NumPositions \in Nat
  BY <1>1, PositionsAreFinite, FS_CardinalityType DEF NumPositions
<1>5. << >> \in Seq(Items)
  OBVIOUS
<1>6. n \in 0..n /\ 0 \in Nat
  BY <1>1
<1> HIDE DEF n
<1>7. hashchain \in Seq(Items) /\ pow_answer \in Seq(Items)
  <2>1. CASE Ended
    <3>1. pow_answer = Said(n) /\ hashchain = Sealed(IF transcript = None THEN 0 ELSE NumPositions)
      BY <2>1 DEF BcsInv, ChainInv, n
    <3> QED BY <1>2, <1>3, <1>4, <1>6, <3>1
  <2>2. CASE ~Ended
    <3>1. pow_answer = << >> /\ hashchain = Said(num_prover_rounds_done)
      BY <2>2 DEF BcsInv, ChainInv
    <3> QED BY <1>1, <1>2, <1>5, <3>1
  <2> QED BY <2>1, <2>2
<1>8. verifier_hashchain \in Seq(Items)
  <2>1. CASE verdict = "none"
    BY <1>5, <2>1 DEF BcsInv, VerifierInv
  <2>2. CASE verdict # "none"
    <3>1. /\ num_answered \in 0..Len(queries)
          /\ verifier_hashchain = Sealed(KnownPositions(num_answered))
      BY <2>2 DEF BcsInv, VerifierInv
    <3>2. KnownPositions(num_answered) \in Nat
      BY <1>1, <3>1, PositionsAreNumbered
    <3> QED BY <1>3, <3>1, <3>2
  <2> QED BY <2>1, <2>2
<1> QED BY <1>7, <1>8

\* The challenges that are there, of prover and verifier.
LEMMA ChallengesAreRandomMessages ==
  ASSUME BcsInv
  PROVE  /\ DOMAIN challenges \subseteq RandomMessages
         /\ DOMAIN verifier_challenges \subseteq RandomMessages
<1> DEFINE n == num_interaction_rounds
<1>1. /\ IInv /\ n \in Nat /\ num_prover_rounds_done \in 0..n
  BY DEF BcsInv, IInv, TypeOK, SealedState
<1>2. \A r \in 0..(n - 1) : SqueezedAfter(r) \subseteq RandomMessages
  BY <1>1, SqueezedAfterType
<1>3. ASSUME NEW m \in DOMAIN challenges PROVE m \in RandomMessages
  <2>1. \/ m \in RandomMessages
        \/ \E r \in 0..(num_prover_rounds_done - 1) : m \in SqueezedAfter(r)
    BY DEF BcsInv, ChallengesInv
  <2>2. \A r \in 0..(num_prover_rounds_done - 1) : r \in 0..(n - 1)
    BY <1>1
  <2> QED BY <1>2, <2>1, <2>2
<1>4. DOMAIN verifier_challenges \subseteq RandomMessages
  <2>1. CASE verdict = "none"
    BY <2>1 DEF BcsInv, VerifierInv
  <2>2. CASE verdict # "none"
    <3>1. DOMAIN verifier_challenges = UNION {SqueezedAfter(r) : r \in 0..(n - 1)}
      BY <2>2 DEF BcsInv, VerifierInv
    <3> QED BY <1>2, <3>1
  <2> QED BY <2>1, <2>2
<1> QED BY <1>3, <1>4

\* The invariant gives every variable its type.
LEMMA BcsInvType == BcsInv => BcsTypeOK
<1> SUFFICES ASSUME BcsInv PROVE BcsTypeOK
  OBVIOUS
<1> DEFINE n == num_interaction_rounds
<1>1. /\ IInv /\ n \in Nat /\ num_prover_rounds_done \in Nat
      /\ domains \in Seq(DomainSizes) /\ QueryInv
  BY DEF BcsInv, IInv, TypeOK
<1>2. \A i \in DOMAIN queries : queries[i].oracle \in Oracles
  <2>1. SUFFICES ASSUME NEW i \in DOMAIN queries PROVE queries[i].oracle \in Oracles
    OBVIOUS
  <2>2. registration_state # "interactive"
    BY <1>1 DEF QueryInv
  <2>3. oracles_at_end[n] = Len(oracle_registrations)
    BY <2>2 DEF BcsInv, DescriptionInv
  <2> QED BY <1>1, <2>3, Zenon DEF QueryInv, Oracles
<1>3. \A i \in DOMAIN Merkle_trees : Merkle_trees[i] = Unbuilt \/ Len(Merkle_trees[i]) = 2
  <2>1. CASE registration_state = "interactive"
    BY <2>1 DEF BcsInv, TreesInv
  <2>2. CASE registration_state # "interactive"
    <3>1. \A i \in DOMAIN Merkle_trees :
            i \in DOMAIN AllTrees /\ Merkle_trees[i] \in {AllTrees[i], Unbuilt}
      BY <2>2 DEF BcsInv, TreesInv
    <3>2. AllTrees \in Seq(Trees)
      BY <1>1, AllTreesType DEF IInv
    <3>3. \A t \in Trees : Len(t) = 2
      <4>1. SUFFICES ASSUME NEW t \in Nat \X Nat PROVE Len(t) = 2
        BY DEF Trees
      <4>2. PICK r \in Nat, d \in Nat : t = <<r, d>>
        OBVIOUS
      <4> QED BY <4>2
    <3> QED BY <3>1, <3>2, <3>3
  <2> QED BY <2>1, <2>2
<1>4. processed_MTs \in Nat
  <2>1. Built(num_prover_rounds_done) \in Seq(Trees)
    BY <1>1, BuiltType
  <2> QED BY <2>1 DEF BcsInv, TreesInv
<1>5. Chains(hashchain) /\ Chains(verifier_hashchain) /\ Chains(pow_answer)
  <2>1. \A c \in Seq(Items) : Chains(c)
    <3>1. SUFFICES ASSUME NEW c \in Seq(Items), NEW i \in DOMAIN c PROVE c[i].op \in Operations
      BY DEF Chains
    <3>2. \A item \in Items : item.op \in Operations
      BY DEF Items
    <3>3. c[i] \in Items
      OBVIOUS
    <3> QED BY <3>2, <3>3
  <2> QED BY <2>1, ChainsAreItems
<1>6. {pow_registered, prover_stopped, transcript_is_valid} \subseteq BOOLEAN
  BY DEF BcsInv, TreesInv, VerifierInv
<1>7. /\ num_answered \in 0..Len(queries)
      /\ verdict \in {"none", "sealed", "accepted", "rejected", "exception"}
  <2>1. Len(queries) \in Nat
    BY <1>1 DEF QueryInv
  <2> QED BY <2>1 DEF BcsInv, VerifierInv
<1>8. DOMAIN oracle_contents = oracles_present
  BY DEF BcsInv, ContentsInv
<1> QED BY <1>2, <1>3, <1>4, <1>5, <1>6, <1>7, <1>8, ChallengesAreRandomMessages DEF BcsTypeOK

\* Every variable has its type.
THEOREM BcsTypeCorrect ==
  ASSUME CarefulCallers
  PROVE  BcsSpec => []BcsTypeOK
BY BcsInvariant, BcsInvType, PTL

\* The trees are those of the finished rounds, in order, when the prover runs.
LEMMA TreesInvFollows == BcsInv => TreesFollowRounds
<1> SUFFICES ASSUME BcsInv, registration_state = "done"
             PROVE  TreesFollowRounds
  BY DEF TreesFollowRounds
<1>1. /\ processed_MTs = Len(Built(num_prover_rounds_done))
      /\ Merkle_trees = [i \in DOMAIN AllTrees |->
           IF i <= processed_MTs \/ (is_holographic /\ AllTrees[i][1] = 0)
           THEN AllTrees[i] ELSE Unbuilt]
  BY DEF BcsInv, TreesInv
<1>2. Len(Merkle_trees) = Len(AllTrees)
  <2>1. AllTrees \in Seq(Trees)
    BY AllTreesType DEF BcsInv, IInv
  <2>2. DOMAIN Merkle_trees = 1..Len(AllTrees) /\ Len(AllTrees) \in Nat
    BY <1>1, <2>1
  <2> QED BY <2>2
<1>3. processed_MTs = Len(TreesOfRounds(0, num_prover_rounds_done - 1, oracles_at_end))
  BY <1>1 DEF Built
<1> QED BY <1>1, <1>2, <1>3 DEF TreesFollowRounds

\* signal_prover_round_done builds the next tree, out of the round's oracles.
THEOREM TreesFollow ==
  ASSUME CarefulCallers
  PROVE  BcsSpec => []TreesFollowRounds
BY BcsInvariant, TreesInvFollows, PTL

\* A challenge of a later round, once it is there, was squeezed when the round
\* before it had ended.
LEMMA ChallengeOfRound ==
  ASSUME BcsInv, NEW r \in 1..(num_interaction_rounds - 1), r + 1 \in DOMAIN random_messages_at_end,
         NEW m \in RoundEntries(r, random_messages_at_end), m \in DOMAIN challenges
  PROVE  /\ registration_state = "done"
         /\ m \in SqueezedAfter(r - 1) /\ challenges[m] = TheChallenge(m, r - 1)
<1> DEFINE n == num_interaction_rounds
<1>1. /\ IInv /\ n \in Nat /\ num_prover_rounds_done \in 0..n
      /\ num_random_messages \in Nat /\ random_messages_at_end \in Seq(Nat)
      /\ Boundaries(random_messages_at_end, num_random_messages)
      /\ r + 1 \in 1..Len(random_messages_at_end)
  <2>1. /\ IInv /\ n \in Nat /\ num_prover_rounds_done \in 0..n
        /\ num_random_messages \in Nat /\ random_messages_at_end \in Seq(Nat)
    BY SMTT(25) DEF BcsInv, IInv, TypeOK, SealedState
  <2>2. Boundaries(random_messages_at_end, num_random_messages)
    BY <2>1 DEF IInv, RoundsAreConsecutive
  <2> QED BY <2>1, <2>2
<1>2. registration_state = "done"
  BY DEF BcsInv, ChallengesInv
<1>3. \A q \in Nat : q < r => m \notin RoundEntries(q, random_messages_at_end)
  <2>1. SUFFICES ASSUME NEW q \in Nat, q < r, m \in RoundEntries(q, random_messages_at_end)
                 PROVE  FALSE
    OBVIOUS
  <2>2. r \in Nat /\ r < Len(random_messages_at_end)
    BY <1>1
  <2> QED BY <1>1, <2>1, <2>2, RoundsAreDisjoint
<1>4. PICK q \in 0..(num_prover_rounds_done - 1) : m \in SqueezedAfter(q)
  <2>1. m \notin RoundEntries(0, random_messages_at_end)
    BY <1>1, <1>3
  <2> QED BY <2>1 DEF BcsInv, ChallengesInv
<1>5. q # n - 1 /\ m \in RoundEntries(q + 1, random_messages_at_end)
  BY <1>4 DEF SqueezedAfter
<1>6. q = r - 1
  <2>1. q \in Nat /\ r \in Nat /\ q < n - 1 /\ ~(q + 1 < r)
    BY <1>1, <1>3, <1>5
  <2>2. ~(r < q + 1)
    <3>1. SUFFICES ASSUME r < q + 1 PROVE FALSE
      OBVIOUS
    <3>2. q + 1 < Len(random_messages_at_end)
      <4>1. Len(random_messages_at_end) = n
        BY <1>2 DEF BcsInv, IInv, RoundsAreConsecutive
      <4> QED BY <2>1, <4>1
    <3>3. q + 1 \in Nat /\ r \in Nat
      BY <2>1
    <3> QED BY <1>1, <1>5, <3>1, <3>2, <3>3, RoundsAreDisjoint
  <2> QED BY <2>1, <2>2
<1>7. challenges[m] = TheChallenge(m, q)
  BY <1>4 DEF BcsInv, ChallengesInv
<1> QED BY <1>2, <1>4, <1>6, <1>7

\* What a challenge is squeezed from has absorbed the rounds up to then.
LEMMA ChallengeAbsorbs ==
  ASSUME IInv, NEW q \in 0..(num_interaction_rounds - 1), NEW m \in SqueezedAfter(q)
  PROVE  /\ AbsorbedRoots(TheChallenge(m, q)) = Built(q + 1)
         /\ AbsorbedMessages(TheChallenge(m, q)) = MessageIds(EndOf(q, prover_messages_at_end))
<1> DEFINE n == num_interaction_rounds
           k == m - EndOf(q, random_messages_at_end)
           c == Absorbed(Said(q), RoundTrees(q), RoundMessages(q))
<1>1. n \in Nat /\ q \in Nat /\ q \in 0..n /\ domains \in Seq(DomainSizes)
  BY DEF IInv, TypeOK
<1>2. k \in Nat
  BY SqueezedAfterType
<1>3. TheChallenge(m, q) = c \o Squeezes("challenge", k)
  BY Zenon DEF TheChallenge, ChallengeOf
<1>4. /\ Said(q) \in Seq(Items)
      /\ AbsorbedRoots(Said(q)) = Built(q)
      /\ AbsorbedMessages(Said(q)) = MessageIds(BeginOf(q, prover_messages_at_end))
  BY <1>1, SaidAbsorbs
<1>5. /\ c \in Seq(Items)
      /\ AbsorbedRoots(c) = AbsorbedRoots(Said(q)) \o RoundTrees(q)
      /\ AbsorbedMessages(c) = AbsorbedMessages(Said(q)) \o RoundMessages(q)
  BY <1>4, RoundAbsorbs
<1> HIDE DEF k, c
<1>6. /\ AbsorbedRoots(c \o Squeezes("challenge", k)) = AbsorbedRoots(c)
      /\ AbsorbedMessages(c \o Squeezes("challenge", k)) = AbsorbedMessages(c)
  <2>1. "challenge" \in {"challenge", "pow", "position"}
    OBVIOUS
  <2> QED BY <1>2, <1>5, <2>1, SqueezesAbsorbNothing
<1>7. Built(q + 1) = Built(q) \o RoundTrees(q)
  BY <1>1, BuiltGrows
<1>8. MessageIds(BeginOf(q, prover_messages_at_end)) \o RoundMessages(q)
        = MessageIds(EndOf(q, prover_messages_at_end))
  BY RoundMessagesFollow
<1> QED BY <1>3, <1>4, <1>5, <1>6, <1>7, <1>8, Zenon

\* Whatever is in the prover's map of challenges binds the earlier rounds.
LEMMA BcsInvBinds == BcsInv => ChallengesBindEarlierRounds
<1> SUFFICES ASSUME BcsInv,
                    NEW r \in 1..(num_interaction_rounds - 1),
                    r + 1 \in DOMAIN random_messages_at_end,
                    NEW m \in RoundEntries(r, random_messages_at_end), m \in DOMAIN challenges
             PROVE  /\ AbsorbedRoots(challenges[m]) = TreesOfRounds(0, r - 1, oracles_at_end)
                    /\ AbsorbedMessages(challenges[m])
                         = MessageIds(EndOf(r - 1, prover_messages_at_end))
  BY DEF ChallengesBindEarlierRounds
<1>1. m \in SqueezedAfter(r - 1) /\ challenges[m] = TheChallenge(m, r - 1)
  BY ChallengeOfRound
<1>2. num_interaction_rounds \in Nat /\ IInv
  BY DEF BcsInv, IInv, TypeOK
<1>3. r - 1 \in 0..(num_interaction_rounds - 1) /\ (r - 1) + 1 = r
  BY <1>2
<1>4. /\ AbsorbedRoots(TheChallenge(m, r - 1)) = Built((r - 1) + 1)
      /\ AbsorbedMessages(TheChallenge(m, r - 1))
           = MessageIds(EndOf(r - 1, prover_messages_at_end))
  BY <1>1, <1>2, <1>3, ChallengeAbsorbs
<1>5. Built(r) = TreesOfRounds(0, r - 1, oracles_at_end)
  BY DEF Built
<1> QED BY <1>1, <1>3, <1>4, <1>5, Zenon

\* A challenge of squeeze_verifier_random_messages binds the prover to every tree
\* and every message of the rounds before it, and to nothing else.
THEOREM ChallengesBind ==
  ASSUME CarefulCallers
  PROVE  BcsSpec => []ChallengesBindEarlierRounds
BY BcsInvariant, BcsInvBinds, PTL

\* The challenge of the proof of work is squeezed from a chain of all rounds, and
\* the positions follow it.
LEMMA BcsInvPositions == BcsInv => PositionsFollowTheRounds
<1> SUFFICES ASSUME BcsInv, transcript # None
             PROVE  /\ AbsorbedRoots(pow_answer) = AllTrees
                    /\ AbsorbedMessages(pow_answer)
                         = MessageIds(Len(prover_message_registrations))
                    /\ \A i \in DOMAIN transcript.openings :
                         \A position \in transcript.openings[i].positions :
                           IsStrictPrefix(Append(pow_answer, Squeeze("pow")), position)
  BY Zenon DEF PositionsFollowTheRounds
<1> DEFINE n == num_interaction_rounds
<1>1. /\ IInv /\ n \in Nat /\ 0 < n /\ n \in 0..n
      /\ registration_state = "done" /\ pow_answer = Said(n)
      /\ QueryInv
  BY DEF BcsInv, IInv, TypeOK, SealedState, ChainInv, Ended
<1>2. /\ AbsorbedRoots(Said(n)) = Built(n)
      /\ AbsorbedMessages(Said(n)) = MessageIds(BeginOf(n, prover_messages_at_end))
  BY <1>1, SaidAbsorbs
<1>3. AllTrees = Built(n)
  BY <1>1, AllTreesType DEF IInv
<1>4. BeginOf(n, prover_messages_at_end) = Len(prover_message_registrations)
  BY <1>1 DEF BeginOf, BcsInv, DescriptionInv
<1>5. ASSUME NEW i \in DOMAIN transcript.openings,
             NEW position \in transcript.openings[i].positions
      PROVE  IsStrictPrefix(Append(pow_answer, Squeeze("pow")), position)
  <2>1. /\ transcript.openings = [h \in DOMAIN AllTrees |-> TheOpening(AllTrees[h])]
    BY DEF BcsInv, TranscriptInv
  <2>2. position \in TheOpening(AllTrees[i]).positions
    BY <1>5, <2>1
  <2>3. PICK j \in DOMAIN queries : position = PositionFrom(Sealed(0), queries[j].position)
    BY <2>2 DEF TheOpening
  <2> DEFINE p == queries[j].position
             s == Squeezes("position", p)
  <2>4. p \in Nat \ {0}
    BY <1>1, PositionsAreNumbers
  <2>5. /\ Sealed(0) = Append(Said(n), Squeeze("pow"))
        /\ Sealed(0) \in Seq(Items)
    BY <1>1, SealedZero
  <2>6. position = Sealed(0) \o s
    BY <2>3, Zenon DEF PositionFrom
  <2> HIDE DEF p
  <2>7. s \in Seq(Items) /\ Len(s) = p
    BY <2>4, SqueezesType
  <2>8. s # << >>
    BY <2>4, <2>7
  <2> HIDE DEF s
  <2>9. IsStrictPrefix(Sealed(0), Sealed(0) \o s)
    BY <2>5, <2>7, <2>8, GoesOn
  <2> QED BY <1>1, <2>5, <2>6, <2>9, Zenon
<1> QED BY <1>1, <1>2, <1>3, <1>4, <1>5, Zenon

\* Who wants other positions must redo the rounds: each is squeezed from a chain
\* of all of them, after the challenge of the proof of work.  Of the answer to it
\* nothing is said: it is not absorbed.
THEOREM PositionsFollow ==
  ASSUME CarefulCallers
  PROVE  BcsSpec => []PositionsFollowTheRounds
BY BcsInvariant, BcsInvPositions, PTL

\* Prover and verifier have the same challenges, and lack the same.
LEMMA BcsInvAgrees == BcsInv => ChallengesAgree
<1> SUFFICES ASSUME BcsInv, verdict # "none", NEW m \in RandomMessages
             PROVE  ReadBy(challenges, m) = ReadBy(verifier_challenges, m)
  BY DEF ChallengesAgree
<1> DEFINE n == num_interaction_rounds
<1>1. /\ DOMAIN verifier_challenges = UNION {SqueezedAfter(r) : r \in 0..(n - 1)}
      /\ \A r \in 0..(n - 1) : \A e \in SqueezedAfter(r) :
           verifier_challenges[e] = TheChallenge(e, r)
      /\ transcript # None
  BY DEF BcsInv, VerifierInv
<1>2. num_prover_rounds_done = n
  BY <1>1 DEF BcsInv, ChainInv, Ended
<1>3. /\ \A e \in DOMAIN challenges :
           challenges[e] = << >> \/ \E r \in 0..(n - 1) : e \in SqueezedAfter(r)
      /\ \A r \in 0..(n - 1) : \A e \in SqueezedAfter(r) :
           e \in DOMAIN challenges /\ challenges[e] = TheChallenge(e, r)
  BY <1>2 DEF BcsInv, ChallengesInv
<1>4. CASE \E r \in 0..(n - 1) : m \in SqueezedAfter(r)
  <2>1. PICK r \in 0..(n - 1) : m \in SqueezedAfter(r)
    BY <1>4
  <2>2. m \in DOMAIN verifier_challenges /\ verifier_challenges[m] = TheChallenge(m, r)
    BY <1>1, <2>1
  <2>3. m \in DOMAIN challenges /\ challenges[m] = TheChallenge(m, r)
    BY <1>3, <2>1
  <2> QED BY <2>2, <2>3, Zenon DEF ReadBy
<1>5. CASE ~\E r \in 0..(n - 1) : m \in SqueezedAfter(r)
  <2>1. m \notin DOMAIN verifier_challenges
    BY <1>1, <1>5
  <2>2. m \in DOMAIN challenges => challenges[m] = << >>
    BY <1>3, <1>5
  <2> QED BY <2>1, <2>2, Zenon DEF ReadBy
<1> QED BY <1>4, <1>5

\* obtain_verifier_random_message: what the verifier's replay gives is what the
\* prover was given.
THEOREM ReplayAgrees ==
  ASSUME CarefulCallers
  PROVE  BcsSpec => []ChallengesAgree
BY BcsInvariant, BcsInvAgrees, PTL

-----------------------------------------------------------------------------
(***************************************************************************)
(* The refinement.                                                         *)
(***************************************************************************)

\* The conversation is what the finished rounds have said, and the verifier has
\* heard nothing or all of it.
LEMMA WhatIsSaid ==
  BcsInv =>
    /\ Conversation(hashchain) = Said(num_prover_rounds_done)
    /\ Conversation(verifier_hashchain)
         = IF verdict = "none" THEN << >> ELSE Said(num_interaction_rounds)
    /\ verdict # "none" => num_prover_rounds_done = num_interaction_rounds
<1> SUFFICES ASSUME BcsInv
             PROVE  /\ Conversation(hashchain) = Said(num_prover_rounds_done)
                    /\ Conversation(verifier_hashchain)
                         = IF verdict = "none" THEN << >> ELSE Said(num_interaction_rounds)
                    /\ verdict # "none" => num_prover_rounds_done = num_interaction_rounds
  OBVIOUS
<1> DEFINE n == num_interaction_rounds
<1>1. /\ IInv /\ n \in Nat /\ num_prover_rounds_done \in 0..n /\ n \in 0..n /\ QueryInv
  BY DEF BcsInv, IInv, TypeOK, SealedState
<1>2. \A k \in 0..n : Said(k) \in Seq(Talk)
  BY <1>1, SaidGrows
<1>3. ASSUME NEW k \in Nat PROVE Conversation(Sealed(k)) = Said(n)
  <2>1. Squeezes("position", k) \in Seq(Items)
    BY SqueezesType
  <2> DEFINE s == Squeezes("position", k)
  <2>2. Sealed(k) = Append(Said(n), Squeeze("pow")) \o s
    BY Zenon DEF Sealed
  <2> HIDE DEF s
  <2>3. Conversation(Append(Said(n), Squeeze("pow")) \o s) = Said(n)
    BY <1>1, <1>2, <2>1, ConversationStops DEF s
  <2> QED BY <2>2, <2>3, Zenon
<1>4. Conversation(hashchain) = Said(num_prover_rounds_done)
  <2>1. CASE Ended
    <3>1. NumPositions \in Nat
      BY <1>1, PositionsAreFinite, FS_CardinalityType DEF NumPositions
    <3>2. hashchain = Sealed(0) \/ hashchain = Sealed(NumPositions)
      BY <2>1 DEF BcsInv, ChainInv
    <3>3. Conversation(hashchain) = Said(n)
      BY <1>3, <3>1, <3>2
    <3> QED BY <2>1, <3>3 DEF Ended
  <2>2. CASE ~Ended
    <3>1. hashchain = Said(num_prover_rounds_done)
      BY <2>2 DEF BcsInv, ChainInv
    <3> QED BY <1>1, <1>2, <3>1, ConversationOfTalk
  <2> QED BY <2>1, <2>2
<1>5. CASE verdict = "none"
  <2>1. verifier_hashchain = << >>
    BY <1>5 DEF BcsInv, VerifierInv
  <2>2. << >> \in Seq(Talk)
    OBVIOUS
  <2> QED BY <1>4, <1>5, <2>1, <2>2, ConversationOfTalk
<1>6. CASE verdict # "none"
  <2>1. /\ transcript # None /\ num_answered \in 0..Len(queries)
        /\ verifier_hashchain = Sealed(KnownPositions(num_answered))
    BY <1>6 DEF BcsInv, VerifierInv
  <2>2. KnownPositions(num_answered) \in Nat
    BY <1>1, <2>1, PositionsAreNumbered
  <2>3. num_prover_rounds_done = n
    BY <2>1 DEF BcsInv, ChainInv, Ended
  <2> QED BY <1>3, <1>4, <1>6, <2>1, <2>2, <2>3
<1> QED BY <1>5, <1>6

\* The abstract verdict.
Verdict == IF verdict = "sealed" THEN "none" ELSE verdict

\* A round that the prover ends adds to the conversation.
LEMMA RoundIsTalk ==
  ASSUME BcsInv, BcsInv', registration_state = "done", verdict = "none", verdict' = "none",
         UNCHANGED <<roundVars, registrationVars>>,
         num_prover_rounds_done < num_interaction_rounds,
         num_prover_rounds_done' = num_prover_rounds_done + 1
  PROVE  Abstract!Next
<1> DEFINE n == num_interaction_rounds
           c == Conversation(hashchain)
           v == Conversation(verifier_hashchain)
<1>1. c = Said(num_prover_rounds_done) /\ v = << >>
  BY WhatIsSaid
<1>2. c' = Said(num_prover_rounds_done)' /\ v' = << >>
  <2>1. BcsInv' =>
          (/\ Conversation(hashchain) = Said(num_prover_rounds_done)
           /\ Conversation(verifier_hashchain)
                = IF verdict = "none" THEN << >> ELSE Said(num_interaction_rounds)
           /\ verdict # "none" => num_prover_rounds_done = num_interaction_rounds)'
    BY WhatIsSaid, PTL
  <2> QED BY <2>1
<1> SUFFICES ASSUME NEW r, r = num_prover_rounds_done PROVE Abstract!Next
  OBVIOUS
<1>3. Said(num_prover_rounds_done)' = Said(r + 1)
  <2>1. \A k : Said(k)' = Said(k)
    BY SealedStays
  <2>2. num_prover_rounds_done' = r + 1
    OBVIOUS
  <2> QED BY <2>1, <2>2
<1>4. /\ IInv /\ n \in Nat /\ r \in 0..(n - 1) /\ r \in 0..n /\ r < n
  BY DEF BcsInv, IInv, TypeOK
<1>5. /\ Said(r) \in Seq(Talk) /\ Said(r + 1) = Said(r) \o RoundItems(r)
      /\ RoundItems(r) \in Seq(Talk) /\ RoundItems(r) # << >>
  BY <1>4, SaidGrows, RoundItemsType
<1>6. IsStrictPrefix(Said(r), Said(r) \o RoundItems(r))
  <2>1. Said(r) \in Seq(Items) /\ RoundItems(r) \in Seq(Items)
    BY <1>5, TalkAreItems
  <2> QED BY <1>5, <2>1, GoesOn
<1> HIDE DEF c, v
<1>7. c = Said(r) /\ c' = Said(r) \o RoundItems(r)
  BY <1>1, <1>2, <1>3, <1>5
<1>8. Abstract!IsStrictPrefix(c, c')
  BY <1>6, <1>7 DEF Abstract!IsStrictPrefix, Abstract!IsPrefix, IsStrictPrefix, IsPrefix
<1>9. Verdict' = Verdict
  BY DEF Verdict
<1>10. Abstract!Talk
  BY <1>1, <1>2, <1>8, <1>9, Zenon DEF Abstract!Talk, c, v, Verdict
<1> QED BY <1>10 DEF Abstract!Next

\* Steps that leave both chains and the verdict alone are not seen.
LEMMA NotSeen ==
  ASSUME UNCHANGED <<hashchain, verifier_hashchain, verdict>>
  PROVE  UNCHANGED Abstract!vars
BY DEF Abstract!vars, Conversation

\* Nor are those that leave the rounds alone when the verifier has sealed, or
\* does nothing.
LEMMA ConversationKept ==
  ASSUME BcsInv, BcsInv', UNCHANGED <<roundVars, registrationVars, num_prover_rounds_done>>
  PROVE  /\ Conversation(hashchain)' = Conversation(hashchain)
         /\ (verdict = "none") = (verdict' = "none") =>
              Conversation(verifier_hashchain)' = Conversation(verifier_hashchain)
         /\ verdict # "none" => Conversation(verifier_hashchain) = Conversation(hashchain)
         /\ verdict' # "none" => Conversation(verifier_hashchain)' = Conversation(hashchain)'
<1>1. /\ Conversation(hashchain) = Said(num_prover_rounds_done)
      /\ Conversation(verifier_hashchain)
           = IF verdict = "none" THEN << >> ELSE Said(num_interaction_rounds)
      /\ verdict # "none" => num_prover_rounds_done = num_interaction_rounds
  BY WhatIsSaid
<1>2. /\ Conversation(hashchain)' = Said(num_prover_rounds_done)'
      /\ Conversation(verifier_hashchain)'
           = IF verdict' = "none" THEN << >> ELSE Said(num_interaction_rounds)'
      /\ verdict' # "none" => num_prover_rounds_done' = num_interaction_rounds'
  <2>1. BcsInv' =>
          (/\ Conversation(hashchain) = Said(num_prover_rounds_done)
           /\ Conversation(verifier_hashchain)
                = IF verdict = "none" THEN << >> ELSE Said(num_interaction_rounds)
           /\ verdict # "none" => num_prover_rounds_done = num_interaction_rounds)'
    BY WhatIsSaid, PTL
  <2> QED BY <2>1
<1>3. /\ Said(num_prover_rounds_done)' = Said(num_prover_rounds_done)
      /\ Said(num_interaction_rounds)' = Said(num_interaction_rounds)
      /\ num_interaction_rounds' = num_interaction_rounds
  <2>1. \A k : Said(k)' = Said(k)
    BY SealedStays
  <2>2. num_interaction_rounds' = num_interaction_rounds
    BY DEF roundVars
  <2> QED BY <2>1, <2>2
<1> QED BY <1>1, <1>2, <1>3

\* The prover's steps: the end of a round is heard, and nothing else.
LEMMA ProverTalks ==
  ASSUME BcsInv, BcsInv', ProverStep
  PROVE  Abstract!Next \/ UNCHANGED Abstract!vars
<1>1. CASE \/ \E o \in Oracles, size \in DomainSizes : ProverSubmitsOracle(o, size)
           \/ \E m \in ProverMessages, size \in MessageSizes : ProverSubmitsMessage(m, size)
           \/ \E m \in RandomMessages : ProverReadsChallenge(m)
  <2>1. UNCHANGED <<hashchain, verifier_hashchain, verdict>>
    BY <1>1 DEF ProverSubmitsOracle, ProverSubmitsMessage, ProverReadsChallenge, bcsVars,
                proverVars, verifierVars
  <2> QED BY <2>1, NotSeen
<1>2. CASE ProverSubmitsIndex \/ ProverRoundDone
  <2>1. /\ registration_state = "done" /\ num_prover_rounds_done < num_interaction_rounds
        /\ num_prover_rounds_done' = num_prover_rounds_done + 1
        /\ UNCHANGED <<roundVars, registrationVars>> /\ UNCHANGED verifierVars
    <3>1. CASE ProverSubmitsIndex
      <4>1. SubmitProverIndex /\ UNCHANGED verifierVars
        BY <3>1 DEF ProverSubmitsIndex
      <4>2. num_interaction_rounds \in Nat /\ num_interaction_rounds >= 1
        BY <4>1 DEF SubmitProverIndex, BcsInv, IInv, TypeOK, SealedState
      <4> QED BY <4>1, <4>2 DEF SubmitProverIndex
    <3>2. CASE ProverRoundDone
      BY <3>2 DEF ProverRoundDone, SignalProverRoundDone
    <3> QED BY <1>2, <3>1, <3>2
  <2>2. verdict = "none" /\ verdict' = "none"
    <3>1. transcript = None
      BY <2>1 DEF BcsInv, ChainInv, Ended, IInv, TypeOK
    <3>2. verdict = "none"
      BY <3>1 DEF BcsInv, VerifierInv
    <3> QED BY <2>1, <3>2 DEF verifierVars
  <2> QED BY <2>1, <2>2, RoundIsTalk
<1>3. CASE GetTranscript
  <2>1. /\ UNCHANGED <<roundVars, registrationVars, num_prover_rounds_done>>
        /\ UNCHANGED <<verifier_hashchain, verdict>>
    BY <1>3 DEF GetTranscript, vars, runVars, verifierVars
  <2>2. Conversation(hashchain)' = Conversation(hashchain)
    BY <2>1, ConversationKept
  <2>3. Conversation(verifier_hashchain)' = Conversation(verifier_hashchain)
    BY <2>1 DEF Conversation
  <2> QED BY <2>1, <2>2, <2>3 DEF Abstract!vars
<1> QED BY <1>1, <1>2, <1>3 DEF ProverStep

\* A protocol that is sealed has a round, and a round says something.
LEMMA SomethingIsSaid ==
  ASSUME BcsInv, registration_state = "done"
  PROVE  Said(num_interaction_rounds) # << >>
<1> DEFINE n == num_interaction_rounds
<1>1. /\ IInv /\ n \in Nat /\ n >= 1
  BY DEF BcsInv, IInv, TypeOK, SealedState
<1>2. /\ n - 1 \in 0..n /\ n - 1 < n /\ (n - 1) + 1 = n /\ n - 1 \in 0..(n - 1)
  BY <1>1
<1>3. /\ Said(n - 1) \in Seq(Talk)
      /\ Said((n - 1) + 1) = Said(n - 1) \o RoundItems(n - 1)
      /\ RoundItems(n - 1) \in Seq(Talk) /\ RoundItems(n - 1) # << >>
  BY <1>1, <1>2, SaidGrows, RoundItemsType
<1> DEFINE a == Said(n - 1)
           b == RoundItems(n - 1)
<1> HIDE DEF a, b
<1>4. a \o b # << >>
  <2>1. a \in Seq(Talk) /\ b \in Seq(Talk) /\ b # << >>
    BY <1>3 DEF a, b
  <2>2. Len(a) \in Nat /\ Len(b) \in Nat /\ Len(b) # 0
    BY <2>1
  <2>3. Len(a \o b) = Len(a) + Len(b)
    BY <2>1
  <2>4. Len(a \o b) # 0
    BY <2>2, <2>3
  <2> QED BY <2>4
<1> QED BY <1>2, <1>3, <1>4 DEF a, b

\* The verifier's steps: it hears the whole conversation, and in the end accepts.
LEMMA VerifierHears ==
  ASSUME BcsInv, BcsInv', VerifierStep
  PROVE  Abstract!Next \/ UNCHANGED Abstract!vars
<1>1. /\ UNCHANGED <<roundVars, registrationVars, num_prover_rounds_done>>
      /\ UNCHANGED hashchain
  BY DEF VerifierStep, SealVerifier, VerifierAsksQuery, VerifierDecides, vars, runVars, proverVars
<1> DEFINE c == Conversation(hashchain)
           v == Conversation(verifier_hashchain)
<1>2. /\ c' = c
      /\ (verdict = "none") = (verdict' = "none") => v' = v
      /\ verdict # "none" => v = c
      /\ verdict' # "none" => v' = c'
  BY <1>1, ConversationKept
<1>3. verdict = "none" => v = << >>
  BY WhatIsSaid
<1>4. verdict # "none" => c # << >>
  <2>1. SUFFICES ASSUME verdict # "none" PROVE c # << >>
    OBVIOUS
  <2>2. c = Said(num_interaction_rounds) /\ registration_state = "done"
    BY <2>1, WhatIsSaid DEF BcsInv, VerifierInv, ChainInv, Ended
  <2> QED BY <2>2, SomethingIsSaid
<1>5. transcript # None => c # << >>
  <2>1. SUFFICES ASSUME transcript # None PROVE c # << >>
    OBVIOUS
  <2>2. c = Said(num_prover_rounds_done) /\ registration_state = "done"
        /\ num_prover_rounds_done = num_interaction_rounds
    BY <2>1, WhatIsSaid DEF BcsInv, ChainInv, Ended
  <2> QED BY <2>2, SomethingIsSaid
<1> HIDE DEF c, v
<1>6. CASE SealVerifier
  <2>1. verdict = "none" /\ transcript # None /\ verdict' # "none"
    BY <1>6 DEF SealVerifier
  <2>2. verdict' \in {"sealed", "accepted"} /\ verdict' # "accepted"
    BY <1>6, <2>1 DEF SealVerifier, BcsInv, VerifierInv
  <2>3. Verdict = "none" /\ Verdict' = "none"
    BY <2>1, <2>2 DEF Verdict
  <2>4. Abstract!Hear
    BY <1>2, <1>3, <1>5, <2>1, <2>3 DEF Abstract!Hear, c, v, Verdict
  <2> QED BY <2>4 DEF Abstract!Next
<1>7. CASE VerifierAsksQuery
  <2>1. verdict = "sealed" /\ verdict' \in {"sealed", "exception"}
    BY <1>7 DEF VerifierAsksQuery
  <2>2. verdict' = "sealed"
    BY <2>1 DEF BcsInv, VerifierInv
  <2>3. Verdict' = Verdict /\ v' = v
    BY <1>2, <2>1, <2>2 DEF Verdict
  <2> QED BY <1>2, <2>3 DEF Abstract!vars, c, v, Verdict
<1>8. CASE VerifierDecides
  <2>1. verdict = "sealed" /\ verdict' \in {"accepted", "rejected"}
    BY <1>8 DEF VerifierDecides
  <2>2. verdict' = "accepted"
    BY <2>1 DEF BcsInv, VerifierInv
  <2>3. Verdict = "none" /\ Verdict' = "accepted" /\ v' = v /\ v # << >>
    BY <1>2, <1>4, <2>1, <2>2 DEF Verdict
  <2>4. Abstract!Accept
    BY <1>2, <2>3 DEF Abstract!Accept, c, v, Verdict
  <2> QED BY <2>4 DEF Abstract!Next
<1> QED BY <1>6, <1>7, <1>8 DEF VerifierStep

\* Registering, indexing and sealing are not part of the conversation.
LEMMA DescribingIsSilent ==
  ASSUME Describe
  PROVE  UNCHANGED Abstract!vars
<1>1. UNCHANGED <<hashchain, verifier_hashchain, verdict>>
  BY DEF Describe, DescribeInteraction, RunIndexer, SealBcs, RegisterQuery, bcsVars,
         proverVars, verifierVars
<1> QED BY <1>1, NotSeen

\* Every step of the programs is a step of the conversation or is not seen.
LEMMA BcsNextConverses ==
  BcsInv /\ BcsInv' /\ [BcsNext]_<<vars, bcsVars>> => [Abstract!Next]_Abstract!vars
<1> SUFFICES ASSUME BcsInv, BcsInv', [BcsNext]_<<vars, bcsVars>>
             PROVE  Abstract!Next \/ UNCHANGED Abstract!vars
  OBVIOUS
<1>1. CASE UNCHANGED <<vars, bcsVars>>
  <2>1. UNCHANGED <<hashchain, verifier_hashchain, verdict>>
    BY <1>1 DEF bcsVars, proverVars, verifierVars
  <2> QED BY <2>1, NotSeen
<1> QED BY <1>1, ProverTalks, VerifierHears, DescribingIsSilent DEF BcsNext

\* What bcs_prover and bcs_verifier are for: the verifier hears the conversation
\* that the prover has had with its hash chain, all of it, and accepts it.
THEOREM BcsRefinement ==
  ASSUME CarefulCallers
  PROVE  BcsSpec => ImplementsPublicCoinProof
<1>1. BcsInit => Abstract!Init
  <2>1. << >> \in Seq(Talk)
    OBVIOUS
  <2>2. Conversation(<< >>) = << >>
    BY <2>1, ConversationOfTalk
  <2> QED BY <2>2 DEF BcsInit, Abstract!Init
<1>2. BcsInv /\ BcsInv' /\ [BcsNext]_<<vars, bcsVars>> => [Abstract!Next]_Abstract!vars
  BY BcsNextConverses
<1> QED BY <1>1, <1>2, BcsInvariant, PTL DEF BcsSpec, ImplementsPublicCoinProof, Abstract!Spec
=============================================================================
