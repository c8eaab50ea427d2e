--------------------------- MODULE PublicCoinProof ---------------------------
(***************************************************************************)
(* What the BCS transformation promises: a conversation between prover and *)
(* verifier that the verifier can hear as if it had been there, after the  *)
(* fact, and that makes it accept.                                         *)
(***************************************************************************)
EXTENDS Sequences, SequencesExt

VARIABLES
  conversation,  \* what prover and verifier have said
  heard,         \* the conversation as the verifier reconstructs it
  verdict        \* "none" or "accepted"

vars == <<conversation, heard, verdict>>

Init ==
  /\ conversation = << >>
  /\ heard = << >>
  /\ verdict = "none"

\* A round is added to what has been said; nothing is taken back.
Talk ==
  /\ heard = << >>
  /\ IsStrictPrefix(conversation, conversation')
  /\ UNCHANGED <<heard, verdict>>

\* The verifier reconstructs all of it, and from then on it is fixed.
Hear ==
  /\ heard = << >>
  /\ conversation # << >>
  /\ heard' = conversation
  /\ UNCHANGED <<conversation, verdict>>

Accept ==
  /\ verdict = "none"
  /\ heard # << >>
  /\ verdict' = "accepted"
  /\ UNCHANGED <<conversation, heard>>

Next == Talk \/ Hear \/ Accept

Spec == Init /\ [][Next]_vars

=============================================================================
