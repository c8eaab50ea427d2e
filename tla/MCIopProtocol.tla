---------------------------- MODULE MCIopProtocol ----------------------------
(***************************************************************************)
(* Small instances of IopProtocol: one domain of two elements, on which    *)
(* degree 1 is legal and degree 2 is not, and messages of one size, which   *)
(* is enough for both outcomes of every size check.                        *)
(***************************************************************************)
EXTENDS IopProtocol

MCDomainSizes  == {2}
MCDegrees      == {1, 2}
MCMessageSizes == {1}
=============================================================================
