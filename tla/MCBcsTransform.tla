--------------------------- MODULE MCBcsTransform ---------------------------
(***************************************************************************)
(* Small instances of BcsTransform: domains of two elements, one legal     *)
(* degree and messages of one size.                                        *)
(***************************************************************************)
EXTENDS BcsTransform

MCDomainSizes  == {2}
MCDegrees      == {1}
MCMessageSizes == {1}
=============================================================================
