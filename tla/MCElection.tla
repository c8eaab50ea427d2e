----------------------------- MODULE MCElection -----------------------------
(***************************************************************************)
(* Small instances of Election: a Borda list of two points.                *)
(***************************************************************************)
EXTENDS Election

MCorderedPoints == [i \in 0..1 |-> 2 - i]
MCAllKinds == {"single", "multi", "pointlist", "tournament", "condorcet", "majority"}
MCMulti    == {"multi"}
=============================================================================
