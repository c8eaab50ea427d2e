--------------------------- MODULE MCInstantRunoff ---------------------------
(***************************************************************************)
(* A small instance of InstantRunoff: four candidates; a ballot names none,*)
(* one, or a candidate and one of two others.  The tables are written out  *)
(* as in the instances under circom/circuits/benchmark.  Lots turned by    *)
(* one place each let any member of a pool come out lowest.                *)
(***************************************************************************)
EXTENDS InstantRunoff

MCRankings ==
  <<<<>>, <<0>>, <<1>>, <<2>>, <<3>>, <<0, 1>>, <<1, 2>>, <<2, 3>>, <<3, 0>>,
    <<0, 2>>, <<1, 3>>, <<2, 0>>, <<3, 1>>>>
MCCandRemoved ==
  <<<<0, 0, 0, 0>>, <<0, 1, 1, 1>>, <<2, 0, 2, 2>>, <<3, 3, 0, 3>>,
    <<4, 4, 4, 0>>, <<2, 1, 5, 5>>, <<6, 3, 2, 6>>, <<7, 7, 4, 3>>,
    <<4, 8, 8, 1>>, <<3, 9, 1, 9>>, <<10, 4, 10, 2>>, <<3, 11, 1, 11>>,
    <<12, 4, 12, 2>>>>

MCnRankings == 13
MCrankingAt == [p \in 0..12 |-> MCRankings[p + 1]]
MCgetCandRemovedPos == [p \in 0..12 |-> [c \in 0..3 |-> MCCandRemoved[p + 1][c + 1]]]
MCgetFirstRankedPos ==
  [c \in 0..3 |-> <<{1, 5, 9}, {2, 6, 10}, {3, 7, 11}, {4, 8, 12}>>[c + 1]]
MCLots == {[c \in 0..3 |-> (c + k) % 4] : k \in 0..3}
=============================================================================
