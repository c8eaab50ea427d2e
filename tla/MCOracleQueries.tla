--------------------------- MODULE MCOracleQueries ---------------------------
(***************************************************************************)
(* A small instance of OracleQueries: two real oracles in one tree and one *)
(* in another, a virtual oracle over two of them and one on top of it,     *)
(* and a deterministic query position next to its seeds.                   *)
(***************************************************************************)
EXTENDS OracleQueries

MCtrees == <<<<1, 2>>, <<3>>>>
MCconstituents == [v \in 4..5 |-> IF v = 4 THEN <<1, 3>> ELSE <<2, 4>>]
MCseeds == [p \in {3} |-> <<2, 1>>]
MCcalculator(p, values) == (values[1] + values[2] + 1) % domainSize
MCqueries ==
  <<[oracle |-> 5, position |-> 1], [oracle |-> 4, position |-> 2],
    [oracle |-> 2, position |-> 3]>>
=============================================================================
