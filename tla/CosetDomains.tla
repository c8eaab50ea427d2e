---------------------------- MODULE CosetDomains ----------------------------
(***************************************************************************)
(* Cosets of multiplicative subgroups as evaluation domains                *)
(* (algebra/field_subset/subgroup.tcc), the order in which their elements  *)
(* are cut into smaller cosets, and the leaves of a Merkle tree that hold  *)
(* such a coset each (bcs/merkle_tree.tcc, bcs/bcs_common.tcc).  Vectors   *)
(* are functions on 0..n-1.                                                *)
(***************************************************************************)
EXTENDS Naturals, Sequences, FiniteSets, FiniteSetsExt

CONSTANTS
  P,         \* the number of elements of the field, a prime
  Generator  \* FieldT::multiplicative_generator

Field == 0..(P - 1)

Power == [x \in Field |->
            LET power[n \in 0..P] == IF n = 0 THEN 1 ELSE (power[n - 1] * x) % P IN power]

ASSUME FieldAssumption ==
  /\ P \in Nat /\ P > 2 /\ \A d \in 2..(P - 1) : P % d # 0
  /\ Generator \in Field /\ {Power[Generator][n] : n \in 1..(P - 1)} = Field \ {0}

Minus(x, y) == (x + P - y) % P
Inverted    == [x \in Field \ {0} |-> CHOOSE y \in Field : (x * y) % P = 1]
Total(f)    == MapThenSumSet(LAMBDA x : f[x], DOMAIN f) % P

RootOfUnity(order) == Power[Generator][(P - 1) \div order]

-----------------------------------------------------------------------------
(***************************************************************************)
(* A domain has an order, the number of its elements, and a shift.         *)
(***************************************************************************)
ElementByIndex(domain, i) == (domain.shift * Power[RootOfUnity(domain.order)][i]) % P

NumCosets(domain, size) == domain.order \div size

CosetIndex(domain, position, size)      == position % NumCosets(domain, size)
IntraCosetIndex(domain, position, size) == position \div NumCosets(domain, size)

PositionByCosetIndices(domain, coset, k, size) == coset + k * NumCosets(domain, size)

-----------------------------------------------------------------------------
(***************************************************************************)
(* Polynomials are sequences of coefficients.                              *)
(***************************************************************************)
Evaluation(c, x) == Total([n \in DOMAIN c |-> c[n] * Power[x][n - 1]])

\* FFT_over_field_subset
EvaluatedOver(c, domain) ==
  [i \in 0..(domain.order - 1) |-> Evaluation(c, ElementByIndex(domain, i))]

\* IFFT_over_field_subset
CoefficientsFrom(f, domain) ==
  LET g == RootOfUnity(domain.order)
  IN [n \in 1..domain.order |->
        (Inverted[(domain.order * Power[domain.shift][n - 1]) % P]
           * Total([i \in DOMAIN f |-> f[i] * Inverted[Power[Power[g][i]][n - 1]]])) % P]

-----------------------------------------------------------------------------
(***************************************************************************)
(* A leaf holds, oracle after oracle, the values on one coset.  oracles is *)
(* a sequence of vectors over the domain.                                  *)
(***************************************************************************)
\* construct_with_leaves_serialized_by_cosets
LeafContents(oracles, domain, size, leaf) ==
  [n \in 0..(Len(oracles) * size - 1) |->
     oracles[n \div size + 1][PositionByCosetIndices(domain, leaf, n % size, size)]]

MerkleTreePosition(position, domain, size) == position % NumCosets(domain, size)

\* Faulty: the columns are filled in the order of the leaves, one after the other.
ColumnInARow(positions, domain, size, i) == (i - 1) \div size

\* The column of a queried position: how many leaves come up before its own does.
ColumnOf(positions, domain, size, i) ==
  LET leaf(n) == CosetIndex(domain, positions[n], size)
      first   == CHOOSE n \in 1..i : leaf(n) = leaf(i) /\ \A m \in 1..(n - 1) : leaf(m) # leaf(i)
  IN Cardinality({leaf(n) : n \in 1..(first - 1)})

\* serialize_leaf_values_by_coset: values[i] is what the oracles hold at positions[i], and a
\* value goes to the next free entry of its column.
SerializedByCoset(values, positions, domain, size) ==
  LET column(i) == ColumnOf(positions, domain, size, i)
      entry(i)  == Cardinality({n \in 1..(i - 1) : column(n) = column(i)})
  IN [c \in 1..(Len(positions) \div size) |->
        [n \in 0..(Len(values[1]) * size - 1) |->
           LET i == CHOOSE i \in DOMAIN positions : column(i) = c - 1 /\ entry(i) = n % size
           IN values[i][n \div size + 1]]]

Sorted(S) ==
  [i \in 1..Cardinality(S) |-> CHOOSE x \in S : Cardinality({y \in S : y < x}) = i - 1]

\* What the proof carries and what the verifier makes of it fit: the leaves rebuilt from the
\* values at the queried positions are the leaves that the tree was made of.
LeavesFit(oracles, queried, domain, size) ==
  LET positions == Sorted(queried)
      leaves    == Sorted({MerkleTreePosition(p, domain, size) : p \in queried})
      values    == [i \in DOMAIN positions |->
                      [o \in DOMAIN oracles |-> oracles[o][positions[i]]]]
  IN SerializedByCoset(values, positions, domain, size)
       = [i \in DOMAIN leaves |-> LeafContents(oracles, domain, size, leaves[i])]
=============================================================================
