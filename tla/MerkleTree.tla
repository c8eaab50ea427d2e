----------------------------- MODULE MerkleTree -----------------------------
(***************************************************************************)
(* The Merkle trees of libiop/libiop/bcs/merkle_tree.tcc: a tree is         *)
(* constructed layer by layer, opened at a vector of positions with one     *)
(* proof that leaves out every hash the verifier can compute, and the proof *)
(* is validated layer by layer, in the order the prover made it.  The       *)
(* positions are sorted, as bcs_prover passes them.                         *)
(*                                                                         *)
(* Nodes are numbered as in inner_nodes_: the root is 0, the children of j  *)
(* are 2j+1 and 2j+2, leaf i is node NumLeaves-1+i.  Hashes are symbolic;   *)
(* leaf i holds content i and, in a zero-knowledge tree, salt i.            *)
(***************************************************************************)
EXTENDS Integers, Sequences, FiniteSets, SequencesExt

CONSTANTS
  Depth,       \* log_2 of the number of leaves
  MaxRepeated  \* bound on the length of a vector of positions with repetitions

ASSUME MerkleAssumption == Depth \in Nat \ {0} /\ MaxRepeated \in Nat

PowerOf2[k \in 0..Depth] == IF k = 0 THEN 1 ELSE 2 * PowerOf2[k - 1]

NumLeaves == PowerOf2[Depth]
Leaves    == 0..(NumLeaves - 1)
Nodes     == 0..(2 * NumLeaves - 2)
NodeOf(i) == NumLeaves - 1 + i

\* The nodes d layers below the root.
LayerNodes(d) == (PowerOf2[d] - 1)..(2 * PowerOf2[d] - 2)

\* The members of a set of leaves or nodes, sorted.
Sorted(P) ==
  LET below[k \in 0..(2 * NumLeaves - 1)] ==
        IF k = 0 THEN << >>
        ELSE IF k - 1 \in P THEN Append(below[k - 1], k - 1) ELSE below[k - 1]
  IN  below[2 * NumLeaves - 1]

\* Faulty: the parent of a node in a tree whose root is 1.
ParentFromOne(j) == j \div 2

Parent(j)  == (j - 1) \div 2
IsRight(j) == j % 2 = 0

\* Faulty: every node is taken for a right one.
SiblingToTheLeft(j) == j - 1

Sibling(j) == IF IsRight(j) THEN j - 1 ELSE j + 1

VARIABLES
  make_zk,        \* make_zk_: the leaves are salted
  phase,          \* construct, prove, validate, or the outcome
  inner_nodes,    \* inner_nodes_
  n,              \* first node of the layer compute_inner_nodes hashes
  positions,      \* the positions both sides are given
  contents,       \* the leaf contents the verifier is given, one per position
  S,              \* the nodes of the layer at hand
  new_S,          \* the nodes of the layer above that are known so far
  it,             \* index into S
  aux,            \* auxiliary_hashes of the proof
  randomness,     \* randomness_hashes of the proof
  aux_it,         \* how many of aux the verifier has taken
  num_hashes      \* two-to-one hashes the verifier has computed

vars == <<make_zk, phase, inner_nodes, n, positions, contents, S, new_S, it, aux, randomness,
          aux_it, num_hashes>>
treeVars == <<inner_nodes, n>>
inputVars == <<make_zk, positions, contents>>
loopVars == <<S, new_S, it>>

LeafHash(content, salt) == <<"leaf", content, salt>>
NodeHash(left, right) == <<"node", left, right>>
Salt(i) == IF make_zk THEN i ELSE -1

\* A hash nobody computed: one not assigned yet, or read past the end of a vector.
Garbage == <<"garbage", 0, 0>>
At(seq, i) == IF i \in DOMAIN seq THEN seq[i] ELSE Garbage

\* A vector of positions, in a tree without salts also with repetitions, and
\* contents of which one may not be the leaf's own.
WithRepetitions ==
  {v \in UNION {[1..k -> Leaves] : k \in 0..MaxRepeated} :
     \A i \in 1..(Len(v) - 1) : v[i] <= v[i + 1]}
InputPositions ==
  {Sorted(P) : P \in SUBSET Leaves} \union (IF make_zk THEN {} ELSE WithRepetitions)
WrongContent == NumLeaves

Init ==
  /\ make_zk \in BOOLEAN
  /\ phase = "construct"
  /\ inner_nodes = [j \in Nodes |->
                      IF j < NumLeaves - 1 THEN Garbage
                      ELSE LeafHash(j - (NumLeaves - 1), Salt(j - (NumLeaves - 1)))]
  /\ n = (NumLeaves - 1) \div 2
  /\ positions \in InputPositions
  /\ contents \in {positions} \union
       {[positions EXCEPT ![i] = WrongContent] : i \in DOMAIN positions}
  /\ S = << >>
  /\ new_S = << >>
  /\ it = 1
  /\ aux = << >>
  /\ randomness = << >>
  /\ aux_it = 0
  /\ num_hashes = 0

-----------------------------------------------------------------------------
(***************************************************************************)
(* Construction: compute_inner_nodes hashes nodes n..2n, then halves n.     *)
(***************************************************************************)

\* Faulty: the last node of the layer is left out.
LayerShort == n..(2 * n - 1)

Layer == n..(2 * n)

ConstructLayer ==
  /\ phase = "construct"
  /\ inner_nodes' = [j \in Nodes |->
                       IF j \in Layer
                       THEN NodeHash(inner_nodes[2 * j + 1], inner_nodes[2 * j + 2])
                       ELSE inner_nodes[j]]
  /\ n' = n \div 2
  /\ phase' = IF n > 0 THEN "construct" ELSE "open"
  /\ UNCHANGED <<inputVars, loopVars, aux, randomness, aux_it, num_hashes>>

-----------------------------------------------------------------------------
(***************************************************************************)
(* get_set_membership_proof.                                               *)
(***************************************************************************)

\* The salts of the opened leaves, in order.
Salts(sorted) == IF make_zk THEN sorted ELSE << >>

\* The positions sorted, without repetitions, as nodes; none to do for none.
BeginProof ==
  /\ phase = "open"
  /\ LET sorted == Sorted(ToSet(positions))
     IN  /\ S' = [i \in DOMAIN sorted |-> NodeOf(sorted[i])]
         /\ randomness' = Salts(sorted)
  /\ phase' = IF positions = << >> THEN "proved" ELSE "prove"
  /\ UNCHANGED <<treeVars, inputVars, new_S, it, aux, aux_it, num_hashes>>

\* Whether the entry after it is the right sibling of the left node j.
SiblingFollows(j, layer) == it < Len(layer) /\ layer[it + 1] = j + 1

AtRoot(layer) == layer = <<0>>

\* One node of the layer: its parent is noted, its sibling is added to the
\* proof unless it is next in S, when it is skipped.
ProveNode ==
  /\ phase = "prove"
  /\ ~AtRoot(S)
  /\ it <= Len(S)
  /\ LET j       == S[it]
         covered == ~IsRight(j) /\ SiblingFollows(j, S)
     IN  /\ new_S' = Append(new_S, Parent(j))
         /\ aux' = IF covered THEN aux ELSE Append(aux, inner_nodes[Sibling(j)])
         /\ it' = IF covered THEN it + 2 ELSE it + 1
  /\ UNCHANGED <<phase, treeVars, inputVars, S, randomness, aux_it, num_hashes>>

\* Faulty: the index into S goes on from the layer below.
NextLayerWithoutReset ==
  /\ phase \in {"prove", "validate"}
  /\ it > Len(S)
  /\ S' = new_S
  /\ new_S' = << >>
  /\ UNCHANGED <<phase, it, treeVars, inputVars, aux, randomness, aux_it, num_hashes>>

\* The layer is done.
NextLayer ==
  /\ phase \in {"prove", "validate"}
  /\ it > Len(S)
  /\ S' = new_S
  /\ new_S' = << >>
  /\ it' = 1
  /\ UNCHANGED <<phase, treeVars, inputVars, aux, randomness, aux_it, num_hashes>>

EndProof ==
  /\ phase = "prove"
  /\ AtRoot(S)
  /\ phase' = "proved"
  /\ S' = << >>
  /\ UNCHANGED <<treeVars, inputVars, new_S, it, aux, randomness, aux_it, num_hashes>>

-----------------------------------------------------------------------------
(***************************************************************************)
(* validate_set_membership_proof.  Entries of S are now nodes with hashes. *)
(***************************************************************************)

\* std__unique drops an entry that equals the one before it.
WithoutAdjacentCopies(entries) ==
  LET kept[i \in 0..Len(entries)] ==
        IF i = 0 THEN << >>
        ELSE IF i > 1 /\ entries[i] = entries[i - 1] THEN kept[i - 1]
        ELSE Append(kept[i - 1], entries[i])
  IN  kept[Len(entries)]

\* The leaves as the verifier hashes them: one salt for each content it is
\* given, then the copies removed.  Nothing sorts them.
LeafEntries ==
  WithoutAdjacentCopies(
    [i \in DOMAIN positions |->
       [node |-> NodeOf(positions[i]),
        hash |-> LeafHash(contents[i],
                          IF make_zk THEN At(randomness, i) ELSE -1)]])

BeginValidation ==
  /\ phase = "proved"
  /\ S' = LeafEntries
  /\ phase' = IF positions = << >> THEN "valid"
              ELSE IF \E i \in DOMAIN LeafEntries :
                        i > 1 /\ LeafEntries[i].node = LeafEntries[i - 1].node
              THEN "exception" ELSE "validate"
  /\ UNCHANGED <<treeVars, inputVars, new_S, it, aux, randomness, aux_it, num_hashes>>

NodesOfLayer == [i \in DOMAIN S |-> S[i].node]

\* Faulty: the sibling from the proof is always hashed on the right.
HashPairAlwaysLeft(j, own, other) == NodeHash(own, other)

HashPair(j, own, other) ==
  IF IsRight(j) THEN NodeHash(other, own) ELSE NodeHash(own, other)

\* One node of the layer: its parent is hashed from it and its sibling, which is
\* next in S or next in the proof.
ValidateNode ==
  /\ phase = "validate"
  /\ ~AtRoot(NodesOfLayer)
  /\ it <= Len(S)
  /\ LET j       == S[it].node
         covered == ~IsRight(j) /\ SiblingFollows(j, NodesOfLayer)
         other   == IF covered THEN S[it + 1].hash ELSE At(aux, aux_it + 1)
     IN  /\ new_S' = Append(new_S, [node |-> Parent(j),
                                    hash |-> HashPair(j, S[it].hash, other)])
         /\ aux_it' = IF covered THEN aux_it ELSE aux_it + 1
         /\ it' = IF covered THEN it + 2 ELSE it + 1
  /\ num_hashes' = num_hashes + 1
  /\ UNCHANGED <<phase, treeVars, inputVars, S, aux, randomness>>

\* At the root: the whole proof must have been taken, and the hash is the root's.
EndValidation ==
  /\ phase = "validate"
  /\ AtRoot(NodesOfLayer)
  /\ phase' = IF aux_it # Len(aux) THEN "exception"
              ELSE IF S[1].hash = inner_nodes[0] THEN "valid" ELSE "invalid"
  /\ UNCHANGED <<treeVars, inputVars, loopVars, aux, randomness, aux_it, num_hashes>>

Next ==
  \/ ConstructLayer
  \/ BeginProof \/ ProveNode \/ NextLayer \/ EndProof
  \/ BeginValidation \/ ValidateNode \/ EndValidation

\* The three functions are loops of a sequential program.
Spec == Init /\ [][Next]_vars /\ WF_vars(Next)

-----------------------------------------------------------------------------
(***************************************************************************)
(* count_hashes_to_verify_set_membership_proof.                            *)
(***************************************************************************)

\* Faulty: every position has a parent of its own.
ParentsCounted(level) == [i \in DOMAIN level |-> level[i] \div 2]

\* The parents of sorted positions, each once.
ParentsOf(level) ==
  WithoutAdjacentCopies([i \in DOMAIN level |-> level[i] \div 2])

\* The positions k layers above the leaves.
LevelAbove(leafLevel) ==
  LET above[k \in 0..Depth] == IF k = 0 THEN leafLevel ELSE ParentsOf(above[k - 1])
  IN  above

\* The parents of the positions in the k layers above the leaves.
HashesUpTo(leafLevel) ==
  LET above == LevelAbove(leafLevel)
      sum[k \in 0..Depth] == IF k = 0 THEN 0 ELSE sum[k - 1] + Len(above[k])
  IN  sum

\* For no positions the code's assert reads the entry before the first of an empty
\* vector, so the count is that of the code for a position at least.
HashesToVerify == HashesUpTo(positions)[Depth]

-----------------------------------------------------------------------------
(***************************************************************************)
(* Properties.                                                             *)
(***************************************************************************)

\* Reference: the hash of a node by recursion from the root.
HashOf[j \in Nodes] ==
  IF j >= NumLeaves - 1 THEN LeafHash(j - (NumLeaves - 1), Salt(j - (NumLeaves - 1)))
  ELSE NodeHash(HashOf[2 * j + 1], HashOf[2 * j + 2])

\* Reference: the nodes on the path from a leaf to the root, by their height.
Climb(i) ==
  LET up[k \in 0..Depth] == IF k = 0 THEN NodeOf(i) ELSE Parent(up[k - 1])
  IN  up

\* Reference: the nodes on the paths from the opened leaves.
PathNodes == {Climb(positions[i])[k] : i \in DOMAIN positions, k \in 0..Depth}

Outcomes == {"valid", "invalid", "exception"}

\* Both loops go through one layer at a time, from left to right and without
\* repetition: that is what makes the entry after a left node the only place
\* where its right sibling can be.
LayersAreSorted ==
  phase \in {"prove", "validate"} =>
    LET nodes == IF phase = "prove" THEN S ELSE NodesOfLayer
        isLayer(seq) ==
          /\ \A i \in 1..(Len(seq) - 1) : seq[i] < seq[i + 1]
          /\ \E d \in 0..Depth :
               \A i \in DOMAIN seq : seq[i] \in LayerNodes(d)
    IN  isLayer(nodes)

\* The variables of the loops keep their types, and the nodes their order.
TypeOK ==
  /\ phase \in {"construct", "open", "prove", "proved", "validate"} \union Outcomes
  /\ DOMAIN inner_nodes = Nodes
  /\ n \in 0..NumLeaves
  /\ phase \in {"prove", "validate"} => Len(S) <= NumLeaves
  /\ it \in 1..(Len(S) + 1)
  /\ aux_it \in Nat /\ num_hashes \in Nat
  /\ LayersAreSorted

\* compute_inner_nodes, with its halved bounds, hashes every node of the tree,
\* and each from its own children.
TreeIsComplete ==
  phase # "construct" => inner_nodes = HashOf

\* The proof holds the siblings that are needed and nothing that can be computed:
\* siblings of nodes on a path that are on no path, from the leaves up and from
\* left to right.
ProofIsMinimal ==
  phase = "proved" =>
    LET needed     == {j \in Nodes \ ({0} \union PathNodes) : Parent(j) \in PathNodes}
        onLayer(d) == Sorted(needed \intersect LayerNodes(d))
        upwards    == FlattenSeq([k \in 1..Depth |-> onLayer(Depth + 1 - k)])
    IN  aux = [i \in DOMAIN upwards |-> HashOf[upwards[i]]]

\* A position that is given twice with different contents.
Contradictory ==
  \E i, j \in DOMAIN positions : positions[i] = positions[j] /\ contents[i] # contents[j]

\* A proof for the leaves themselves is valid, one for other contents is not, and
\* an exception is thrown exactly for contradictory contents; the hashes of the
\* proof are all taken and never run out.
ValidatesExactlyTheLeaves ==
  /\ phase \in Outcomes =>
       phase = IF contents = positions THEN "valid"
               ELSE IF Contradictory THEN "exception" ELSE "invalid"
  /\ aux_it <= Len(aux)

\* What count_hashes_to_verify_set_membership_proof says, which the tests and the
\* constraint counts rely on, is what validation computes, for any positions but
\* none.
HashCountIsExact ==
  phase \in {"valid", "invalid"} /\ positions # << >> => num_hashes = HashesToVerify

\* Both loops come to the root.
Terminates == <>(phase \in Outcomes)

=============================================================================
