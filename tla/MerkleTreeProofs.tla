-------------------------- MODULE MerkleTreeProofs --------------------------
(***************************************************************************)
(* Theorems about MerkleTree, for every depth and every vector of sorted   *)
(* positions: the tree is complete, the proof is minimal, the validation   *)
(* accepts exactly the leaves' own contents, takes what the prover put in  *)
(* the order it was put in, and computes as many hashes as are counted.    *)
(*                                                                         *)
(* A layer of either loop is a list: an ascending sequence with the        *)
(* members of a set, of which there is one.  The nodes of layer d are the  *)
(* list of the nodes on paths (Path), what layer d adds to the proof is    *)
(* the list of their siblings on no path (Needed), and all that is needed  *)
(* below layer d comes before it (Upwards).  LoopAt says how far a loop is *)
(* in a layer; both loops keep it by the same lemmas.                      *)
(***************************************************************************)
EXTENDS MerkleTree, LibraryFacts, TLAPS

-----------------------------------------------------------------------------
(***************************************************************************)
(* Powers, layers and parents.                                             *)
(***************************************************************************)
\* The recursion of PowerOf2.
Doubling(p) == p = [k \in 0..Depth |-> IF k = 0 THEN 1 ELSE 2 * p[k - 1]]

\* There are such powers.
LEMMA DoublingExists == \E p : Doubling(p)
<1> DEFINE step == [k \in 1..Depth |-> [v \in Nat |-> 2 * v]]
<1>1. step \in [1..Depth -> [Nat -> Nat]] /\ Depth \in Nat
  BY MerkleAssumption
<1> HIDE DEF step
<1>2. PICK p \in [0..Depth -> Nat] : Stepwise(Depth, 1, step, p)
  BY <1>1, RecursionExists
<1>3. \A k \in 0..Depth : p[k] = IF k = 0 THEN 1 ELSE step[k][p[k - 1]]
  BY <1>2, Zenon DEF Stepwise
<1>4. \A k \in 0..Depth : p[k] = IF k = 0 THEN 1 ELSE 2 * p[k - 1]
  <2>1. SUFFICES ASSUME NEW k \in 0..Depth, k # 0 PROVE p[k] = 2 * p[k - 1]
    BY <1>3
  <2>2. k \in 1..Depth /\ k - 1 \in 0..Depth
    BY <1>1, <2>1
  <2>3. step[k][p[k - 1]] = 2 * p[k - 1]
    BY <1>2, <2>2 DEF step
  <2> QED BY <1>3, <2>1, <2>3, Zenon
<1>5. p = [k \in 0..Depth |-> p[k]]
  BY <1>2
<1>6. [k \in 0..Depth |-> p[k]] = [k \in 0..Depth |-> IF k = 0 THEN 1 ELSE 2 * p[k - 1]]
  BY <1>4, Zenon
<1>7. Doubling(p)
  BY <1>5, <1>6, Zenon DEF Doubling
<1> QED BY <1>7

\* The powers of two.
LEMMA PowerOf2Equation ==
  /\ Depth \in Nat \ {0}
  /\ PowerOf2[0] = 1
  /\ \A k \in 1..Depth : PowerOf2[k] = 2 * PowerOf2[k - 1]
<1>1. Doubling(PowerOf2)
  BY DoublingExists, Zenon DEF Doubling, PowerOf2
<1>2. \A k \in 0..Depth : PowerOf2[k] = IF k = 0 THEN 1 ELSE 2 * PowerOf2[k - 1]
  BY <1>1, Zenon DEF Doubling
<1>3. Depth \in Nat \ {0}
  BY MerkleAssumption
<1> QED BY <1>2, <1>3

\* Powers of two are positive numbers, no greater than the number of leaves.
LEMMA PowerOf2Type ==
  /\ \A k \in 0..Depth : PowerOf2[k] \in Nat \ {0} /\ PowerOf2[k] <= NumLeaves
  /\ NumLeaves \in Nat /\ NumLeaves = 2 * PowerOf2[Depth - 1]
<1> DEFINE N == {k \in Nat : k <= Depth => PowerOf2[k] \in Nat \ {0}}
<1>1. 0 \in N
  BY PowerOf2Equation
<1>2. ASSUME NEW k \in Nat, k \in N PROVE k + 1 \in N
  <2> SUFFICES ASSUME k + 1 <= Depth PROVE PowerOf2[k + 1] \in Nat \ {0}
    OBVIOUS
  <2>1. PowerOf2[k] \in Nat \ {0}
    BY <1>2, PowerOf2Equation
  <2>2. k + 1 \in 1..Depth /\ (k + 1) - 1 = k
    BY PowerOf2Equation
  <2>3. PowerOf2[k + 1] = 2 * PowerOf2[k]
    BY <2>2, PowerOf2Equation
  <2> QED BY <2>1, <2>3
<1> HIDE DEF N
<1>3. Nat \subseteq N
  BY <1>1, <1>2, NatSetInduction
<1>4. \A k \in 0..Depth : PowerOf2[k] \in Nat \ {0}
  BY <1>3, PowerOf2Equation DEF N
<1> DEFINE M == {k \in Nat : k <= Depth => PowerOf2[Depth - k] <= NumLeaves}
<1>5. 0 \in M
  BY <1>4, PowerOf2Equation DEF NumLeaves
<1>6. ASSUME NEW k \in Nat, k \in M PROVE k + 1 \in M
  <2> SUFFICES ASSUME k + 1 <= Depth PROVE PowerOf2[Depth - (k + 1)] <= NumLeaves
    OBVIOUS
  <2>1. PowerOf2[Depth - k] <= NumLeaves
    BY <1>6, PowerOf2Equation
  <2>2. Depth - k \in 1..Depth /\ (Depth - k) - 1 = Depth - (k + 1) /\ Depth - (k + 1) \in 0..Depth
        /\ Depth \in 0..Depth
    BY PowerOf2Equation
  <2>3. PowerOf2[Depth - k] = 2 * PowerOf2[Depth - (k + 1)]
    BY <2>2, PowerOf2Equation
  <2>4. PowerOf2[Depth - (k + 1)] \in Nat /\ NumLeaves \in Nat
    BY <1>4, <2>2 DEF NumLeaves
  <2> QED BY <2>1, <2>3, <2>4
<1> HIDE DEF M
<1>7. Nat \subseteq M
  BY <1>5, <1>6, NatSetInduction
<1>8. ASSUME NEW k \in 0..Depth PROVE PowerOf2[k] <= NumLeaves
  <2>1. Depth - k \in Nat /\ Depth - k <= Depth /\ Depth - (Depth - k) = k
    BY PowerOf2Equation
  <2>2. Depth - k \in M
    BY <1>7, <2>1
  <2> QED BY <2>1, <2>2 DEF M
<1>9. NumLeaves \in Nat /\ NumLeaves = 2 * PowerOf2[Depth - 1]
  BY <1>4, PowerOf2Equation DEF NumLeaves
<1> QED BY <1>4, <1>8, <1>9

\* A node that is not the root is one of the two children of its parent.
LEMMA ParentFacts ==
  \A j \in Nat \ {0} :
    /\ Parent(j) \in Nat
    /\ IsRight(j) => j = 2 * Parent(j) + 2 /\ Sibling(j) = 2 * Parent(j) + 1
    /\ ~IsRight(j) => j = 2 * Parent(j) + 1 /\ Sibling(j) = 2 * Parent(j) + 2
BY DEF Parent, IsRight, Sibling

\* A layer and the one above it.
LEMMA LayerFacts ==
  /\ LayerNodes(0) = {0}
  /\ \A d \in 0..Depth : LayerNodes(d) \subseteq Nodes /\ LayerNodes(d) \subseteq Nat
  /\ \A d \in 1..Depth : \A j \in LayerNodes(d) :
       j # 0 /\ Parent(j) \in LayerNodes(d - 1) /\ Sibling(j) \in LayerNodes(d)
                /\ Parent(j) < NumLeaves - 1
<1>1. LayerNodes(0) = {0}
  BY PowerOf2Equation DEF LayerNodes
<1>2. ASSUME NEW d \in 0..Depth
      PROVE  LayerNodes(d) \subseteq Nodes /\ LayerNodes(d) \subseteq Nat
  BY PowerOf2Type DEF LayerNodes, Nodes
<1>3. ASSUME NEW d \in 1..Depth, NEW j \in LayerNodes(d)
      PROVE  /\ j # 0 /\ Parent(j) \in LayerNodes(d - 1) /\ Sibling(j) \in LayerNodes(d)
             /\ Parent(j) < NumLeaves - 1
  <2> DEFINE p == PowerOf2[d - 1]
  <2>1. /\ p \in Nat \ {0} /\ PowerOf2[d] = 2 * p /\ 2 * p <= NumLeaves /\ NumLeaves \in Nat
    BY PowerOf2Equation, PowerOf2Type
  <2>2. LayerNodes(d) = (2 * p - 1)..(2 * (2 * p) - 2) /\ LayerNodes(d - 1) = (p - 1)..(2 * p - 2)
    BY <2>1 DEF LayerNodes
  <2> HIDE DEF p
  <2>3. j \in Nat \ {0} /\ 2 * p - 1 <= j /\ j <= 4 * p - 2
    BY <2>1, <2>2
  <2>4. /\ Parent(j) \in Nat
        /\ IsRight(j) => j = 2 * Parent(j) + 2 /\ Sibling(j) = 2 * Parent(j) + 1
        /\ ~IsRight(j) => j = 2 * Parent(j) + 1 /\ Sibling(j) = 2 * Parent(j) + 2
    BY <2>3, ParentFacts
  <2> QED BY <2>1, <2>2, <2>3, <2>4, SMTT(25)
<1> QED BY <1>1, <1>2, <1>3

-----------------------------------------------------------------------------
(***************************************************************************)
(* The hashes of the reference.                                            *)
(***************************************************************************)
\* The recursion of HashOf.
Hashing(h) ==
  h = [j \in Nodes |->
         IF j >= NumLeaves - 1
         THEN LeafHash(j - (NumLeaves - 1), Salt(j - (NumLeaves - 1)))
         ELSE NodeHash(h[2 * j + 1], h[2 * j + 2])]

\* There are such hashes, from the last leaf down to the root.
LEMMA HashingExists == \E h : Hashing(h)
<1> DEFINE last == 2 * NumLeaves - 2
           body(j, h) == IF j >= NumLeaves - 1
                         THEN LeafHash(j - (NumLeaves - 1), Salt(j - (NumLeaves - 1)))
                         ELSE NodeHash(h[2 * j + 1], h[2 * j + 2])
           from(u, h) == h = [j \in u..last |-> body(j, h)]
           N == {u \in Nat : u <= last + 1 => \E h : from(last + 1 - u, h)}
<1>1. NumLeaves \in Nat \ {0}
  BY PowerOf2Type, PowerOf2Equation DEF NumLeaves
<1>2. 0 \in N
  <2>1. from(last + 1, [j \in (last + 1)..last |-> Garbage])
    BY <1>1
  <2> HIDE DEF from
  <2>2. \E h : from(last + 1, h)
    BY <2>1, Zenon
  <2>3. last + 1 - 0 = last + 1
    BY <1>1
  <2> QED BY <2>2, <2>3
<1>3. ASSUME NEW u \in Nat, u \in N PROVE u + 1 \in N
  <2>0. u + 1 \in Nat
    OBVIOUS
  <2> HIDE DEF from, last
  <2> SUFFICES ASSUME u + 1 <= last + 1 PROVE \E h : from(last + 1 - (u + 1), h)
    BY <2>0
  <2> USE DEF from, last
  <2> DEFINE m == last - u
  <2>1. m + 1 = last + 1 - u /\ m = last + 1 - (u + 1) /\ m \in Nat /\ last \in Nat /\ m <= last
    BY <1>1
  <2>2. PICK h : from(m + 1, h)
    BY <1>1, <1>3, <2>1
  <2> HIDE DEF m
  <2> DEFINE g == [j \in m..last |-> IF j = m THEN body(m, h) ELSE h[j]]
  <2>3. ASSUME NEW j \in m..last PROVE g[j] = body(j, g)
    <3>0. \A i \in (m + 1)..last : h[i] = body(i, h)
      <4>1. h = [i \in (m + 1)..last |-> body(i, h)]
        BY <2>2
      <4> HIDE DEF body
      <4> QED BY <4>1, Zenon
    <3>1. \A i \in (m + 1)..last : h[i] = body(i, h) /\ g[i] = h[i]
      <4> HIDE DEF body
      <4>1. \A i \in (m + 1)..last : i \in m..last /\ i # m
        BY <2>1
      <4>2. \A i \in m..last : g[i] = IF i = m THEN body(m, h) ELSE h[i]
        OBVIOUS
      <4> HIDE DEF g
      <4>3. \A i \in (m + 1)..last : g[i] = h[i]
        BY <4>1, <4>2
      <4> QED BY <3>0, <4>3
    <3>2. body(j, g) = body(j, h)
      <4>1. CASE j >= NumLeaves - 1
        BY <4>1
      <4>2. CASE j < NumLeaves - 1
        <5>1. 2 * j + 1 \in (m + 1)..last /\ 2 * j + 2 \in (m + 1)..last
          BY <1>1, <2>1, <4>2
        <5>2. g[2 * j + 1] = h[2 * j + 1] /\ g[2 * j + 2] = h[2 * j + 2]
          BY <3>1, <5>1
        <5> HIDE DEF g
        <5> QED BY <5>2
      <4> QED BY <1>1, <2>1, <4>1, <4>2
    <3>3. g[j] = body(j, h)
      <4>1. CASE j = m
        BY <4>1
      <4>2. CASE j # m
        <5>1. j \in (m + 1)..last
          BY <2>1, <4>2
        <5> HIDE DEF g, body
        <5> QED BY <3>1, <5>1
      <4> QED BY <4>1, <4>2
    <3> QED BY <3>2, <3>3, Zenon
  <2>4. g = [j \in m..last |-> g[j]]
    OBVIOUS
  <2> HIDE DEF g, body
  <2>5. from(m, g)
    <3>1. [j \in m..last |-> g[j]] = [j \in m..last |-> body(j, g)]
      BY <2>3
    <3> QED BY <2>4, <3>1
  <2>6. \E f : from(m, f)
    BY <2>5, Zenon
  <2> QED BY <2>1, <2>6, Zenon
<1> HIDE DEF N
<1>4. Nat \subseteq N
  BY <1>2, <1>3, NatSetInduction
<1>5. last + 1 \in N /\ last + 1 - (last + 1) = 0 /\ Nodes = 0..last
  BY <1>1, <1>4 DEF Nodes
<1> HIDE DEF from, last
<1>6. \E h : from(0, h)
  <2>1. last + 1 <= last + 1
    BY <1>1 DEF last
  <2> QED BY <1>5, <2>1 DEF N
<1> QED BY <1>5, <1>6, Zenon DEF Hashing, from

\* What the hash of a node is made of.
LEMMA HashOfEquation ==
  /\ DOMAIN HashOf = Nodes
  /\ \A i \in Leaves : NodeOf(i) \in Nodes /\ HashOf[NodeOf(i)] = LeafHash(i, Salt(i))
  /\ \A j \in Nodes : j < NumLeaves - 1 => HashOf[j] = NodeHash(HashOf[2 * j + 1], HashOf[2 * j + 2])
<1>0. NumLeaves \in Nat \ {0}
  BY PowerOf2Type, PowerOf2Equation DEF NumLeaves
<1>1. Hashing(HashOf)
  BY HashingExists, Zenon DEF Hashing, HashOf
<1>2. HashOf = [j \in Nodes |->
         IF j >= NumLeaves - 1
         THEN LeafHash(j - (NumLeaves - 1), Salt(j - (NumLeaves - 1)))
         ELSE NodeHash(HashOf[2 * j + 1], HashOf[2 * j + 2])]
  BY <1>1, Zenon DEF Hashing
<1>3. /\ DOMAIN HashOf = Nodes
      /\ \A j \in Nodes :
           HashOf[j] = IF j >= NumLeaves - 1
                       THEN LeafHash(j - (NumLeaves - 1), Salt(j - (NumLeaves - 1)))
                       ELSE NodeHash(HashOf[2 * j + 1], HashOf[2 * j + 2])
  BY <1>2, Zenon
<1>4. ASSUME NEW i \in Leaves
      PROVE  NodeOf(i) \in Nodes /\ HashOf[NodeOf(i)] = LeafHash(i, Salt(i))
  <2>1. NodeOf(i) \in Nodes /\ NodeOf(i) >= NumLeaves - 1 /\ NodeOf(i) - (NumLeaves - 1) = i
    BY <1>0 DEF NodeOf, Nodes, Leaves
  <2>2. HashOf[NodeOf(i)] = LeafHash(NodeOf(i) - (NumLeaves - 1), Salt(NodeOf(i) - (NumLeaves - 1)))
    BY <1>3, <2>1
  <2> QED BY <2>1, <2>2, Zenon
<1>5. ASSUME NEW j \in Nodes, j < NumLeaves - 1
      PROVE  HashOf[j] = NodeHash(HashOf[2 * j + 1], HashOf[2 * j + 2])
  BY <1>0, <1>3, <1>5 DEF Nodes
<1> QED BY <1>3, <1>4, <1>5

\* Two hashes of nodes are equal exactly when both halves are.
LEMMA NodeHashInjective ==
  \A a, b, c, d : NodeHash(a, b) = NodeHash(c, d) <=> a = c /\ b = d
BY DEF NodeHash

\* Two hashes of leaves are equal exactly when content and salt are.
LEMMA LeafHashInjective ==
  \A a, b, c, d : LeafHash(a, b) = LeafHash(c, d) <=> a = c /\ b = d
BY DEF LeafHash

\* The hash of a pair of siblings is that of their parent exactly when both hashes are right.
LEMMA HashPairIsRight ==
  ASSUME NEW d \in 1..Depth, NEW j \in LayerNodes(d), NEW own, NEW other
  PROVE  HashPair(j, own, other) = HashOf[Parent(j)]
           <=> own = HashOf[j] /\ other = HashOf[Sibling(j)]
<1>1. /\ j \in Nat \ {0} /\ Parent(j) \in Nodes /\ Parent(j) < NumLeaves - 1
  <2>1. d \in 0..Depth /\ d - 1 \in 0..Depth
    BY PowerOf2Equation
  <2> QED BY <2>1, LayerFacts
<1>2. HashOf[Parent(j)] = NodeHash(HashOf[2 * Parent(j) + 1], HashOf[2 * Parent(j) + 2])
  BY <1>1, HashOfEquation
<1>3. CASE IsRight(j)
  <2>1. j = 2 * Parent(j) + 2 /\ Sibling(j) = 2 * Parent(j) + 1
    BY <1>1, <1>3, ParentFacts
  <2>2. HashOf[Parent(j)] = NodeHash(HashOf[Sibling(j)], HashOf[j])
    BY <1>2, <2>1, Zenon
  <2>3. HashPair(j, own, other) = NodeHash(other, own)
    BY <1>3, Zenon DEF HashPair
  <2>4. NodeHash(other, own) = NodeHash(HashOf[Sibling(j)], HashOf[j])
          <=> other = HashOf[Sibling(j)] /\ own = HashOf[j]
    BY DEF NodeHash
  <2> QED BY <2>2, <2>3, <2>4, Zenon
<1>4. CASE ~IsRight(j)
  <2>1. j = 2 * Parent(j) + 1 /\ Sibling(j) = 2 * Parent(j) + 2
    BY <1>1, <1>4, ParentFacts
  <2>2. HashOf[Parent(j)] = NodeHash(HashOf[j], HashOf[Sibling(j)])
    BY <1>2, <2>1, Zenon
  <2>3. HashPair(j, own, other) = NodeHash(own, other)
    BY <1>4, Zenon DEF HashPair
  <2>4. NodeHash(own, other) = NodeHash(HashOf[j], HashOf[Sibling(j)])
          <=> own = HashOf[j] /\ other = HashOf[Sibling(j)]
    BY DEF NodeHash
  <2> QED BY <2>2, <2>3, <2>4, Zenon
<1> QED BY <1>3, <1>4
-----------------------------------------------------------------------------
(***************************************************************************)
(* Sorting, and dropping copies.                                           *)
(***************************************************************************)
\* The recursion of Sorted.
Sorting(P, b) ==
  b = [k \in 0..(2 * NumLeaves - 1) |->
         IF k = 0 THEN << >>
         ELSE IF k - 1 \in P THEN Append(b[k - 1], k - 1) ELSE b[k - 1]]

\* There is such a recursion, and its last value is Sorted(P).
LEMMA SortingExists ==
  ASSUME NEW P
  PROVE  \E b \in [0..(2 * NumLeaves - 1) -> Seq(Nat)] :
           Sorting(P, b) /\ Sorted(P) = b[2 * NumLeaves - 1]
<1> DEFINE last == 2 * NumLeaves - 1
           step == [k \in 1..last |-> [v \in Seq(Nat) |->
                      IF k - 1 \in P THEN Append(v, k - 1) ELSE v]]
<1>0. NumLeaves \in Nat \ {0} /\ last \in Nat
  BY PowerOf2Type, PowerOf2Equation DEF NumLeaves
<1> HIDE DEF last
<1>1. step \in [1..last -> [Seq(Nat) -> Seq(Nat)]]
  <2>1. ASSUME NEW k \in 1..last, NEW v \in Seq(Nat)
        PROVE  (IF k - 1 \in P THEN Append(v, k - 1) ELSE v) \in Seq(Nat)
    <3>1. k - 1 \in Nat
      BY <1>0
    <3> QED BY <3>1
  <2> QED BY <2>1
<1>2. << >> \in Seq(Nat)
  OBVIOUS
<1>3. \A k \in 1..last : \A v \in Seq(Nat) :
        step[k][v] = IF k - 1 \in P THEN Append(v, k - 1) ELSE v
  OBVIOUS
<1> HIDE DEF step
<1>4. PICK b \in [0..last -> Seq(Nat)] : Stepwise(last, << >>, step, b)
  BY <1>0, <1>1, <1>2, RecursionExists
<1>5. \A k \in 0..last :
        (IF k = 0 THEN << >> ELSE step[k][b[k - 1]])
          = IF k = 0 THEN << >>
            ELSE IF k - 1 \in P THEN Append(b[k - 1], k - 1) ELSE b[k - 1]
  <2>1. ASSUME NEW k \in 0..last, k # 0 PROVE k \in 1..last /\ b[k - 1] \in Seq(Nat)
    BY <1>0, <2>1
  <2> QED BY <1>3, <2>1, Zenon
<1>6. [k \in 0..last |-> IF k = 0 THEN << >> ELSE step[k][b[k - 1]]]
        = [k \in 0..last |-> IF k = 0 THEN << >>
            ELSE IF k - 1 \in P THEN Append(b[k - 1], k - 1) ELSE b[k - 1]]
  BY <1>5, Zenon
<1>7. \E c : Sorting(P, c)
  <2>1. Sorting(P, b)
    BY <1>4, <1>6, Zenon DEF Sorting, Stepwise, last
  <2> QED BY <2>1, Zenon
<1> DEFINE c == CHOOSE c : Sorting(P, c)
<1>8. Sorting(P, c) /\ Sorted(P) = c[last]
  <2>1. Sorting(P, c)
    BY <1>7, Zenon
  <2>2. Sorted(P) = c[last]
    BY Zenon DEF Sorted, Sorting, last
  <2> QED BY <2>1, <2>2
<1> HIDE DEF c
<1>9. c \in [0..last -> Seq(Nat)]
  <2> DEFINE N == {k \in Nat : k <= last => c[k] \in Seq(Nat)}
  <2>1. c = [k \in 0..last |-> IF k = 0 THEN << >>
               ELSE IF k - 1 \in P THEN Append(c[k - 1], k - 1) ELSE c[k - 1]]
    BY <1>8, Zenon DEF Sorting, last
  <2>2. \A k \in 0..last : c[k] = IF k = 0 THEN << >>
               ELSE IF k - 1 \in P THEN Append(c[k - 1], k - 1) ELSE c[k - 1]
    BY <2>1, Zenon
  <2>3. 0 \in N
    <3>1. c[0] = << >> /\ << >> \in Seq(Nat)
      BY <1>0, <2>2
    <3> QED BY <3>1
  <2>4. ASSUME NEW k \in Nat, k \in N PROVE k + 1 \in N
    <3>1. SUFFICES ASSUME k + 1 <= last PROVE c[k + 1] \in Seq(Nat)
      OBVIOUS
    <3>2. c[k] \in Seq(Nat) /\ k + 1 \in 0..last /\ k + 1 # 0 /\ (k + 1) - 1 = k
      BY <1>0, <2>4, <3>1
    <3>3. c[k + 1] = IF k \in P THEN Append(c[k], k) ELSE c[k]
      BY <2>2, <3>2
    <3> QED BY <3>2, <3>3
  <2> HIDE DEF N
  <2>5. Nat \subseteq N
    BY <2>3, <2>4, NatSetInduction
  <2>6. \A k \in 0..last : c[k] \in Seq(Nat)
    BY <1>0, <2>5 DEF N
  <2>7. c = [k \in 0..last |-> c[k]]
    BY <2>1
  <2> QED BY <2>6, <2>7
<1> QED BY <1>8, <1>9 DEF last

\* Sorted lists the nodes and leaves among the members.
LEMMA SortedLists ==
  ASSUME NEW P, P \subseteq Nodes
  PROVE  Lists(Sorted(P), P)
<1> DEFINE last == 2 * NumLeaves - 1
<1>0. NumLeaves \in Nat \ {0} /\ last \in Nat
  BY PowerOf2Type, PowerOf2Equation DEF NumLeaves
<1>1. PICK b \in [0..last -> Seq(Nat)] : Sorting(P, b) /\ Sorted(P) = b[last]
  BY SortingExists
<1> HIDE DEF last
<1>2. \A k \in 0..last : b[k] = IF k = 0 THEN << >>
               ELSE IF k - 1 \in P THEN Append(b[k - 1], k - 1) ELSE b[k - 1]
  <2>1. b = [k \in 0..last |-> IF k = 0 THEN << >>
               ELSE IF k - 1 \in P THEN Append(b[k - 1], k - 1) ELSE b[k - 1]]
    BY <1>1, Zenon DEF Sorting, last
  <2> QED BY <2>1, Zenon
<1>10. \A x \in P : x \in Nat /\ x < last
  <2>1. \A x \in Nodes : x \in Nat /\ x < last
    BY <1>0 DEF Nodes, last
  <2> QED BY <2>1, Zenon
<1> DEFINE under(k) == {x \in P : x < k}
           N == {k \in Nat : k <= last => Lists(b[k], under(k))}
<1>3. 0 \in N
  <2>1. under(0) = {}
    BY <1>10
  <2>2. b[0] = << >>
    BY <1>0, <1>2
  <2>3. Lists(b[0], under(0))
    BY <2>1, <2>2, ListsEmpty
  <2> HIDE DEF under
  <2> QED BY <2>3
<1>4. ASSUME NEW k \in Nat, k \in N PROVE k + 1 \in N
  <2>0. k + 1 \in Nat
    OBVIOUS
  <2> HIDE DEF under
  <2>1. SUFFICES ASSUME k + 1 <= last PROVE Lists(b[k + 1], under(k + 1))
    BY <2>0
  <2>2. k + 1 \in 0..last /\ k + 1 # 0 /\ (k + 1) - 1 = k /\ k <= last
    BY <1>0, <2>1
  <2>3. Lists(b[k], under(k))
    BY <1>4, <2>2
  <2>4. b[k + 1] = IF k \in P THEN Append(b[k], k) ELSE b[k]
    BY <1>2, <2>2
  <2>6. CASE k \in P
    <3>1. under(k + 1) = under(k) \union {k}
      <4>1. \A x \in P : x < k + 1 <=> x < k \/ x = k
        BY <1>10
      <4> QED BY <2>6, <4>1 DEF under
    <3>2. \A y \in under(k) : y < k
      BY DEF under
    <3>3. Lists(Append(b[k], k), under(k) \union {k})
      BY <2>3, <3>2, ListsAppend
    <3> QED BY <2>4, <2>6, <3>1, <3>3, Zenon
  <2>7. CASE k \notin P
    <3>1. under(k + 1) = under(k)
      BY <1>10, <2>7 DEF under
    <3> QED BY <2>3, <2>4, <2>7, <3>1, Zenon
  <2> QED BY <2>6, <2>7
<1> HIDE DEF N, under
<1>5. Nat \subseteq N
  BY <1>3, <1>4, NatSetInduction
<1>6. Lists(b[last], under(last))
  BY <1>0, <1>5 DEF N
<1>7. under(last) = P
  BY <1>10 DEF under
<1> QED BY <1>1, <1>6, <1>7, Zenon

\* The recursion of WithoutAdjacentCopies.
Dropping(e, f) ==
  f = [i \in 0..Len(e) |->
         IF i = 0 THEN << >>
         ELSE IF i > 1 /\ e[i] = e[i - 1] THEN f[i - 1]
         ELSE Append(f[i - 1], e[i])]

\* There is such a recursion, and its last value is WithoutAdjacentCopies.
LEMMA DroppingExists ==
  ASSUME NEW A, NEW e \in Seq(A)
  PROVE  \E f : Dropping(e, f) /\ WithoutAdjacentCopies(e) = f[Len(e)]
<1> DEFINE last == Len(e)
           step == [i \in 1..last |-> [v \in Seq(A) |->
                      IF i > 1 /\ e[i] = e[i - 1] THEN v ELSE Append(v, e[i])]]
<1>0. last \in Nat /\ \A i \in 1..last : e[i] \in A
  OBVIOUS
<1>1. step \in [1..last -> [Seq(A) -> Seq(A)]]
  <2>1. ASSUME NEW i \in 1..last, NEW v \in Seq(A)
        PROVE  (IF i > 1 /\ e[i] = e[i - 1] THEN v ELSE Append(v, e[i])) \in Seq(A)
    <3>1. Append(v, e[i]) \in Seq(A)
      BY <1>0
    <3> QED BY <3>1
  <2> HIDE DEF last
  <2> QED BY <2>1
<1>2. << >> \in Seq(A)
  OBVIOUS
<1> HIDE DEF last
<1>3. \A i \in 1..last : \A v \in Seq(A) :
        step[i][v] = IF i > 1 /\ e[i] = e[i - 1] THEN v ELSE Append(v, e[i])
  OBVIOUS
<1> HIDE DEF step
<1>4. PICK f \in [0..last -> Seq(A)] : Stepwise(last, << >>, step, f)
  BY <1>0, <1>1, <1>2, RecursionExists
<1>5. \A i \in 0..last :
        (IF i = 0 THEN << >> ELSE step[i][f[i - 1]])
          = IF i = 0 THEN << >>
            ELSE IF i > 1 /\ e[i] = e[i - 1] THEN f[i - 1] ELSE Append(f[i - 1], e[i])
  <2>1. ASSUME NEW i \in 0..last, i # 0 PROVE i \in 1..last /\ f[i - 1] \in Seq(A)
    <3>1. i \in 1..last /\ i - 1 \in 0..last
      BY <1>0, <2>1
    <3> QED BY <3>1
  <2> QED BY <1>3, <2>1, Zenon
<1>6. [i \in 0..last |-> IF i = 0 THEN << >> ELSE step[i][f[i - 1]]]
        = [i \in 0..last |-> IF i = 0 THEN << >>
            ELSE IF i > 1 /\ e[i] = e[i - 1] THEN f[i - 1] ELSE Append(f[i - 1], e[i])]
  BY <1>5, Zenon
<1>7. \E g : Dropping(e, g)
  <2>1. Dropping(e, f)
    BY <1>4, <1>6, Zenon DEF Dropping, Stepwise, last
  <2> QED BY <2>1, Zenon
<1> DEFINE g == CHOOSE g : Dropping(e, g)
<1>8. Dropping(e, g)
  BY <1>7, Zenon
<1>9. WithoutAdjacentCopies(e) = g[Len(e)]
  BY Zenon DEF WithoutAdjacentCopies, Dropping
<1> QED BY <1>8, <1>9, Zenon

\* Neighbours in w are neighbours in e that differ.
KeepsNeighbours(w, e) ==
  \A i \in 1..Len(w), j \in 1..Len(w) : j = i + 1 =>
    \E k \in 2..Len(e) : w[i] = e[k - 1] /\ w[j] = e[k] /\ e[k] # e[k - 1]

\* What is left when copies are dropped: the same entries, next to other neighbours of theirs.
LEMMA CopiesDropped ==
  ASSUME NEW A, NEW e \in Seq(A), NEW w, w = WithoutAdjacentCopies(e)
  PROVE  /\ w \in Seq(A)
         /\ ToSet(w) = ToSet(e)
         /\ KeepsNeighbours(w, e)
<1>0. Len(e) \in Nat /\ DOMAIN e = 1..Len(e) /\ \A i \in 1..Len(e) : e[i] \in A
  OBVIOUS
<1>1. PICK f : Dropping(e, f) /\ WithoutAdjacentCopies(e) = f[Len(e)]
  BY DroppingExists
<1>2. \A i \in 0..Len(e) :
        f[i] = IF i = 0 THEN << >>
               ELSE IF i > 1 /\ e[i] = e[i - 1] THEN f[i - 1]
               ELSE Append(f[i - 1], e[i])
  <2>1. f = [i \in 0..Len(e) |->
         IF i = 0 THEN << >>
         ELSE IF i > 1 /\ e[i] = e[i - 1] THEN f[i - 1]
         ELSE Append(f[i - 1], e[i])]
    BY <1>1, Zenon DEF Dropping
  <2> QED BY <2>1, Zenon
<1> DEFINE front(m) == {e[i] : i \in 1..m}
           next(a, b, m) == \E k \in 2..m : a = e[k - 1] /\ b = e[k] /\ e[k] # e[k - 1]
           chained(v, m) == \A i \in 1..Len(v), j \in 1..Len(v) : j = i + 1 => next(v[i], v[j], m)
           ends(v, m) == m > 0 => Len(v) > 0 /\ v[Len(v)] = e[m]
           good(v, m) == v \in Seq(A) /\ ToSet(v) = front(m) /\ chained(v, m) /\ ends(v, m)
           N == {m \in Nat : m <= Len(e) => good(f[m], m)}
<1>3. 0 \in N
  <2>1. f[0] = << >>
    BY <1>0, <1>2
  <2>2. << >> \in Seq(A) /\ ToSet(<< >>) = front(0)
    BY DEF ToSet
  <2>3. chained(<< >>, 0)
    <3>1. 1..Len(<< >>) = {}
      OBVIOUS
    <3> HIDE DEF next
    <3> QED BY <3>1
  <2>4. ends(<< >>, 0)
    OBVIOUS
  <2> HIDE DEF chained, ends, front
  <2> QED BY <2>1, <2>2, <2>3, <2>4
<1>4. ASSUME NEW m \in Nat, m \in N PROVE m + 1 \in N
  <2>0. m + 1 \in Nat
    OBVIOUS
  <2> HIDE DEF good
  <2>1. SUFFICES ASSUME m + 1 <= Len(e) PROVE good(f[m + 1], m + 1)
    BY <2>0
  <2>2. m + 1 \in 0..Len(e) /\ m + 1 # 0 /\ (m + 1) - 1 = m /\ m <= Len(e) /\ m + 1 \in 1..Len(e)
    BY <1>0, <2>1
  <2> DEFINE v == f[m]
  <2>3. good(v, m)
    BY <1>4, <2>2
  <2> HIDE DEF v
  <2>4. f[m + 1] = IF m + 1 > 1 /\ e[m + 1] = e[m] THEN v ELSE Append(v, e[m + 1])
    BY <1>2, <2>2 DEF v
  <2> USE DEF good
  <2> HIDE DEF front, chained, ends
  <2>5. v \in Seq(A) /\ Len(v) \in Nat /\ DOMAIN v = 1..Len(v)
    BY <2>3
  <2>6. ASSUME NEW a, NEW b, next(a, b, m) PROVE next(a, b, m + 1)
    <3>1. PICK k \in 2..m : a = e[k - 1] /\ b = e[k] /\ e[k] # e[k - 1]
      BY <2>6
    <3>2. k \in 2..(m + 1)
      OBVIOUS
    <3> QED BY <3>1, <3>2
  <2> HIDE DEF next
  <2>7. chained(v, m + 1)
    BY <2>3, <2>6, Zenon DEF chained
  <2>8. front(m + 1) = front(m) \union {e[m + 1]}
    BY DEF front
  <2>9. CASE m + 1 > 1 /\ e[m + 1] = e[m]
    <3>1. m > 0 /\ e[m] \in front(m)
      BY <2>9 DEF front
    <3>2. front(m + 1) = front(m)
      BY <2>8, <2>9, <3>1
    <3>3. ends(v, m + 1)
      BY <2>3, <2>9, <3>1 DEF ends
    <3>4. f[m + 1] = v
      BY <2>4, <2>9
    <3>5. good(v, m + 1)
      BY <2>3, <2>7, <3>2, <3>3
    <3> QED BY <3>4, <3>5, Zenon
  <2>10. CASE ~(m + 1 > 1 /\ e[m + 1] = e[m])
    <3> DEFINE x == e[m + 1]
               w1 == Append(v, x)
    <3>1. f[m + 1] = w1
      BY <2>4, <2>10
    <3>2. x \in A
      BY <1>0, <2>2
    <3> HIDE DEF x
    <3>3. /\ w1 \in Seq(A) /\ Len(w1) = Len(v) + 1
          /\ DOMAIN w1 = 1..(Len(v) + 1)
          /\ \A i \in 1..Len(v) : w1[i] = v[i]
          /\ w1[Len(v) + 1] = x
      BY <2>5, <3>2, AppendType
    <3> HIDE DEF w1
    <3>4. ToSet(w1) = front(m + 1)
      <4>1. ToSet(w1) = {w1[i] : i \in 1..(Len(v) + 1)} /\ ToSet(v) = {v[i] : i \in 1..Len(v)}
        BY <2>5, <3>3 DEF ToSet
      <4>2. {w1[i] : i \in 1..(Len(v) + 1)} = {v[i] : i \in 1..Len(v)} \union {x}
        <5>1. ASSUME NEW i \in 1..(Len(v) + 1)
              PROVE  w1[i] \in {v[k] : k \in 1..Len(v)} \union {x}
          <6>1. CASE i \in 1..Len(v)
            BY <3>3, <6>1
          <6>2. CASE i = Len(v) + 1
            BY <3>3, <6>2
          <6> QED BY <2>5, <6>1, <6>2
        <5>2. ASSUME NEW k \in 1..Len(v)
              PROVE  v[k] \in {w1[i] : i \in 1..(Len(v) + 1)}
          <6>1. k \in 1..(Len(v) + 1) /\ w1[k] = v[k]
            BY <2>5, <3>3
          <6> QED BY <6>1
        <5>3. x \in {w1[i] : i \in 1..(Len(v) + 1)}
          <6>1. Len(v) + 1 \in 1..(Len(v) + 1)
            BY <2>5
          <6> QED BY <3>3, <6>1
        <5> QED BY <5>1, <5>2, <5>3
      <4> QED BY <2>3, <2>8, <4>1, <4>2 DEF x
    <3>5. chained(w1, m + 1)
      <4>1. ASSUME NEW i \in 1..Len(w1), NEW j \in 1..Len(w1), j = i + 1
            PROVE  next(w1[i], w1[j], m + 1)
        <5>1. i \in 1..Len(v) /\ w1[i] = v[i]
          BY <2>5, <3>3, <4>1
        <5>2. CASE j \in 1..Len(v)
          <6>1. next(v[i], v[j], m + 1) /\ w1[j] = v[j]
            BY <2>7, <3>3, <4>1, <5>1, <5>2 DEF chained
          <6> QED BY <5>1, <6>1
        <5>3. CASE j = Len(v) + 1
          <6>1. i = Len(v) /\ w1[j] = x
            <7>1. i = Len(v)
              <8>1. i + 1 = Len(v) + 1
                BY <4>1, <5>3, Zenon
              <8>2. i \in Int /\ Len(v) \in Int
                BY <2>5, <5>1
              <8> QED BY <8>1, <8>2
            <7>2. w1[j] = x
              BY <3>3, <5>3, Zenon
            <7> QED BY <7>1, <7>2
          <6>2. CASE m = 0
            <7>1. ToSet(v) = {} /\ v[i] \in ToSet(v)
              <8>1. front(m) = {}
                BY <6>2 DEF front
              <8>2. v[i] \in ToSet(v)
                BY <2>5, <5>1, Zenon DEF ToSet
              <8> QED BY <2>3, <8>1, <8>2
            <7> QED BY <7>1
          <6>3. CASE m > 0
            <7>1. v[i] = e[m]
              BY <2>3, <6>1, <6>3 DEF ends
            <7>2. m + 1 \in 2..(m + 1) /\ x # e[m] /\ x = e[m + 1]
              BY <2>10, <6>3 DEF x
            <7>3. next(e[m], x, m + 1)
              BY <2>2, <7>2 DEF next
            <7> QED BY <5>1, <6>1, <7>1, <7>3, Zenon
          <6> QED BY <6>2, <6>3
        <5> QED BY <2>5, <3>3, <5>2, <5>3
      <4> QED BY <4>1 DEF chained
    <3>6. ends(w1, m + 1)
      BY <2>5, <3>3 DEF ends, x
    <3>7. good(w1, m + 1)
      BY <3>3, <3>4, <3>5, <3>6
    <3> QED BY <3>1, <3>7, Zenon
  <2> QED BY <2>9, <2>10
<1> HIDE DEF N
<1>5. Nat \subseteq N
  BY <1>3, <1>4, NatSetInduction
<1> HIDE DEF good
<1>6. good(w, Len(e))
  <2>1. good(f[Len(e)], Len(e))
    BY <1>0, <1>5 DEF N
  <2> QED BY <1>1, <2>1, Zenon
<1> HIDE DEF chained, front, ends
<1>7. w \in Seq(A) /\ ToSet(w) = front(Len(e)) /\ chained(w, Len(e))
  BY <1>6, Zenon DEF good
<1>8. front(Len(e)) = ToSet(e)
  BY <1>0, Zenon DEF front, ToSet
<1>9. KeepsNeighbours(w, e)
  BY <1>7, Zenon DEF chained, next, KeepsNeighbours
<1> QED BY <1>7, <1>8, <1>9, Zenon

-----------------------------------------------------------------------------
(***************************************************************************)
(* The paths from the opened leaves to the root.                           *)
(***************************************************************************)
\* The recursion of Climb.
Climbing(i, up) ==
  up = [k \in 0..Depth |-> IF k = 0 THEN NodeOf(i) ELSE Parent(up[k - 1])]

\* A path goes from its leaf through every layer.
LEMMA ClimbFacts ==
  ASSUME NEW i \in Leaves
  PROVE  /\ Climb(i)[0] = NodeOf(i)
         /\ \A k \in 1..Depth : Climb(i)[k] = Parent(Climb(i)[k - 1])
         /\ \A k \in 0..Depth : Climb(i)[k] \in LayerNodes(Depth - k)
<1>0. Depth \in Nat \ {0} /\ NumLeaves \in Nat \ {0} /\ NodeOf(i) \in Int
  BY PowerOf2Type, PowerOf2Equation DEF NumLeaves, NodeOf, Leaves
<1> DEFINE step == [k \in 1..Depth |-> [v \in Int |-> Parent(v)]]
<1>1. step \in [1..Depth -> [Int -> Int]]
  <2>1. \A v \in Int : Parent(v) \in Int
    BY DEF Parent
  <2> QED BY <2>1
<1>2. \A k \in 1..Depth : \A v \in Int : step[k][v] = Parent(v)
  OBVIOUS
<1> HIDE DEF step
<1>3. PICK f \in [0..Depth -> Int] : Stepwise(Depth, NodeOf(i), step, f)
  BY <1>0, <1>1, RecursionExists
<1>4. \A k \in 0..Depth :
        (IF k = 0 THEN NodeOf(i) ELSE step[k][f[k - 1]])
          = IF k = 0 THEN NodeOf(i) ELSE Parent(f[k - 1])
  <2>1. ASSUME NEW k \in 0..Depth, k # 0 PROVE k \in 1..Depth /\ f[k - 1] \in Int
    <3>1. k \in 1..Depth /\ k - 1 \in 0..Depth
      BY <1>0, <2>1
    <3> QED BY <3>1
  <2> QED BY <1>2, <2>1, Zenon
<1>5. [k \in 0..Depth |-> IF k = 0 THEN NodeOf(i) ELSE step[k][f[k - 1]]]
        = [k \in 0..Depth |-> IF k = 0 THEN NodeOf(i) ELSE Parent(f[k - 1])]
  BY <1>4, Zenon
<1>6. \E up : Climbing(i, up)
  <2>1. Climbing(i, f)
    BY <1>3, <1>5, Zenon DEF Climbing, Stepwise
  <2> QED BY <2>1, Zenon
<1>7. Climbing(i, Climb(i))
  BY <1>6, Zenon DEF Climb, Climbing
<1> DEFINE c == Climb(i)
<1>8. \A k \in 0..Depth : c[k] = IF k = 0 THEN NodeOf(i) ELSE Parent(c[k - 1])
  <2> HIDE DEF c
  <2>1. c = [k \in 0..Depth |-> IF k = 0 THEN NodeOf(i) ELSE Parent(c[k - 1])]
    BY <1>7, Zenon DEF Climbing, c
  <2> QED BY <2>1, Zenon
<1> HIDE DEF c
<1>9. c[0] = NodeOf(i) /\ \A k \in 1..Depth : c[k] = Parent(c[k - 1])
  BY <1>0, <1>8
<1> DEFINE N == {k \in Nat : k <= Depth => c[k] \in LayerNodes(Depth - k)}
<1>10. 0 \in N
  <2>1. NodeOf(i) \in LayerNodes(Depth)
    BY <1>0 DEF LayerNodes, NodeOf, Leaves, NumLeaves
  <2>2. Depth - 0 = Depth
    BY <1>0
  <2> QED BY <1>9, <2>1, <2>2
<1>11. ASSUME NEW k \in Nat, k \in N PROVE k + 1 \in N
  <2>1. SUFFICES ASSUME k + 1 <= Depth PROVE c[k + 1] \in LayerNodes(Depth - (k + 1))
    OBVIOUS
  <2>2. c[k] \in LayerNodes(Depth - k)
    BY <1>0, <1>11, <2>1
  <2>3. /\ Depth - k \in 1..Depth /\ (Depth - k) - 1 = Depth - (k + 1)
        /\ k + 1 \in 1..Depth /\ (k + 1) - 1 = k
    BY <1>0, <2>1
  <2>4. c[k + 1] = Parent(c[k])
    BY <1>9, <2>3
  <2>5. Parent(c[k]) \in LayerNodes((Depth - k) - 1)
    BY <2>2, <2>3, LayerFacts
  <2> QED BY <2>3, <2>4, <2>5, Zenon
<1> HIDE DEF N
<1>12. Nat \subseteq N
  BY <1>10, <1>11, NatSetInduction
<1>13. \A k \in 0..Depth : c[k] \in LayerNodes(Depth - k)
  BY <1>0, <1>12 DEF N
<1> QED BY <1>9, <1>13 DEF c

\* No node is in two layers.
LEMMA LayersApart ==
  ASSUME NEW d \in 0..Depth, NEW e \in 0..Depth, NEW j \in LayerNodes(d), j \in LayerNodes(e)
  PROVE  d = e
<1>0. Depth \in Nat
  BY PowerOf2Equation
<1> DEFINE N == {m \in Nat : m <= Depth => \A k \in 0..(m - 1) : 2 * PowerOf2[k] <= PowerOf2[m]}
<1>1. 0 \in N
  OBVIOUS
<1>2. ASSUME NEW m \in Nat, m \in N PROVE m + 1 \in N
  <2>1. SUFFICES ASSUME m + 1 <= Depth, NEW k \in 0..((m + 1) - 1)
                 PROVE  2 * PowerOf2[k] <= PowerOf2[m + 1]
    OBVIOUS
  <2>2. /\ m + 1 \in 1..Depth /\ (m + 1) - 1 = m /\ m \in 0..Depth /\ k \in 0..Depth
        /\ m <= Depth /\ k \in 0..m
    BY <1>0, <2>1
  <2>3. PowerOf2[m + 1] = 2 * PowerOf2[m]
    BY <2>2, PowerOf2Equation
  <2>4. PowerOf2[m] \in Nat /\ PowerOf2[k] \in Nat
    BY <2>2, PowerOf2Type
  <2>5. CASE k = m
    BY <2>3, <2>4, <2>5
  <2>6. CASE k # m
    <3>1. 2 * PowerOf2[k] <= PowerOf2[m]
      BY <1>2, <2>2, <2>6
    <3> QED BY <2>3, <2>4, <3>1
  <2> QED BY <2>5, <2>6
<1> HIDE DEF N
<1>3. Nat \subseteq N
  BY <1>1, <1>2, NatSetInduction
<1>4. ASSUME NEW a \in 0..Depth, NEW b \in 0..Depth, a < b,
             NEW x, x \in LayerNodes(a), x \in LayerNodes(b)
      PROVE  FALSE
  <2>1. b \in N /\ a \in 0..(b - 1) /\ b <= Depth
    BY <1>0, <1>3, <1>4
  <2>2. 2 * PowerOf2[a] <= PowerOf2[b]
    BY <2>1 DEF N
  <2>3. PowerOf2[a] \in Nat /\ PowerOf2[b] \in Nat
    BY PowerOf2Type
  <2> QED BY <1>4, <2>2, <2>3 DEF LayerNodes
<1>5. ~(d < e) /\ ~(e < d)
  BY <1>4
<1> QED BY <1>0, <1>5

\* The nodes of layer d on the paths from the leaves L.
Path(L, d) == {Climb(i)[Depth - d] : i \in L}

\* The paths, layer by layer.
LEMMA PathFacts ==
  ASSUME NEW L, L \subseteq Leaves
  PROVE  /\ Path(L, Depth) = {NodeOf(i) : i \in L}
         /\ \A d \in 0..Depth : \A j \in Path(L, d) : j \in LayerNodes(d) /\ j \in Nat
         /\ \A d \in 1..Depth : Path(L, d - 1) = {Parent(j) : j \in Path(L, d)}
         /\ L # {} => \A d \in 0..Depth : Path(L, d) # {}
<1>0. Depth \in Nat /\ Depth - Depth = 0 /\ \A i \in L : i \in Leaves
  BY PowerOf2Equation
<1>1. Path(L, Depth) = {NodeOf(i) : i \in L}
  <2>1. \A i \in L : Climb(i)[Depth - Depth] = NodeOf(i)
    BY <1>0, ClimbFacts
  <2> QED BY <2>1, Zenon DEF Path
<1>2. ASSUME NEW d \in 0..Depth, NEW j \in Path(L, d) PROVE j \in LayerNodes(d) /\ j \in Nat
  <2>1. PICK i \in L : j = Climb(i)[Depth - d]
    BY DEF Path
  <2>2. Depth - d \in 0..Depth /\ Depth - (Depth - d) = d
    BY <1>0
  <2>3. j \in LayerNodes(d)
    BY <1>0, <2>1, <2>2, ClimbFacts
  <2> QED BY <2>3, LayerFacts
<1>3. ASSUME NEW d \in 1..Depth PROVE Path(L, d - 1) = {Parent(j) : j \in Path(L, d)}
  <2>1. Depth - (d - 1) \in 1..Depth /\ (Depth - (d - 1)) - 1 = Depth - d
    BY <1>0
  <2>2. \A i \in L : Climb(i)[Depth - (d - 1)] = Parent(Climb(i)[Depth - d])
    BY <1>0, <2>1, ClimbFacts
  <2> QED BY <2>2, Zenon DEF Path
<1>4. L # {} => \A d \in 0..Depth : Path(L, d) # {}
  BY DEF Path
<1> QED BY <1>1, <1>2, <1>3, <1>4

\* The nodes on the paths, in their layers.
LEMMA PathNodesByLayer ==
  ASSUME NEW L, L = ToSet(positions), L \subseteq Leaves, NEW d \in 0..Depth, NEW j \in LayerNodes(d)
  PROVE  j \in PathNodes <=> j \in Path(L, d)
<1>0. Depth \in Nat /\ (\A i \in L : i \in Leaves) /\ L = {positions[m] : m \in DOMAIN positions}
  BY PowerOf2Equation DEF ToSet
<1>1. ASSUME j \in Path(L, d) PROVE j \in PathNodes
  <2>1. PICK i \in L : j = Climb(i)[Depth - d]
    BY <1>1 DEF Path
  <2>2. PICK m \in DOMAIN positions : i = positions[m]
    BY <1>0
  <2>3. Depth - d \in 0..Depth
    BY <1>0
  <2> QED BY <2>1, <2>2, <2>3 DEF PathNodes
<1>2. ASSUME j \in PathNodes PROVE j \in Path(L, d)
  <2>1. PICK m \in DOMAIN positions, k \in 0..Depth : j = Climb(positions[m])[k]
    BY <1>2 DEF PathNodes
  <2>2. positions[m] \in L /\ positions[m] \in Leaves
    BY <1>0
  <2>3. j \in LayerNodes(Depth - k) /\ Depth - k \in 0..Depth
    BY <1>0, <2>1, <2>2, ClimbFacts
  <2>4. d = Depth - k
    BY <2>3, LayersApart
  <2>5. k = Depth - d
    BY <1>0, <2>4
  <2> QED BY <2>1, <2>2, <2>5 DEF Path
<1> QED BY <1>1, <1>2

\* The siblings of the nodes of layer d on the paths that are on no path.
Needed(L, d) == {Sibling(j) : j \in Path(L, d)} \ Path(L, d)

\* The children of the nodes on paths that are on no path, by layer.
LEMMA NeededByLayer ==
  ASSUME NEW L, L = ToSet(positions), L \subseteq Leaves, NEW d \in 1..Depth
  PROVE  {j \in Nodes \ ({0} \union PathNodes) : Parent(j) \in PathNodes} \intersect LayerNodes(d)
           = Needed(L, d)
<1>0. Depth \in Nat /\ d \in 0..Depth /\ d - 1 \in 0..Depth
  BY PowerOf2Equation
<1>1. ASSUME NEW j \in LayerNodes(d), j \notin PathNodes, Parent(j) \in PathNodes
      PROVE  j \in Needed(L, d)
  <2>1. /\ j \in Nat \ {0} /\ Parent(j) \in LayerNodes(d - 1)
    BY <1>0, LayerFacts
  <2>2. Parent(j) \in Path(L, d - 1)
    BY <1>0, <1>1, <2>1, PathNodesByLayer
  <2>3. PICK x \in Path(L, d) : Parent(j) = Parent(x)
    BY <2>2, PathFacts
  <2>4. x \in LayerNodes(d) /\ x \in Nat \ {0}
    BY <1>0, PathFacts, LayerFacts
  <2>5. j \notin Path(L, d)
    BY <1>0, <1>1, PathNodesByLayer
  <2>6. j = Sibling(x)
    <3>1. j # x
      BY <2>5
    <3> QED BY <2>1, <2>3, <2>4, <3>1 DEF Parent, Sibling, IsRight
  <2> QED BY <2>5, <2>6 DEF Needed
<1>2. ASSUME NEW j \in Needed(L, d)
      PROVE  /\ j \in LayerNodes(d) /\ j \in Nodes /\ j # 0
             /\ j \notin PathNodes /\ Parent(j) \in PathNodes
  <2>1. PICK x \in Path(L, d) : j = Sibling(x) /\ j \notin Path(L, d)
    BY DEF Needed
  <2>2. x \in LayerNodes(d) /\ x \in Nat \ {0}
    BY <1>0, PathFacts, LayerFacts
  <2>3. j \in LayerNodes(d) /\ j \in Nat \ {0} /\ j \in Nodes
    BY <1>0, <2>1, <2>2, LayerFacts
  <2>4. j \notin PathNodes
    BY <1>0, <2>1, <2>3, PathNodesByLayer
  <2>5. Parent(j) = Parent(x)
    BY <2>1, <2>2 DEF Parent, Sibling, IsRight
  <2>6. Parent(x) \in Path(L, d - 1)
    BY PathFacts
  <2>7. Parent(x) \in LayerNodes(d - 1)
    BY <2>2, LayerFacts
  <2>8. Parent(x) \in PathNodes
    BY <1>0, <2>6, <2>7, PathNodesByLayer
  <2> QED BY <2>3, <2>4, <2>5, <2>8
<1> QED BY <1>1, <1>2

\* What is needed is in the layer.
LEMMA NeededType ==
  ASSUME NEW L, L \subseteq Leaves, NEW d \in 1..Depth
  PROVE  Needed(L, d) \subseteq Nodes
<1>1. d \in 0..Depth
  BY PowerOf2Equation
<1>2. ASSUME NEW x \in Path(L, d) PROVE Sibling(x) \in Nodes
  <2>1. x \in LayerNodes(d)
    BY <1>1, PathFacts
  <2> QED BY <1>1, <2>1, LayerFacts
<1> QED BY <1>2 DEF Needed

\* What is needed from the leaves up to layer d, which is left out.
Upwards(L, d) ==
  FlattenSeq([k \in 1..(Depth - d) |-> Sorted(Needed(L, Depth + 1 - k))])

\* What is needed grows by a list from layer to layer.
LEMMA UpwardsFacts ==
  ASSUME NEW L, L \subseteq Leaves
  PROVE  /\ Upwards(L, Depth) = << >>
         /\ \A d \in 0..Depth : Upwards(L, d) \in Seq(Nat)
         /\ \A d \in 1..Depth :
              /\ Sorted(Needed(L, d)) \in Seq(Nat)
              /\ Upwards(L, d - 1) = Upwards(L, d) \o Sorted(Needed(L, d))
<1>0. Depth \in Nat
  BY PowerOf2Equation
<1> DEFINE list(k) == Sorted(Needed(L, Depth + 1 - k))
           lists(m) == [k \in 1..m |-> list(k)]
<1>1. ASSUME NEW d \in 1..Depth PROVE Sorted(Needed(L, d)) \in Seq(Nat)
  <2>1. Lists(Sorted(Needed(L, d)), Needed(L, d))
    BY NeededType, SortedLists
  <2> QED BY <2>1, ListsType
<1>2. \A k \in 1..Depth : list(k) \in Seq(Nat)
  <2>1. \A k \in 1..Depth : Depth + 1 - k \in 1..Depth
    BY <1>0
  <2> QED BY <1>1, <2>1
<1> HIDE DEF list
<1>3. ASSUME NEW m \in 0..Depth PROVE lists(m) \in Seq(Seq(Nat))
  <2>1. \A k \in 1..m : list(k) \in Seq(Nat)
    BY <1>0, <1>2
  <2> QED BY <2>1
<1>4. \A d \in 0..Depth : Upwards(L, d) = FlattenSeq(lists(Depth - d))
  BY Zenon DEF Upwards, list
<1>5. Upwards(L, Depth) = << >>
  <2>1. lists(Depth - Depth) = << >> /\ Depth \in 0..Depth
    BY <1>0
  <2> HIDE DEF lists
  <2> QED BY <1>4, <2>1, FlattenEmpty, Zenon
<1>6. \A d \in 0..Depth : Upwards(L, d) \in Seq(Nat)
  <2>1. ASSUME NEW d \in 0..Depth PROVE FlattenSeq(lists(Depth - d)) \in Seq(Nat)
    <3>1. Depth - d \in 0..Depth
      BY <1>0
    <3>2. lists(Depth - d) \in Seq(Seq(Nat))
      BY <1>3, <3>1
    <3> HIDE DEF lists
    <3> QED BY <3>2, FlattenType
  <2> HIDE DEF lists
  <2> QED BY <1>4, <2>1, Zenon
<1>7. ASSUME NEW d \in 1..Depth
      PROVE  Upwards(L, d - 1) = Upwards(L, d) \o Sorted(Needed(L, d))
  <2> DEFINE m == Depth - d
  <2>1. /\ m \in 0..Depth /\ m + 1 \in 1..Depth /\ Depth - (d - 1) = m + 1
        /\ Depth + 1 - (m + 1) = d /\ d - 1 \in 0..Depth /\ d \in 0..Depth
    BY <1>0
  <2>2. list(m + 1) = Sorted(Needed(L, d))
    BY <2>1, Zenon DEF list
  <2>3. lists(m) \in Seq(Seq(Nat)) /\ list(m + 1) \in Seq(Nat)
    BY <1>2, <1>3, <2>1
  <2> HIDE DEF m
  <2>4. lists(m + 1) = Append(lists(m), list(m + 1))
    BY <2>1
  <2> HIDE DEF lists
  <2>5. FlattenSeq(lists(m + 1)) = FlattenSeq(lists(m)) \o list(m + 1)
    BY <2>3, <2>4, FlattenAppend
  <2>6. Upwards(L, d - 1) = FlattenSeq(lists(m + 1)) /\ Upwards(L, d) = FlattenSeq(lists(m))
    BY <1>4, <2>1, Zenon DEF m
  <2> QED BY <2>2, <2>5, <2>6, Zenon
<1> QED BY <1>1, <1>5, <1>6, <1>7

\* What is needed up to layer d comes first.
LEMMA UpwardsIsFirstPart ==
  ASSUME NEW L, L \subseteq Leaves, NEW d \in 0..Depth
  PROVE  \E rest \in Seq(Nat) : Upwards(L, 0) = Upwards(L, d) \o rest
<1>0. Depth \in Nat /\ \A k \in 0..Depth : Upwards(L, k) \in Seq(Nat)
  BY PowerOf2Equation, UpwardsFacts
<1> DEFINE follows(k) == \E rest \in Seq(Nat) : Upwards(L, 0) = Upwards(L, k) \o rest
           N == {k \in Nat : k <= Depth => follows(k)}
<1>1. 0 \in N
  <2>1. Upwards(L, 0) = Upwards(L, 0) \o << >> /\ << >> \in Seq(Nat)
    BY <1>0, ConcatEmpty
  <2> QED BY <2>1
<1>2. ASSUME NEW k \in Nat, k \in N PROVE k + 1 \in N
  <2>0. k + 1 \in Nat
    OBVIOUS
  <2> HIDE DEF follows
  <2>1. SUFFICES ASSUME k + 1 <= Depth PROVE follows(k + 1)
    BY <2>0
  <2>2. k + 1 \in 1..Depth /\ (k + 1) - 1 = k /\ k <= Depth /\ k + 1 \in 0..Depth
    BY <1>0, <2>1
  <2>3. PICK rest \in Seq(Nat) : Upwards(L, 0) = Upwards(L, k) \o rest
    BY <1>2, <2>2 DEF follows
  <2> DEFINE u == Upwards(L, k + 1)
             v == Sorted(Needed(L, k + 1))
  <2>4. Upwards(L, k) = u \o v /\ v \in Seq(Nat) /\ u \in Seq(Nat)
    BY <1>0, <2>2, UpwardsFacts
  <2> HIDE DEF u, v
  <2>5. (u \o v) \o rest = u \o (v \o rest) /\ v \o rest \in Seq(Nat)
    <3>1. (u \o v) \o rest = u \o (v \o rest)
      BY <2>4, ConcatAssociative, SMTT(25)
    <3>2. v \o rest \in Seq(Nat)
      BY <2>4
    <3> QED BY <3>1, <3>2
  <2>6. Upwards(L, 0) = u \o (v \o rest)
    BY <2>3, <2>4, <2>5, Zenon
  <2> QED BY <2>5, <2>6, Zenon DEF follows, u
<1> HIDE DEF N
<1>3. Nat \subseteq N
  BY <1>1, <1>2, NatSetInduction
<1> HIDE DEF follows
<1>4. follows(d)
  BY <1>0, <1>3 DEF N
<1> QED BY <1>4 DEF follows

\* For no leaves nothing is needed.
LEMMA NothingNeeded ==
  \A L : L = {} => Upwards(L, 0) = << >>
<1> SUFFICES ASSUME NEW L, L = {} PROVE Upwards(L, 0) = << >>
  OBVIOUS
<1>1. \A d : Needed(L, d) = {}
  BY DEF Needed, Path
<1>2. Sorted({}) = << >>
  BY SortedLists, ListsEmpty
<1>3. \A k \in 1..(Depth - 0) : Sorted(Needed(L, Depth + 1 - k)) = << >>
  BY <1>1, <1>2, Zenon
<1>4. [k \in 1..(Depth - 0) |-> Sorted(Needed(L, Depth + 1 - k))] = [k \in 1..(Depth - 0) |-> << >>]
  BY <1>3, Zenon
<1>5. Depth - 0 \in Nat
  BY PowerOf2Equation
<1>6. FlattenSeq([k \in 1..(Depth - 0) |-> << >>]) = << >>
  BY <1>5, FlattenEmpties
<1> QED BY <1>4, <1>6, Zenon DEF Upwards

-----------------------------------------------------------------------------
(***************************************************************************)
(* One layer of the loops.                                                 *)
(***************************************************************************)
\* The nodes of layer d are s, those before index i are done: up are their parents and t
\* the hashes they needed, as nodes.
LoopAt(L, d, s, up, i, t) ==
  /\ d \in 0..Depth
  /\ Lists(s, Path(L, d))
  /\ i \in 1..(Len(s) + 1)
  /\ Lists(up, {Parent(s[k]) : k \in 1..(i - 1)})
  /\ Lists(t, {Sibling(s[k]) : k \in 1..(i - 1)} \ Path(L, d))
  /\ 1 < i /\ i <= Len(s) => Parent(s[i - 1]) < Parent(s[i])
  /\ d = 0 => i = 1

\* A layer is begun with nothing known.
LEMMA LoopBegins ==
  ASSUME NEW L, NEW d \in 0..Depth, NEW s, Lists(s, Path(L, d))
  PROVE  LoopAt(L, d, s, << >>, 1, << >>)
<1>1. Len(s) \in Nat
  BY ListsType
<1>2. {Parent(s[k]) : k \in 1..(1 - 1)} = {} /\ {Sibling(s[k]) : k \in 1..(1 - 1)} \ Path(L, d) = {}
  OBVIOUS
<1>3. Lists(<< >>, {Parent(s[k]) : k \in 1..(1 - 1)})
  BY <1>2, ListsEmpty, Zenon
<1>4. Lists(<< >>, {Sibling(s[k]) : k \in 1..(1 - 1)} \ Path(L, d))
  BY <1>2, ListsEmpty, Zenon
<1>5. 1 \in 1..(Len(s) + 1) /\ ~(1 < 1)
  BY <1>1
<1> QED BY <1>3, <1>4, <1>5 DEF LoopAt

\* Parents in order, and what that says of their children.
LEMMA ParentOrder ==
  \A a, b \in Nat \ {0} :
    /\ Parent(a) < Parent(b) => a < b /\ Sibling(a) < Sibling(b) /\ Sibling(a) # b /\ Sibling(b) # a
    /\ Parent(a) \in Nat /\ Sibling(a) \in Nat /\ Parent(Sibling(a)) = Parent(a)
    /\ a < b /\ Parent(a) = Parent(b) => ~IsRight(a) /\ b = a + 1
    /\ ~IsRight(a) => Sibling(a) = a + 1 /\ Sibling(a + 1) = a /\ Parent(a + 1) = Parent(a) /\ IsRight(a + 1)
    /\ IsRight(a) => Sibling(a) < a
<1> SUFFICES ASSUME NEW a \in Nat \ {0}, NEW b \in Nat \ {0}
    PROVE
    /\ Parent(a) < Parent(b) => a < b /\ Sibling(a) < Sibling(b) /\ Sibling(a) # b /\ Sibling(b) # a
    /\ Parent(a) \in Nat /\ Sibling(a) \in Nat /\ Parent(Sibling(a)) = Parent(a)
    /\ a < b /\ Parent(a) = Parent(b) => ~IsRight(a) /\ b = a + 1
    /\ ~IsRight(a) => Sibling(a) = a + 1 /\ Sibling(a + 1) = a /\ Parent(a + 1) = Parent(a) /\ IsRight(a + 1)
    /\ IsRight(a) => Sibling(a) < a
  OBVIOUS
<1>2. Parent(a) < Parent(b) => a < b /\ Sibling(a) < Sibling(b) /\ Sibling(a) # b /\ Sibling(b) # a
  BY DEF Parent, Sibling, IsRight
<1>3. Parent(a) \in Nat /\ Sibling(a) \in Nat /\ Parent(Sibling(a)) = Parent(a)
  BY DEF Parent, Sibling, IsRight
<1>4. a < b /\ Parent(a) = Parent(b) => ~IsRight(a) /\ b = a + 1
  BY DEF Parent, IsRight
<1>5. ~IsRight(a) => Sibling(a) = a + 1 /\ Sibling(a + 1) = a /\ Parent(a + 1) = Parent(a) /\ IsRight(a + 1)
  BY DEF Parent, Sibling, IsRight
<1>6. IsRight(a) => Sibling(a) < a
  BY DEF Sibling, IsRight
<1> QED BY <1>2, <1>3, <1>4, <1>5, <1>6

\* Parents are in the order of their children.
LEMMA ParentMonotone ==
  ASSUME NEW a \in Nat, NEW b \in Nat, a <= b
  PROVE  Parent(a) <= Parent(b)
BY DEF Parent

\* What is known of the nodes of a layer that are done and of the others.
LEMMA LoopFacts ==
  ASSUME NEW L, L \subseteq Leaves, NEW d \in 1..Depth, NEW s, NEW up, NEW i, NEW t,
         LoopAt(L, d, s, up, i, t)
  PROVE  /\ Len(s) \in Nat /\ i \in Nat /\ i >= 1 /\ i <= Len(s) + 1
         /\ \A k \in 1..Len(s) : /\ s[k] \in Nat \ {0} /\ s[k] \in Path(L, d)
                                 /\ s[k] \in LayerNodes(d)
         /\ \A k, m \in 1..Len(s) : k < m => s[k] < s[m]
         /\ \A x \in Path(L, d) : \E k \in 1..Len(s) : s[k] = x
         /\ \A k, m \in 1..Len(s) : k < i /\ i <= m => Parent(s[k]) < Parent(s[m])
<1>0. d \in 0..Depth /\ Lists(s, Path(L, d)) /\ i \in 1..(Len(s) + 1)
  BY Zenon DEF LoopAt
<1>1. /\ Len(s) \in Nat
      /\ \A k \in 1..Len(s) : s[k] \in Nat /\ s[k] \in Path(L, d)
      /\ \A k, m \in 1..Len(s) : k < m => s[k] < s[m]
      /\ \A x \in Path(L, d) : \E k \in 1..Len(s) : s[k] = x
  BY <1>0, ListsType
<1>2. i \in Nat /\ i >= 1 /\ i <= Len(s) + 1
  BY <1>0, <1>1
<1>3. \A k \in 1..Len(s) : /\ s[k] \in Nat \ {0} /\ s[k] \in Path(L, d)
                           /\ s[k] \in LayerNodes(d)
  <2>1. \A j \in Path(L, d) : j \in LayerNodes(d)
    BY <1>0, PathFacts
  <2>2. \A j \in LayerNodes(d) : j # 0
    BY LayerFacts
  <2> QED BY <1>1, <2>1, <2>2
<1>4. ASSUME NEW k \in 1..Len(s), NEW m \in 1..Len(s), k < i, i <= m
      PROVE  Parent(s[k]) < Parent(s[m])
  <2>1. /\ i - 1 \in 1..Len(s) /\ i \in 1..Len(s) /\ k <= i - 1 /\ 1 < i /\ i <= Len(s)
    BY <1>1, <1>2, <1>4
  <2>2. Parent(s[i - 1]) < Parent(s[i])
    BY <2>1, Zenon DEF LoopAt
  <2>3. s[k] <= s[i - 1]
    <3>1. CASE k = i - 1
      BY <1>1, <2>1, <3>1
    <3>2. CASE k # i - 1
      <4>1. k < i - 1
        BY <1>1, <1>2, <2>1, <3>2
      <4>2. s[k] < s[i - 1]
        BY <1>1, <2>1, <4>1
      <4> QED BY <1>1, <2>1, <4>2
    <3> QED BY <3>1, <3>2
  <2>4. s[i] <= s[m]
    <3>1. CASE m = i
      BY <1>1, <2>1, <3>1
    <3>2. CASE m # i
      <4>1. i < m
        BY <1>1, <1>2, <1>4, <3>2
      <4>2. s[i] < s[m]
        BY <1>1, <2>1, <4>1
      <4> QED BY <1>1, <2>1, <4>2
    <3> QED BY <3>1, <3>2
  <2>5. /\ s[k] \in Nat \ {0} /\ s[m] \in Nat \ {0}
        /\ s[i] \in Nat \ {0} /\ s[i - 1] \in Nat \ {0}
    BY <1>3, <2>1
  <2>6. Parent(s[k]) <= Parent(s[i - 1]) /\ Parent(s[i]) <= Parent(s[m])
    <3>1. Parent(s[k]) <= Parent(s[i - 1])
      BY <2>3, <2>5, ParentMonotone
    <3>2. Parent(s[i]) <= Parent(s[m])
      BY <2>4, <2>5, ParentMonotone
    <3> QED BY <3>1, <3>2
  <2>7. /\ Parent(s[k]) \in Nat /\ Parent(s[i - 1]) \in Nat
        /\ Parent(s[i]) \in Nat /\ Parent(s[m]) \in Nat
    BY <2>5, ParentOrder
  <2> QED BY <2>2, <2>6, <2>7
<1> QED BY <1>1, <1>2, <1>3, <1>4

\* A left node whose right sibling is next in s.
Covered(s, i) == ~IsRight(s[i]) /\ i < Len(s) /\ s[i + 1] = s[i] + 1

\* The right sibling of a left node is in the layer only as the next one, and the left
\* sibling of a right node is not in it: a node at hand never has a sibling that is done.
LEMMA SiblingIsNext ==
  ASSUME NEW L, L \subseteq Leaves, NEW d \in 1..Depth, NEW s, NEW up, NEW i, NEW t,
         LoopAt(L, d, s, up, i, t), i <= Len(s)
  PROVE  Covered(s, i) <=> Sibling(s[i]) \in Path(L, d)
<1> DEFINE j == s[i]
<1>0. /\ Len(s) \in Nat /\ i \in Nat /\ i >= 1
      /\ \A k \in 1..Len(s) : s[k] \in Nat \ {0} /\ s[k] \in Path(L, d)
      /\ \A k, m \in 1..Len(s) : k < m => s[k] < s[m]
      /\ \A x \in Path(L, d) : \E k \in 1..Len(s) : s[k] = x
      /\ \A k, m \in 1..Len(s) : k < i /\ i <= m => Parent(s[k]) < Parent(s[m])
  BY LoopFacts
<1>1. i \in 1..Len(s) /\ j \in Nat \ {0}
  BY <1>0
<1> HIDE DEF j
<1>2. /\ Parent(Sibling(j)) = Parent(j) /\ Parent(j) \in Nat /\ Sibling(j) \in Nat
      /\ ~IsRight(j) => Sibling(j) = j + 1
      /\ IsRight(j) => Sibling(j) < j
  BY <1>1, ParentOrder, Zenon
<1>3. ASSUME Covered(s, i) PROVE Sibling(j) \in Path(L, d)
  <2>1. ~IsRight(j) /\ i < Len(s) /\ s[i + 1] = j + 1
    BY <1>3 DEF Covered, j
  <2>2. i + 1 \in 1..Len(s)
    BY <1>0, <2>1
  <2> QED BY <1>0, <1>2, <2>1, <2>2
<1>4. ASSUME Sibling(j) \in Path(L, d) PROVE Covered(s, i)
  <2>1. PICK m \in 1..Len(s) : s[m] = Sibling(j)
    BY <1>0, <1>4
  <2>2. ~(m < i)
    <3>1. SUFFICES ASSUME m < i PROVE FALSE
      OBVIOUS
    <3>2. Parent(s[m]) < Parent(s[i])
      BY <1>0, <1>1, <3>1
    <3>3. Parent(s[m]) = Parent(j)
      BY <1>2, <2>1, Zenon
    <3> QED BY <1>2, <3>2, <3>3 DEF j
  <2>3. s[m] \in Nat /\ j <= s[m]
    <3>1. CASE m = i
      BY <1>1, <3>1 DEF j
    <3>2. CASE m # i
      <4>1. i < m
        BY <1>0, <2>2, <3>2
      <4>2. s[i] < s[m] /\ s[m] \in Nat
        BY <1>0, <1>1, <4>1
      <4> QED BY <1>1, <4>2 DEF j
    <3> QED BY <3>1, <3>2
  <2>4. ~IsRight(j) /\ s[m] = j + 1
    BY <1>1, <1>2, <2>1, <2>3
  <2>5. i < m
    <3>1. m # i
      BY <1>1, <2>4 DEF j
    <3> QED BY <1>0, <2>2, <3>1
  <2>6. i + 1 \in 1..Len(s) /\ i < Len(s) /\ i < i + 1 /\ i + 1 <= m
    BY <1>0, <1>1, <2>5
  <2>7. j < s[i + 1] /\ s[i + 1] \in Nat
    BY <1>0, <1>1, <2>6 DEF j
  <2>8. s[i + 1] <= s[m]
    <3>1. CASE i + 1 = m
      BY <2>7, <3>1
    <3>2. CASE i + 1 # m
      <4>1. i + 1 < m
        BY <1>0, <2>6, <3>2
      <4>2. s[i + 1] < s[m]
        BY <1>0, <2>6, <4>1
      <4> QED BY <2>3, <2>7, <4>2
    <3> QED BY <3>1, <3>2
  <2>9. s[i + 1] = j + 1
    BY <1>1, <2>4, <2>7, <2>8
  <2> QED BY <2>4, <2>6, <2>9 DEF Covered, j
<1> QED BY <1>3, <1>4 DEF j

\* A node without its sibling in the layer: its sibling is needed.
LEMMA LoopTakes ==
  ASSUME NEW L, L \subseteq Leaves, NEW d \in 1..Depth, NEW s, NEW up, NEW i, NEW t,
         LoopAt(L, d, s, up, i, t), i <= Len(s), ~Covered(s, i)
  PROVE  LoopAt(L, d, s, Append(up, Parent(s[i])), i + 1, Append(t, Sibling(s[i])))
<1> DEFINE j == s[i]
           ups == {Parent(s[k]) : k \in 1..(i - 1)}
           sibs == {Sibling(s[k]) : k \in 1..(i - 1)} \ Path(L, d)
<1>0. /\ Len(s) \in Nat /\ i \in Nat /\ i >= 1
      /\ \A k \in 1..Len(s) : s[k] \in Nat \ {0} /\ s[k] \in Path(L, d)
      /\ \A k, m \in 1..Len(s) : k < m => s[k] < s[m]
      /\ \A k, m \in 1..Len(s) : k < i /\ i <= m => Parent(s[k]) < Parent(s[m])
  BY LoopFacts
<1>1. i \in 1..Len(s) /\ j \in Nat \ {0}
  BY <1>0
<1>2. Lists(up, ups) /\ Lists(t, sibs) /\ Lists(s, Path(L, d)) /\ d \in 0..Depth /\ d # 0
  <2>1. d \in 0..Depth /\ d # 0
    BY PowerOf2Equation
  <2> QED BY <2>1, Zenon DEF LoopAt
<1>3. Sibling(j) \notin Path(L, d)
  BY SiblingIsNext
<1>4. \A k \in 1..(i - 1) : Parent(s[k]) < Parent(j) /\ s[k] \in Nat \ {0} /\ k \in 1..Len(s)
  BY <1>0, <1>1
<1>5. 1..((i + 1) - 1) = (1..(i - 1)) \union {i}
  BY <1>1
<1> HIDE DEF j
<1>6. Parent(j) \in Nat /\ Sibling(j) \in Nat
  BY <1>1, ParentOrder, Zenon
<1>7. Lists(Append(up, Parent(j)), {Parent(s[k]) : k \in 1..((i + 1) - 1)})
  <2>1. \A y \in ups : y < Parent(j)
    BY <1>4
  <2>2. {Parent(s[k]) : k \in 1..((i + 1) - 1)} = ups \union {Parent(j)}
    BY <1>5 DEF j
  <2> HIDE DEF ups
  <2>3. Lists(Append(up, Parent(j)), ups \union {Parent(j)})
    BY <1>2, <1>6, <2>1, ListsAppend
  <2> QED BY <2>2, <2>3, Zenon
<1>8. Lists(Append(t, Sibling(j)), {Sibling(s[k]) : k \in 1..((i + 1) - 1)} \ Path(L, d))
  <2>1. \A y \in sibs : y < Sibling(j)
    <3>1. ASSUME NEW k \in 1..(i - 1) PROVE Sibling(s[k]) < Sibling(j)
      <4>1. Parent(s[k]) < Parent(j) /\ s[k] \in Nat \ {0}
        BY <1>4
      <4> QED BY <1>1, <4>1, ParentOrder, Zenon
    <3> QED BY <3>1
  <2>2. {Sibling(s[k]) : k \in 1..((i + 1) - 1)} \ Path(L, d) = sibs \union {Sibling(j)}
    BY <1>3, <1>5 DEF j
  <2> HIDE DEF sibs
  <2>3. Lists(Append(t, Sibling(j)), sibs \union {Sibling(j)})
    BY <1>2, <1>6, <2>1, ListsAppend
  <2> QED BY <2>2, <2>3, Zenon
<1>9. ASSUME i + 1 <= Len(s) PROVE Parent(s[i]) < Parent(s[i + 1])
  <2>1. i + 1 \in 1..Len(s) /\ i < Len(s) /\ i < i + 1
    BY <1>0, <1>9
  <2>2. s[i + 1] \in Nat \ {0} /\ j < s[i + 1]
    BY <1>0, <1>1, <2>1 DEF j
  <2>3. Parent(j) <= Parent(s[i + 1]) /\ Parent(s[i + 1]) \in Nat
    <3>1. j <= s[i + 1]
      BY <1>1, <2>2
    <3>2. Parent(j) <= Parent(s[i + 1])
      BY <1>1, <2>2, <3>1, ParentMonotone
    <3>3. Parent(s[i + 1]) \in Nat
      BY <2>2, ParentOrder, Zenon
    <3> QED BY <3>2, <3>3
  <2>4. Parent(j) # Parent(s[i + 1])
    <3>1. SUFFICES ASSUME Parent(j) = Parent(s[i + 1]) PROVE FALSE
      OBVIOUS
    <3>2. ~IsRight(j) /\ s[i + 1] = j + 1
      BY <1>1, <2>2, <3>1, ParentOrder, ZenonT(40)
    <3> QED BY <2>1, <3>2 DEF Covered, j
  <2> QED BY <1>6, <2>3, <2>4 DEF j
<1>10. i + 1 \in 1..(Len(s) + 1) /\ (i + 1) - 1 = i
  BY <1>0, <1>1
<1>11. 1 < i + 1 /\ i + 1 <= Len(s) => Parent(s[(i + 1) - 1]) < Parent(s[i + 1])
  BY <1>9, <1>10
<1> HIDE DEF ups, sibs
<1> QED BY <1>2, <1>7, <1>8, <1>10, <1>11, Zenon DEF LoopAt, j

\* A pair of siblings in the layer: nothing is needed.
LEMMA LoopSkips ==
  ASSUME NEW L, L \subseteq Leaves, NEW d \in 1..Depth, NEW s, NEW up, NEW i, NEW t,
         LoopAt(L, d, s, up, i, t), i <= Len(s), Covered(s, i)
  PROVE  LoopAt(L, d, s, Append(up, Parent(s[i])), i + 2, t)
<1> DEFINE j == s[i]
           ups == {Parent(s[k]) : k \in 1..(i - 1)}
           sibs == {Sibling(s[k]) : k \in 1..(i - 1)} \ Path(L, d)
<1>0. /\ Len(s) \in Nat /\ i \in Nat /\ i >= 1
      /\ \A k \in 1..Len(s) : s[k] \in Nat \ {0} /\ s[k] \in Path(L, d)
      /\ \A k, m \in 1..Len(s) : k < m => s[k] < s[m]
      /\ \A k, m \in 1..Len(s) : k < i /\ i <= m => Parent(s[k]) < Parent(s[m])
  BY LoopFacts
<1>1. /\ i \in 1..Len(s) /\ i + 1 \in 1..Len(s) /\ i < i + 1 /\ j \in Nat \ {0}
      /\ ~IsRight(j) /\ s[i + 1] = j + 1
  BY <1>0 DEF Covered
<1>2. Lists(up, ups) /\ Lists(t, sibs) /\ Lists(s, Path(L, d)) /\ d \in 0..Depth /\ d # 0
  <2>1. d \in 0..Depth /\ d # 0
    BY PowerOf2Equation
  <2> QED BY <2>1, Zenon DEF LoopAt
<1>3. j \in Path(L, d) /\ j + 1 \in Path(L, d)
  BY <1>0, <1>1
<1>4. \A k \in 1..(i - 1) : Parent(s[k]) < Parent(j)
  BY <1>0, <1>1
<1>5. 1..((i + 2) - 1) = (1..(i - 1)) \union {i, i + 1}
  BY <1>1
<1> HIDE DEF j
<1>6. /\ Parent(j) \in Nat /\ Sibling(j) = j + 1 /\ Sibling(j + 1) = j
      /\ Parent(j + 1) = Parent(j) /\ IsRight(j + 1)
  BY <1>1, ParentOrder, Zenon
<1>7. Lists(Append(up, Parent(j)), {Parent(s[k]) : k \in 1..((i + 2) - 1)})
  <2>1. \A y \in ups : y < Parent(j)
    BY <1>4
  <2>2. {Parent(s[k]) : k \in 1..((i + 2) - 1)} = ups \union {Parent(j)}
    BY <1>1, <1>5, <1>6 DEF j
  <2> HIDE DEF ups
  <2>3. Lists(Append(up, Parent(j)), ups \union {Parent(j)})
    BY <1>2, <1>6, <2>1, ListsAppend
  <2> QED BY <2>2, <2>3, Zenon
<1>8. Lists(t, {Sibling(s[k]) : k \in 1..((i + 2) - 1)} \ Path(L, d))
  <2>1. Sibling(s[i]) \in Path(L, d) /\ Sibling(s[i + 1]) \in Path(L, d)
    BY <1>1, <1>3, <1>6 DEF j
  <2>2. {Sibling(s[k]) : k \in 1..((i + 2) - 1)} \ Path(L, d) = sibs
    BY <1>5, <2>1
  <2> HIDE DEF sibs
  <2> QED BY <1>2, <2>2, Zenon
<1>9. ASSUME i + 2 <= Len(s) PROVE Parent(s[i + 1]) < Parent(s[i + 2])
  <2>1. i + 2 \in 1..Len(s) /\ i + 1 < i + 2
    BY <1>0, <1>9
  <2>2. s[i + 2] \in Nat \ {0} /\ j + 1 < s[i + 2] /\ j + 1 \in Nat \ {0}
    BY <1>0, <1>1, <2>1
  <2>3. Parent(j + 1) <= Parent(s[i + 2]) /\ Parent(s[i + 2]) \in Nat
    <3>1. j + 1 <= s[i + 2]
      BY <1>1, <2>2
    <3>2. Parent(j + 1) <= Parent(s[i + 2])
      BY <2>2, <3>1, ParentMonotone
    <3>3. Parent(s[i + 2]) \in Nat
      BY <2>2, ParentOrder, Zenon
    <3> QED BY <3>2, <3>3
  <2>4. Parent(j + 1) # Parent(s[i + 2])
    <3>1. SUFFICES ASSUME Parent(j + 1) = Parent(s[i + 2]) PROVE FALSE
      OBVIOUS
    <3>2. ~IsRight(j + 1)
      BY <2>2, <3>1, ParentOrder, ZenonT(40)
    <3> QED BY <1>6, <3>2
  <2> QED BY <1>1, <1>6, <2>3, <2>4
<1>10. i + 2 \in 1..(Len(s) + 1) /\ (i + 2) - 1 = i + 1
  BY <1>0, <1>1
<1>11. 1 < i + 2 /\ i + 2 <= Len(s) => Parent(s[(i + 2) - 1]) < Parent(s[i + 2])
  BY <1>9, <1>10
<1> HIDE DEF ups, sibs
<1> QED BY <1>2, <1>7, <1>8, <1>10, <1>11, Zenon DEF LoopAt, j

\* What a layer has needed so far is a first part of all that it needs.
LEMMA LoopFirstPart ==
  ASSUME NEW L, L \subseteq Leaves, NEW d \in 1..Depth, NEW s, NEW up, NEW i, NEW t,
         LoopAt(L, d, s, up, i, t)
  PROVE  /\ t \in Seq(Nat)
         /\ Sorted(Needed(L, d)) \in Seq(Nat)
         /\ Len(t) <= Len(Sorted(Needed(L, d)))
         /\ \A m \in 1..Len(t) : m \in 1..Len(Sorted(Needed(L, d))) /\ t[m] = Sorted(Needed(L, d))[m]
<1> DEFINE sibs == {Sibling(s[k]) : k \in 1..(i - 1)} \ Path(L, d)
           all == Sorted(Needed(L, d))
<1>0. /\ Len(s) \in Nat /\ i \in Nat /\ i >= 1 /\ i <= Len(s) + 1
      /\ \A k \in 1..Len(s) : /\ s[k] \in Nat \ {0} /\ s[k] \in Path(L, d)
                              /\ s[k] \in LayerNodes(d)
      /\ \A k, m \in 1..Len(s) : k < m => s[k] < s[m]
      /\ \A x \in Path(L, d) : \E k \in 1..Len(s) : s[k] = x
      /\ \A k, m \in 1..Len(s) : k < i /\ i <= m => Parent(s[k]) < Parent(s[m])
  BY LoopFacts
<1>1. Lists(t, sibs)
  BY Zenon DEF LoopAt
<1>2. Lists(all, Needed(L, d))
  BY NeededType, SortedLists
<1>3. \A k \in 1..(i - 1) : k \in 1..Len(s) /\ k < i
  BY <1>0
<1>4. ASSUME NEW x \in sibs PROVE x \in Needed(L, d)
  <2>1. PICK k \in 1..(i - 1) : x = Sibling(s[k]) /\ x \notin Path(L, d)
    OBVIOUS
  <2>2. s[k] \in Path(L, d)
    BY <1>0, <1>3
  <2> QED BY <2>1, <2>2 DEF Needed
<1>5. ASSUME NEW x \in sibs, NEW y \in Needed(L, d) PROVE y \in sibs \/ x < y
  <2>1. PICK k \in 1..(i - 1) : x = Sibling(s[k])
    OBVIOUS
  <2>2. PICK z \in Path(L, d) : y = Sibling(z) /\ y \notin Path(L, d)
    BY DEF Needed
  <2>3. PICK m \in 1..Len(s) : s[m] = z
    BY <1>0
  <2>4. CASE m < i
    <3>1. m \in 1..(i - 1)
      BY <1>0, <2>4
    <3>2. y \in sibs
      BY <2>2, <2>3, <3>1
    <3> QED BY <3>2
  <2>5. CASE i <= m
    <3>1. k \in 1..Len(s) /\ k < i
      BY <1>3
    <3>2. /\ Parent(s[k]) < Parent(s[m]) /\ s[k] \in Nat \ {0} /\ s[m] \in Nat \ {0}
      BY <1>0, <2>5, <3>1
    <3>3. Sibling(s[k]) < Sibling(s[m])
      BY <3>2, ParentOrder, Zenon
    <3> QED BY <2>1, <2>2, <2>3, <3>3, Zenon
  <2> QED BY <1>0, <2>4, <2>5
<1> HIDE DEF sibs, all
<1>6. /\ Len(t) <= Len(all)
      /\ \A m \in 1..Len(t) : m \in 1..Len(all) /\ t[m] = all[m]
  BY <1>1, <1>2, <1>4, <1>5, ListsFirstPart
<1>7. t \in Seq(Nat) /\ all \in Seq(Nat)
  BY <1>1, <1>2, ListsType
<1> QED BY <1>6, <1>7 DEF all

\* A layer that is done: the nodes of the layer above are known, and all that is needed.
LEMMA LoopEnds ==
  ASSUME NEW L, L \subseteq Leaves, NEW d \in 1..Depth, NEW s, NEW up, NEW i, NEW t,
         LoopAt(L, d, s, up, i, t), i > Len(s)
  PROVE  /\ Lists(up, Path(L, d - 1))
         /\ t = Sorted(Needed(L, d))
<1>0. /\ Len(s) \in Nat /\ i \in Nat /\ i >= 1 /\ i <= Len(s) + 1
      /\ \A k \in 1..Len(s) : /\ s[k] \in Nat \ {0} /\ s[k] \in Path(L, d)
                              /\ s[k] \in LayerNodes(d)
      /\ \A k, m \in 1..Len(s) : k < m => s[k] < s[m]
      /\ \A x \in Path(L, d) : \E k \in 1..Len(s) : s[k] = x
      /\ \A k, m \in 1..Len(s) : k < i /\ i <= m => Parent(s[k]) < Parent(s[m])
  BY LoopFacts
<1>1. 1..(i - 1) = 1..Len(s)
  BY <1>0
<1>2. {Parent(s[k]) : k \in 1..(i - 1)} = Path(L, d - 1)
  <2>1. {Parent(s[k]) : k \in 1..Len(s)} = {Parent(j) : j \in Path(L, d)}
    BY <1>0
  <2>2. Path(L, d - 1) = {Parent(j) : j \in Path(L, d)}
    BY PathFacts
  <2> QED BY <1>1, <2>1, <2>2, Zenon
<1>3. {Sibling(s[k]) : k \in 1..(i - 1)} \ Path(L, d) = Needed(L, d)
  <2>1. {Sibling(s[k]) : k \in 1..Len(s)} = {Sibling(j) : j \in Path(L, d)}
    BY <1>0
  <2> QED BY <1>1, <2>1, Zenon DEF Needed
<1>4. Lists(up, Path(L, d - 1)) /\ Lists(t, Needed(L, d))
  BY <1>2, <1>3, Zenon DEF LoopAt
<1>5. Lists(Sorted(Needed(L, d)), Needed(L, d))
  BY NeededType, SortedLists
<1> QED BY <1>4, <1>5, ListsUnique

\* The layer of the root is its own, and the loops stop at it.
LEMMA RootFacts ==
  ASSUME NEW L, L \subseteq Leaves, L # {}, NEW d, NEW s, NEW up, NEW i, NEW t,
         LoopAt(L, d, s, up, i, t)
  PROVE  /\ d \in 0..Depth /\ Depth \in Nat
         /\ AtRoot(s) <=> d = 0
         /\ d = 0 => i <= Len(s) /\ i = 1
         /\ d # 0 => d \in 1..Depth
         /\ s # << >>
<1>0. d \in 0..Depth /\ Depth \in Nat /\ Lists(s, Path(L, d)) /\ (d = 0 => i = 1)
  BY PowerOf2Equation DEF LoopAt
<1>1. /\ s \in Seq(Nat) /\ Len(s) \in Nat
      /\ \A k \in 1..Len(s) : s[k] \in Path(L, d)
      /\ \A k, m \in 1..Len(s) : k < m => s[k] < s[m]
      /\ \A x \in Path(L, d) : \E k \in 1..Len(s) : s[k] = x
  BY <1>0, ListsType
<1>2. PICK x \in Path(L, d) : TRUE
  BY <1>0, PathFacts
<1>3. Len(s) >= 1 /\ 1 \in 1..Len(s)
  <2>1. PICK k \in 1..Len(s) : s[k] = x
    BY <1>1
  <2> QED BY <1>1, <2>1
<1>4. ASSUME d = 0 PROVE AtRoot(s)
  <2>1. \A k \in 1..Len(s) : s[k] = 0
    <3>1. \A y \in Path(L, 0) : y \in LayerNodes(0)
      BY <1>0, <1>4, PathFacts
    <3>2. LayerNodes(0) = {0}
      BY LayerFacts
    <3> QED BY <1>1, <1>4, <3>1, <3>2
  <2>2. Len(s) = 1
    <3>0. Len(s) \in Nat /\ Len(s) >= 1
      BY <1>1, <1>3
    <3>1. SUFFICES ASSUME Len(s) > 1 PROVE FALSE
      BY <3>0
    <3>2. 1 \in 1..Len(s) /\ 2 \in 1..Len(s)
      BY <1>1, <3>1
    <3>3. s[1] < s[2] /\ s[1] = 0 /\ s[2] = 0
      BY <1>1, <2>1, <3>2
    <3> QED BY <3>3
  <2>3. s = <<0>>
    BY <1>1, <1>3, <2>1, <2>2
  <2> QED BY <2>3 DEF AtRoot
<1>5. ASSUME AtRoot(s) PROVE d = 0
  <2>1. s[1] = 0
    BY <1>5 DEF AtRoot
  <2>2. 0 \in LayerNodes(d)
    BY <1>0, <1>1, <1>3, <2>1, PathFacts
  <2>3. 0 \in LayerNodes(0) /\ 0 \in 0..Depth
    BY <1>0, LayerFacts
  <2> QED BY <1>0, <2>2, <2>3, LayersApart
<1>6. s # << >>
  BY <1>3
<1> QED BY <1>0, <1>3, <1>4, <1>5, <1>6

-----------------------------------------------------------------------------
(***************************************************************************)
(* Counting the hashes.                                                    *)
(***************************************************************************)
\* Ascending, with repetitions.
Ascends(s) == \A i, j \in DOMAIN s : i < j => s[i] <= s[j]

\* Numbers in ascending order without copies are a list.
LEMMA CopiesDroppedLists ==
  ASSUME NEW e \in Seq(Nat), Ascends(e)
  PROVE  Lists(WithoutAdjacentCopies(e), ToSet(e))
<1> SUFFICES ASSUME NEW w, w = WithoutAdjacentCopies(e) PROVE Lists(w, ToSet(e))
  BY Zenon
<1>1. /\ w \in Seq(Nat)
      /\ ToSet(w) = ToSet(e)
      /\ KeepsNeighbours(w, e)
  BY CopiesDropped
<1>2. ASSUME NEW k \in 2..Len(e), e[k] # e[k - 1] PROVE e[k - 1] < e[k]
  <2>1. k - 1 \in DOMAIN e /\ k \in DOMAIN e /\ k - 1 < k
    OBVIOUS
  <2>2. e[k - 1] <= e[k] /\ e[k - 1] \in Nat /\ e[k] \in Nat
    <3>1. e[k - 1] <= e[k]
      BY <2>1, Zenon DEF Ascends
    <3> QED BY <2>1, <3>1
  <2> QED BY <1>2, <2>2
<1>3. \A i \in 1..Len(w), j \in 1..Len(w) : j = i + 1 => w[i] < w[j]
  <2>1. SUFFICES ASSUME NEW i \in 1..Len(w), NEW j \in 1..Len(w), j = i + 1 PROVE w[i] < w[j]
    OBVIOUS
  <2>2. PICK k \in 2..Len(e) : w[i] = e[k - 1] /\ w[j] = e[k] /\ e[k] # e[k - 1]
    BY <1>1, <2>1, Zenon DEF KeepsNeighbours
  <2>3. e[k - 1] < e[k]
    BY <1>2, <2>2
  <2> QED BY <2>2, <2>3
<1> QED BY <1>1, <1>3, NeighboursAscend

\* A level of positions and the level above it.
LEMMA ParentsOfFacts ==
  ASSUME NEW v \in Seq(Nat)
  PROVE  /\ ParentsOf(v) \in Seq(Nat)
         /\ Ascends(v) => Lists(ParentsOf(v), {x \div 2 : x \in ToSet(v)})
<1> DEFINE e == [i \in DOMAIN v |-> v[i] \div 2]
<1>1. e \in Seq(Nat) /\ DOMAIN e = DOMAIN v /\ \A i \in DOMAIN v : e[i] = v[i] \div 2 /\ v[i] \in Nat
  <2>1. DOMAIN v = 1..Len(v) /\ Len(v) \in Nat /\ \A i \in 1..Len(v) : v[i] \in Nat /\ v[i] \div 2 \in Nat
    OBVIOUS
  <2> QED BY <2>1
<1>2. ParentsOf(v) = WithoutAdjacentCopies(e)
  BY Zenon DEF ParentsOf
<1> HIDE DEF e
<1>3. ParentsOf(v) \in Seq(Nat)
  <2>1. WithoutAdjacentCopies(e) \in Seq(Nat)
    BY <1>1, CopiesDropped
  <2> QED BY <1>2, <2>1, Zenon
<1>4. ASSUME Ascends(v) PROVE Lists(ParentsOf(v), {x \div 2 : x \in ToSet(v)})
  <2>1. Ascends(e)
    <3>1. ASSUME NEW i \in DOMAIN v, NEW j \in DOMAIN v, i < j PROVE e[i] <= e[j]
      <4>1. v[i] <= v[j] /\ v[i] \in Nat /\ v[j] \in Nat
        BY <1>1, <1>4, <3>1 DEF Ascends
      <4>2. v[i] \div 2 <= v[j] \div 2
        BY <4>1
      <4> QED BY <1>1, <4>2
    <3> QED BY <1>1, <3>1 DEF Ascends
  <2>2. ToSet(e) = {x \div 2 : x \in ToSet(v)}
    BY <1>1 DEF ToSet
  <2>3. Lists(WithoutAdjacentCopies(e), ToSet(e))
    BY <1>1, <2>1, CopiesDroppedLists
  <2> QED BY <1>2, <2>2, <2>3, Zenon
<1> QED BY <1>3, <1>4

\* The recursion of LevelAbove.
Rising(v, above) ==
  above = [k \in 0..Depth |-> IF k = 0 THEN v ELSE ParentsOf(above[k - 1])]

\* Each level holds the parents of the one below.
LEMMA LevelAboveFacts ==
  ASSUME NEW v \in Seq(Nat)
  PROVE  /\ LevelAbove(v)[0] = v
         /\ \A k \in 1..Depth : LevelAbove(v)[k] = ParentsOf(LevelAbove(v)[k - 1])
         /\ \A k \in 0..Depth : LevelAbove(v)[k] \in Seq(Nat)
<1>0. Depth \in Nat
  BY PowerOf2Equation
<1> DEFINE step == [k \in 1..Depth |-> [u \in Seq(Nat) |-> ParentsOf(u)]]
<1>1. step \in [1..Depth -> [Seq(Nat) -> Seq(Nat)]]
  <2>1. \A u \in Seq(Nat) : ParentsOf(u) \in Seq(Nat)
    BY ParentsOfFacts
  <2> QED BY <2>1
<1>2. \A k \in 1..Depth : \A u \in Seq(Nat) : step[k][u] = ParentsOf(u)
  OBVIOUS
<1> HIDE DEF step
<1>3. PICK f \in [0..Depth -> Seq(Nat)] : Stepwise(Depth, v, step, f)
  BY <1>0, <1>1, RecursionExists
<1>4. \A k \in 0..Depth :
        (IF k = 0 THEN v ELSE step[k][f[k - 1]]) = IF k = 0 THEN v ELSE ParentsOf(f[k - 1])
  <2>1. ASSUME NEW k \in 0..Depth, k # 0 PROVE k \in 1..Depth /\ f[k - 1] \in Seq(Nat)
    <3>1. k \in 1..Depth /\ k - 1 \in 0..Depth
      BY <1>0, <2>1
    <3> QED BY <3>1
  <2> QED BY <1>2, <2>1, Zenon
<1>5. [k \in 0..Depth |-> IF k = 0 THEN v ELSE step[k][f[k - 1]]]
        = [k \in 0..Depth |-> IF k = 0 THEN v ELSE ParentsOf(f[k - 1])]
  BY <1>4, Zenon
<1>6. \E above : Rising(v, above)
  <2>1. Rising(v, f)
    BY <1>3, <1>5, Zenon DEF Rising, Stepwise
  <2> QED BY <2>1, Zenon
<1> DEFINE a == LevelAbove(v)
<1>7. Rising(v, a)
  BY <1>6, Zenon DEF LevelAbove, Rising
<1> HIDE DEF a
<1>8. \A k \in 0..Depth : a[k] = IF k = 0 THEN v ELSE ParentsOf(a[k - 1])
  <2>1. a = [k \in 0..Depth |-> IF k = 0 THEN v ELSE ParentsOf(a[k - 1])]
    BY <1>7, Zenon DEF Rising
  <2> QED BY <2>1, Zenon
<1>9. a[0] = v /\ \A k \in 1..Depth : a[k] = ParentsOf(a[k - 1])
  BY <1>0, <1>8
<1> DEFINE N == {k \in Nat : k <= Depth => a[k] \in Seq(Nat)}
<1>10. 0 \in N
  BY <1>9
<1>11. ASSUME NEW k \in Nat, k \in N PROVE k + 1 \in N
  <2>1. SUFFICES ASSUME k + 1 <= Depth PROVE a[k + 1] \in Seq(Nat)
    OBVIOUS
  <2>2. a[k] \in Seq(Nat) /\ k + 1 \in 1..Depth /\ (k + 1) - 1 = k
    BY <1>0, <1>11, <2>1
  <2>3. a[k + 1] = ParentsOf(a[k])
    BY <1>9, <2>2
  <2> QED BY <2>2, <2>3, ParentsOfFacts
<1> HIDE DEF N
<1>12. Nat \subseteq N
  BY <1>10, <1>11, NatSetInduction
<1>13. \A k \in 0..Depth : a[k] \in Seq(Nat)
  BY <1>0, <1>12 DEF N
<1> QED BY <1>9, <1>13 DEF a

\* As many parents of positions as nodes on paths, in every layer above the leaves.
LEMMA LevelAboveIsPath ==
  ASSUME NEW v \in Seq(Nat), Ascends(v), NEW L, L = ToSet(v), L \subseteq Leaves,
         NEW k \in 1..Depth
  PROVE  Len(LevelAbove(v)[k]) = Len(Sorted(Path(L, Depth - k)))
<1>0. Depth \in Nat /\ (\A i \in L : i \in Leaves) /\ Depth - 0 = Depth /\ NumLeaves = PowerOf2[Depth]
  BY PowerOf2Equation DEF NumLeaves
<1> DEFINE a == LevelAbove(v)
           nodes(m) == {PowerOf2[Depth - m] - 1 + x : x \in ToSet(a[m])}
           level(m) == /\ Ascends(a[m])
                       /\ Path(L, Depth - m) = nodes(m)
                       /\ m # 0 => Lists(a[m], ToSet(a[m]))
           N == {m \in Nat : m <= Depth => level(m)}
<1>1. /\ a[0] = v
      /\ \A m \in 1..Depth : a[m] = ParentsOf(a[m - 1])
      /\ \A m \in 0..Depth : a[m] \in Seq(Nat)
  BY LevelAboveFacts
<1> HIDE DEF a
<1>2. 0 \in N
  <2>1. Path(L, Depth) = {NodeOf(i) : i \in L}
    BY PathFacts
  <2>2. Path(L, Depth - 0) = nodes(0)
    <3>1. \A i \in L : NodeOf(i) = PowerOf2[Depth - 0] - 1 + i
      BY <1>0, Zenon DEF NodeOf
    <3>2. {NodeOf(i) : i \in L} = {PowerOf2[Depth - 0] - 1 + x : x \in L}
      BY <3>1, Zenon
    <3> QED BY <1>0, <1>1, <2>1, <3>2, Zenon
  <2> HIDE DEF nodes
  <2> QED BY <1>1, <2>2
<1>3. ASSUME NEW m \in Nat, m \in N PROVE m + 1 \in N
  <2>0. m + 1 \in Nat
    OBVIOUS
  <2> HIDE DEF level
  <2>1. SUFFICES ASSUME m + 1 <= Depth PROVE level(m + 1)
    BY <2>0
  <2>2. /\ m <= Depth /\ m \in 0..Depth /\ m + 1 \in 1..Depth /\ (m + 1) - 1 = m /\ m + 1 # 0
        /\ Depth - m \in 1..Depth /\ Depth - (m + 1) \in 0..Depth /\ (Depth - m) - 1 = Depth - (m + 1)
    BY <1>0, <2>1
  <2>3. level(m)
    BY <1>3, <2>2
  <2>4. a[m] \in Seq(Nat) /\ a[m + 1] = ParentsOf(a[m]) /\ Ascends(a[m])
    <3>1. Ascends(a[m])
      BY <2>3, Zenon DEF level
    <3> QED BY <1>1, <2>2, <3>1
  <2>5. Lists(a[m + 1], {x \div 2 : x \in ToSet(a[m])})
    BY <2>4, ParentsOfFacts
  <2>6. ToSet(a[m + 1]) = {x \div 2 : x \in ToSet(a[m])} /\ Lists(a[m + 1], ToSet(a[m + 1]))
    <3>1. ToSet(a[m + 1]) = {x \div 2 : x \in ToSet(a[m])}
      BY <2>5, Zenon DEF Lists
    <3> QED BY <2>5, <3>1, Zenon
  <2>7. Ascends(a[m + 1])
    <3>1. /\ DOMAIN a[m + 1] = 1..Len(a[m + 1])
          /\ \A i \in 1..Len(a[m + 1]) : a[m + 1][i] \in Nat
          /\ \A i, j \in 1..Len(a[m + 1]) : i < j => a[m + 1][i] < a[m + 1][j]
      BY <2>6, ListsType
    <3>2. \A i, j \in 1..Len(a[m + 1]) : i < j => a[m + 1][i] <= a[m + 1][j]
      BY <3>1
    <3> QED BY <3>1, <3>2, Zenon DEF Ascends
  <2>8. Path(L, Depth - (m + 1)) = nodes(m + 1)
    <3> DEFINE p == PowerOf2[Depth - (m + 1)]
               A == ToSet(a[m])
    <3>1. PowerOf2[Depth - m] = 2 * p /\ p \in Nat
      BY <2>2, PowerOf2Equation, PowerOf2Type
    <3>2. \A x \in A : x \in Nat
      BY <2>4 DEF ToSet
    <3> HIDE DEF p, A
    <3>3. \A x \in A : Parent(2 * p - 1 + x) = p - 1 + (x \div 2)
      <4>1. SUFFICES ASSUME NEW x \in A PROVE Parent(2 * p - 1 + x) = p - 1 + (x \div 2)
        OBVIOUS
      <4>2. x \in Nat /\ p \in Nat
        BY <3>1, <3>2
      <4>3. (2 * p - 1 + x) - 1 = 2 * (p - 1) + x
        BY <4>2
      <4>4. (2 * (p - 1) + x) \div 2 = p - 1 + (x \div 2)
        BY <4>2
      <4> QED BY <4>3, <4>4, Zenon DEF Parent
    <3>4. Path(L, Depth - m) = {2 * p - 1 + x : x \in A}
      BY <2>3, <3>1, Zenon DEF level, A
    <3>5. Path(L, Depth - (m + 1)) = {Parent(j) : j \in Path(L, Depth - m)}
      BY <2>2, PathFacts
    <3>6. {Parent(j) : j \in {2 * p - 1 + x : x \in A}} = {p - 1 + y : y \in {x \div 2 : x \in A}}
      BY <3>3
    <3> QED BY <2>6, <3>4, <3>5, <3>6, Zenon DEF p, A
  <2> HIDE DEF nodes
  <2> QED BY <2>6, <2>7, <2>8 DEF level
<1> HIDE DEF N, level
<1>4. Nat \subseteq N
  BY <1>2, <1>3, NatSetInduction
<1>5. level(k) /\ k # 0 /\ Depth - k \in 0..Depth /\ k \in 0..Depth
  <2>1. k \in N /\ k <= Depth
    BY <1>0, <1>4
  <2> QED BY <1>0, <2>1 DEF N
<1> DEFINE s == a[k]
           c == PowerOf2[Depth - k] - 1
           t == [i \in 1..Len(s) |-> c + s[i]]
<1>6. Lists(s, ToSet(s)) /\ Path(L, Depth - k) = {c + x : x \in ToSet(s)}
  BY <1>5, Zenon DEF level
<1>7. c \in Nat
  BY <1>5, PowerOf2Type
<1> HIDE DEF s, c
<1>8. /\ Len(s) \in Nat /\ \A i \in 1..Len(s) : s[i] \in Nat /\ s[i] \in ToSet(s)
      /\ \A i, j \in 1..Len(s) : i < j => s[i] < s[j]
      /\ \A x \in ToSet(s) : \E i \in 1..Len(s) : s[i] = x
  BY <1>6, ListsType
<1>9. Lists(t, Path(L, Depth - k))
  <2>1. t \in Seq(Nat) /\ Len(t) = Len(s) /\ DOMAIN t = 1..Len(s) /\ \A i \in 1..Len(s) : t[i] = c + s[i]
    BY <1>7, <1>8
  <2> HIDE DEF t
  <2>2. \A i, j \in DOMAIN t : i < j => t[i] < t[j]
    BY <1>7, <1>8, <2>1
  <2>3. ToSet(t) = {c + x : x \in ToSet(s)}
    <3>1. ToSet(t) = {t[i] : i \in 1..Len(s)}
      BY <2>1 DEF ToSet
    <3>2. \A i \in 1..Len(s) : t[i] \in {c + x : x \in ToSet(s)}
      BY <1>8, <2>1
    <3>3. \A x \in ToSet(s) : c + x \in {t[i] : i \in 1..Len(s)}
      <4>1. SUFFICES ASSUME NEW x \in ToSet(s) PROVE c + x \in {t[i] : i \in 1..Len(s)}
        OBVIOUS
      <4>2. PICK i \in 1..Len(s) : s[i] = x
        BY <1>8
      <4>3. t[i] = c + x
        BY <2>1, <4>2
      <4> QED BY <4>3
    <3> QED BY <3>1, <3>2, <3>3
  <2> QED BY <1>6, <2>1, <2>2, <2>3 DEF Lists
<1>10. Lists(Sorted(Path(L, Depth - k)), Path(L, Depth - k))
  <2>1. \A j \in Path(L, Depth - k) : j \in Nodes
    BY <1>5, PathFacts, LayerFacts
  <2>2. Path(L, Depth - k) \subseteq Nodes
    BY <2>1
  <2> QED BY <2>2, SortedLists
<1>11. t = Sorted(Path(L, Depth - k))
  BY <1>9, <1>10, ListsUnique
<1>12. Len(t) = Len(s)
  BY <1>8
<1> QED BY <1>11, <1>12, Zenon DEF s, a

\* The recursion of HashesUpTo.
Adding(v, sum) ==
  sum = [k \in 0..Depth |-> IF k = 0 THEN 0 ELSE sum[k - 1] + Len(LevelAbove(v)[k])]

\* The hashes are counted level by level.
LEMMA HashesUpToFacts ==
  ASSUME NEW v \in Seq(Nat)
  PROVE  /\ HashesUpTo(v)[0] = 0
         /\ \A k \in 1..Depth : HashesUpTo(v)[k] = HashesUpTo(v)[k - 1] + Len(LevelAbove(v)[k])
         /\ \A k \in 0..Depth : HashesUpTo(v)[k] \in Nat
<1>0. Depth \in Nat
  BY PowerOf2Equation
<1> DEFINE len(k) == Len(LevelAbove(v)[k])
           step == [k \in 1..Depth |-> [u \in Nat |-> u + len(k)]]
<1>1. \A k \in 0..Depth : len(k) \in Nat
  <2>1. \A k \in 0..Depth : LevelAbove(v)[k] \in Seq(Nat)
    BY LevelAboveFacts
  <2> QED BY <2>1
<1> HIDE DEF len
<1>2. step \in [1..Depth -> [Nat -> Nat]]
  <2>1. \A k \in 1..Depth : \A u \in Nat : u + len(k) \in Nat
    BY <1>0, <1>1
  <2> QED BY <2>1
<1>3. \A k \in 1..Depth : \A u \in Nat : step[k][u] = u + len(k)
  OBVIOUS
<1> HIDE DEF step
<1>4. PICK f \in [0..Depth -> Nat] : Stepwise(Depth, 0, step, f)
  BY <1>0, <1>2, RecursionExists
<1>5. \A k \in 0..Depth :
        (IF k = 0 THEN 0 ELSE step[k][f[k - 1]]) = IF k = 0 THEN 0 ELSE f[k - 1] + len(k)
  <2>1. ASSUME NEW k \in 0..Depth, k # 0 PROVE k \in 1..Depth /\ f[k - 1] \in Nat
    <3>1. k \in 1..Depth /\ k - 1 \in 0..Depth
      BY <1>0, <2>1
    <3> QED BY <3>1
  <2> QED BY <1>3, <2>1, Zenon
<1>6. [k \in 0..Depth |-> IF k = 0 THEN 0 ELSE step[k][f[k - 1]]]
        = [k \in 0..Depth |-> IF k = 0 THEN 0 ELSE f[k - 1] + len(k)]
  BY <1>5, Zenon
<1>7. \E sum : Adding(v, sum)
  <2>1. Adding(v, f)
    BY <1>4, <1>6, Zenon DEF Adding, Stepwise, len
  <2> QED BY <2>1, Zenon
<1> DEFINE c == HashesUpTo(v)
<1>8. Adding(v, c)
  BY <1>7, Zenon DEF HashesUpTo, Adding
<1> HIDE DEF c
<1>9. \A k \in 0..Depth : c[k] = IF k = 0 THEN 0 ELSE c[k - 1] + len(k)
  <2>1. c = [k \in 0..Depth |-> IF k = 0 THEN 0 ELSE c[k - 1] + len(k)]
    BY <1>8, Zenon DEF Adding, len
  <2> QED BY <2>1, Zenon
<1>10. c[0] = 0 /\ \A k \in 1..Depth : c[k] = c[k - 1] + len(k)
  BY <1>0, <1>9
<1> DEFINE N == {k \in Nat : k <= Depth => c[k] \in Nat}
<1>11. 0 \in N
  BY <1>10
<1>12. ASSUME NEW k \in Nat, k \in N PROVE k + 1 \in N
  <2>1. SUFFICES ASSUME k + 1 <= Depth PROVE c[k + 1] \in Nat
    OBVIOUS
  <2>2. c[k] \in Nat /\ k + 1 \in 1..Depth /\ k + 1 \in 0..Depth /\ (k + 1) - 1 = k
    BY <1>0, <1>12, <2>1
  <2>3. c[k + 1] = c[k] + len(k + 1) /\ len(k + 1) \in Nat
    BY <1>1, <1>10, <2>2
  <2> QED BY <2>2, <2>3
<1> HIDE DEF N
<1>13. Nat \subseteq N
  BY <1>11, <1>12, NatSetInduction
<1>14. \A k \in 0..Depth : c[k] \in Nat
  BY <1>0, <1>13 DEF N
<1> QED BY <1>10, <1>14, Zenon DEF c, len

\* No positions need no hash.
LEMMA NothingToHash == HashesUpTo(<< >>)[Depth] = 0
<1>0. Depth \in Nat
  BY PowerOf2Equation
<1> DEFINE c == HashesUpTo(<< >>)
           N == {k \in Nat : k <= Depth => c[k] = 0}
<1>1. << >> \in Seq(Nat) /\ Ascends(<< >>) /\ ToSet(<< >>) = {}
  BY DEF Ascends, ToSet
<1>2. /\ c[0] = 0
      /\ \A k \in 1..Depth : c[k] = c[k - 1] + Len(LevelAbove(<< >>)[k])
  BY <1>1, HashesUpToFacts
<1> HIDE DEF c
<1>3. \A k \in 1..Depth : Len(LevelAbove(<< >>)[k]) = 0
  <2>1. SUFFICES ASSUME NEW k \in 1..Depth PROVE Len(LevelAbove(<< >>)[k]) = 0
    OBVIOUS
  <2>2. {} \subseteq Leaves
    OBVIOUS
  <2>3. Len(LevelAbove(<< >>)[k]) = Len(Sorted(Path({}, Depth - k)))
    BY <1>1, <2>2, LevelAboveIsPath
  <2>4. Path({}, Depth - k) = {}
    BY DEF Path
  <2>5. Sorted({}) = << >>
    BY SortedLists, ListsEmpty
  <2>6. Len(Sorted(Path({}, Depth - k))) = Len(<< >>)
    BY <2>4, <2>5, Zenon
  <2> QED BY <2>3, <2>6
<1>4. 0 \in N
  BY <1>2
<1>5. ASSUME NEW k \in Nat, k \in N PROVE k + 1 \in N
  <2>1. SUFFICES ASSUME k + 1 <= Depth PROVE c[k + 1] = 0
    OBVIOUS
  <2>2. c[k] = 0 /\ k + 1 \in 1..Depth /\ (k + 1) - 1 = k
    BY <1>0, <1>5, <2>1
  <2> QED BY <1>2, <1>3, <2>2
<1> HIDE DEF N
<1>6. Nat \subseteq N
  BY <1>4, <1>5, NatSetInduction
<1>7. c[Depth] = 0
  BY <1>0, <1>6 DEF N
<1> QED BY <1>7 DEF c

-----------------------------------------------------------------------------
(***************************************************************************)
(* The entries of the verifier.                                            *)
(***************************************************************************)
\* The opened leaves.
Opened == ToSet(positions)

\* What the two sides are given.
InputsOK ==
  /\ make_zk \in BOOLEAN
  /\ positions \in Seq(Leaves)
  /\ Ascends(positions)
  /\ make_zk => Lists(positions, Opened)
  /\ contents \in Seq(Nat)
  /\ Len(contents) = Len(positions)

\* The nodes of entries.
NodesIn(entries) == [m \in DOMAIN entries |-> entries[m].node]

\* The entries from index i on have the hashes of their nodes.
RightFrom(entries, i) ==
  \A m \in DOMAIN entries : m >= i => entries[m].hash = HashOf[entries[m].node]

\* Two neighbours are one node.
Repeated(entries) ==
  \E i \in DOMAIN entries : i > 1 /\ entries[i].node = entries[i - 1].node

\* The entry of a position and a content.
Entry(p, c) == [node |-> NodeOf(p), hash |-> LeafHash(c, Salt(p))]

\* The opened leaves are leaves.
LEMMA OpenedType ==
  InputsOK => /\ Opened \subseteq Leaves
              /\ positions \in Seq(Nat)
              /\ positions = << >> <=> Opened = {}
              /\ contents = positions <=> \A i \in 1..Len(positions) : contents[i] = positions[i]
<1> SUFFICES ASSUME InputsOK
             PROVE  /\ Opened \subseteq Leaves
                    /\ positions \in Seq(Nat)
                    /\ positions = << >> <=> Opened = {}
                    /\ contents = positions <=> \A i \in 1..Len(positions) : contents[i] = positions[i]
  OBVIOUS
<1> SUFFICES ASSUME NEW p \in Seq(Leaves), p = positions, NEW c \in Seq(Nat), c = contents, Len(c) = Len(p)
             PROVE  /\ ToSet(p) \subseteq Leaves
                    /\ p \in Seq(Nat)
                    /\ p = << >> <=> ToSet(p) = {}
                    /\ c = p <=> \A i \in 1..Len(p) : c[i] = p[i]
  BY Zenon DEF InputsOK, Opened
<1>1. /\ Len(p) \in Nat /\ DOMAIN p = 1..Len(p) /\ \A i \in 1..Len(p) : p[i] \in Leaves
      /\ DOMAIN c = 1..Len(p) /\ \A i \in 1..Len(p) : c[i] \in Nat
  OBVIOUS
<1>2. NumLeaves \in Nat /\ \A i \in Leaves : i \in Nat
  BY PowerOf2Type DEF Leaves
<1>3. p \in Seq(Nat)
  BY <1>1, <1>2
<1>4. p = << >> <=> ToSet(p) = {}
  <2>1. ASSUME p # << >> PROVE ToSet(p) # {}
    <3>1. 1 \in 1..Len(p)
      BY <1>1, <2>1
    <3>2. p[1] \in ToSet(p)
      BY <1>1, <3>1, Zenon DEF ToSet
    <3> QED BY <3>2
  <2>2. ASSUME p = << >> PROVE ToSet(p) = {}
    BY <2>2 DEF ToSet
  <2> QED BY <2>1, <2>2
<1>5. ToSet(p) \subseteq Leaves
  BY <1>1 DEF ToSet
<1>6. ASSUME \A i \in 1..Len(p) : c[i] = p[i] PROVE c = p
  <2>1. c = [i \in 1..Len(p) |-> c[i]] /\ p = [i \in 1..Len(p) |-> p[i]]
    BY <1>3, SeqAsFunction, Zenon
  <2>2. [i \in 1..Len(p) |-> c[i]] = [i \in 1..Len(p) |-> p[i]]
    BY <1>6, Zenon
  <2> QED BY <2>1, <2>2, Zenon
<1> QED BY <1>3, <1>4, <1>5, <1>6

\* The entry of a leaf says which leaf and content it is, and whether the content is right.
LEMMA EntryFacts ==
  ASSUME NEW p \in Leaves, NEW q \in Leaves, NEW c, NEW d
  PROVE  /\ Entry(p, c) = Entry(q, d) <=> p = q /\ c = d
         /\ Entry(p, c).node = NodeOf(p) /\ NodeOf(p) \in Nat
         /\ NodeOf(p) = NodeOf(q) <=> p = q
         /\ p <= q => NodeOf(p) <= NodeOf(q)
         /\ Entry(p, c).hash = HashOf[Entry(p, c).node] <=> c = p
<1>0. NumLeaves \in Nat \ {0} /\ p \in Nat /\ q \in Nat
  BY PowerOf2Type, PowerOf2Equation DEF NumLeaves, Leaves
<1>1. /\ NodeOf(p) \in Nat
      /\ NodeOf(p) = NodeOf(q) <=> p = q
      /\ p <= q => NodeOf(p) <= NodeOf(q)
  BY <1>0 DEF NodeOf
<1>2. Entry(p, c).node = NodeOf(p) /\ Entry(p, c).hash = LeafHash(c, Salt(p))
  BY DEF Entry
<1>3. HashOf[NodeOf(p)] = LeafHash(p, Salt(p))
  BY HashOfEquation
<1>4. Entry(p, c).hash = HashOf[Entry(p, c).node] <=> c = p
  <2>1. LeafHash(c, Salt(p)) = LeafHash(p, Salt(p)) <=> c = p
    BY DEF LeafHash
  <2> QED BY <1>2, <1>3, <2>1, Zenon
<1>5. Entry(p, c) = Entry(q, d) <=> p = q /\ c = d
  <2>1. ASSUME Entry(p, c) = Entry(q, d) PROVE p = q /\ c = d
    <3>1. Entry(q, d).node = NodeOf(q) /\ Entry(q, d).hash = LeafHash(d, Salt(q))
      BY DEF Entry
    <3>2. p = q
      BY <1>1, <1>2, <2>1, <3>1, Zenon
    <3>3. LeafHash(c, Salt(p)) = LeafHash(d, Salt(q))
      BY <1>2, <2>1, <3>1, Zenon
    <3>4. c = d
      BY <3>3 DEF LeafHash
    <3> QED BY <3>2, <3>4
  <2> QED BY <2>1
<1> QED BY <1>1, <1>2, <1>4, <1>5

\* The entries the verifier begins with: those of the positions and contents, repeated
\* exactly when the contents are contradictory, and otherwise a list of the opened leaves.
LEMMA LeafEntriesFacts ==
  ASSUME InputsOK, randomness = Salts(Sorted(Opened)), NEW w, w = LeafEntries
  PROVE  /\ \E A : w \in Seq(A)
         /\ positions = << >> => w = << >>
         /\ Repeated(w) <=> Contradictory
         /\ RightFrom(w, 1) <=> contents = positions
         /\ ~Repeated(w) => Lists(NodesIn(w), Path(Opened, Depth))
<1>0. /\ Opened \subseteq Leaves /\ positions \in Seq(Nat)
      /\ positions = << >> <=> Opened = {}
      /\ contents = positions <=> \A i \in 1..Len(positions) : contents[i] = positions[i]
  BY OpenedType
<1>1. /\ Len(positions) \in Nat /\ DOMAIN positions = 1..Len(positions)
      /\ \A i \in 1..Len(positions) : positions[i] \in Leaves /\ positions[i] \in Opened
  <2>1. positions \in Seq(Leaves)
    BY DEF InputsOK
  <2>2. /\ Len(positions) \in Nat /\ DOMAIN positions = 1..Len(positions)
        /\ \A i \in DOMAIN positions : positions[i] \in Leaves
    BY <2>1, SequenceType
  <2>3. \A i \in DOMAIN positions : positions[i] \in Opened
    BY DEF Opened, ToSet
  <2> QED BY <2>2, <2>3
<1> DEFINE e == [i \in DOMAIN positions |-> Entry(positions[i], contents[i])]
           A == {e[i] : i \in DOMAIN positions}
<1>2. \A i \in 1..Len(positions) : (IF make_zk THEN At(randomness, i) ELSE -1) = Salt(positions[i])
  <2>1. CASE make_zk
    <3>1. Lists(positions, Opened)
      BY <2>1 DEF InputsOK
    <3>2. Opened \subseteq Nodes
      <4>1. Leaves \subseteq Nodes
        BY PowerOf2Type, PowerOf2Equation DEF Leaves, Nodes
      <4> QED BY <1>0, <4>1
    <3>3. Sorted(Opened) = positions
      BY <3>1, <3>2, SortedLists, ListsUnique
    <3>4. randomness = positions
      BY <2>1, <3>3, Zenon DEF Salts
    <3> QED BY <1>1, <2>1, <3>4 DEF At, Salt
  <2>2. CASE ~make_zk
    BY <2>2 DEF Salt
  <2> QED BY <2>1, <2>2
<1>3. w = WithoutAdjacentCopies(e)
  <2>1. [i \in DOMAIN positions |->
           [node |-> NodeOf(positions[i]),
            hash |-> LeafHash(contents[i], IF make_zk THEN At(randomness, i) ELSE -1)]]
          = e
    BY <1>1, <1>2, Zenon DEF Entry
  <2> QED BY <2>1, Zenon DEF LeafEntries
<1>4. /\ DOMAIN e = 1..Len(positions)
      /\ \A i \in 1..Len(positions) : e[i] = Entry(positions[i], contents[i])
  BY <1>1
<1>5. e \in Seq(A) /\ Len(e) = Len(positions)
  <2>1. \A i \in 1..Len(positions) : e[i] \in A
    BY <1>1
  <2> HIDE DEF A
  <2> QED BY <1>1, <2>1
<1> HIDE DEF e, A
<1>6. w \in Seq(A) /\ ToSet(w) = ToSet(e) /\ KeepsNeighbours(w, e)
  BY <1>3, <1>5, CopiesDropped
<1>7. Len(w) \in Nat /\ DOMAIN w = 1..Len(w)
  BY <1>6, SequenceType
<1>8. \A a \in 1..Len(w) : \E i \in 1..Len(positions) : w[a] = e[i]
  <2>1. \A a \in 1..Len(w) : w[a] \in ToSet(e)
    <3>1. \A a \in 1..Len(w) : w[a] \in ToSet(w)
      BY <1>7, Zenon DEF ToSet
    <3> QED BY <1>6, <3>1
  <2> QED BY <1>4, <2>1, Zenon DEF ToSet
<1>9. \A i \in 1..Len(positions) : \E a \in 1..Len(w) : w[a] = e[i]
  <2>1. \A i \in 1..Len(positions) : e[i] \in ToSet(w)
    <3>1. \A i \in 1..Len(positions) : e[i] \in ToSet(e)
      BY <1>4, Zenon DEF ToSet
    <3> QED BY <1>6, <3>1
  <2> QED BY <1>7, <2>1, Zenon DEF ToSet
<1>10. positions = << >> => w = << >>
  <2>1. SUFFICES ASSUME positions = << >> PROVE w = << >>
    OBVIOUS
  <2>2. Len(positions) = 0
    BY <2>1
  <2>3. Len(w) = 0
    BY <1>7, <1>8, <2>2
  <2> QED BY <1>6, <2>3
<1>11. RightFrom(w, 1) <=> contents = positions
  <2>1. ASSUME RightFrom(w, 1), NEW i \in 1..Len(positions) PROVE contents[i] = positions[i]
    <3>1. PICK a \in 1..Len(w) : w[a] = e[i]
      BY <1>9
    <3>2. w[a].hash = HashOf[w[a].node]
      BY <1>7, <2>1 DEF RightFrom
    <3>3. Entry(positions[i], contents[i]).hash = HashOf[Entry(positions[i], contents[i]).node]
      BY <1>4, <3>1, <3>2, Zenon
    <3> QED BY <1>1, <3>3, EntryFacts
  <2>2. ASSUME \A i \in 1..Len(positions) : contents[i] = positions[i], NEW a \in 1..Len(w)
        PROVE  w[a].hash = HashOf[w[a].node]
    <3>1. PICK i \in 1..Len(positions) : w[a] = e[i]
      BY <1>8
    <3>2. Entry(positions[i], contents[i]).hash = HashOf[Entry(positions[i], contents[i]).node]
      BY <1>1, <2>2, EntryFacts
    <3> QED BY <1>4, <3>1, <3>2, Zenon
  <2> QED BY <1>0, <1>7, <2>1, <2>2 DEF RightFrom
<1>12. ASSUME Repeated(w) PROVE Contradictory
  <2>1. PICK b \in DOMAIN w : b > 1 /\ w[b].node = w[b - 1].node
    BY <1>12 DEF Repeated
  <2>2. b \in 1..Len(w) /\ b - 1 \in 1..Len(w) /\ b = (b - 1) + 1
    BY <1>7, <2>1
  <2>3. PICK k \in 2..Len(e) : w[b - 1] = e[k - 1] /\ w[b] = e[k] /\ e[k] # e[k - 1]
    BY <1>6, <2>2, Zenon DEF KeepsNeighbours
  <2>4. k \in 1..Len(positions) /\ k - 1 \in 1..Len(positions)
    BY <1>1, <1>5
  <2> DEFINE p == positions[k]
             q == positions[k - 1]
  <2>5. p \in Leaves /\ q \in Leaves /\ e[k] = Entry(p, contents[k]) /\ e[k - 1] = Entry(q, contents[k - 1])
    BY <1>1, <1>4, <2>4
  <2> HIDE DEF p, q
  <2>6. e[k].node = NodeOf(p) /\ e[k - 1].node = NodeOf(q)
    BY <2>5, EntryFacts
  <2>7. p = q
    <3>1. NodeOf(p) = NodeOf(q)
      BY <2>1, <2>3, <2>6, Zenon
    <3> QED BY <2>5, <3>1, EntryFacts
  <2>8. contents[k] # contents[k - 1]
    BY <2>3, <2>5, <2>7, Zenon
  <2> QED BY <1>1, <2>4, <2>7, <2>8 DEF Contradictory, p, q
<1>13. ASSUME ~Repeated(w) PROVE Lists(NodesIn(w), Path(Opened, Depth)) /\ ~Contradictory
  <2> DEFINE v == NodesIn(w)
  <2>1. Len(v) = Len(w) /\ DOMAIN v = 1..Len(w) /\ \A a \in 1..Len(w) : v[a] = w[a].node
    BY <1>7 DEF NodesIn
  <2>2. ASSUME NEW a \in 1..Len(w)
        PROVE  \E i \in 1..Len(positions) : w[a] = e[i] /\ v[a] = NodeOf(positions[i]) /\ v[a] \in Nat
    <3>1. PICK i \in 1..Len(positions) : w[a] = e[i]
      BY <1>8
    <3>2. e[i] = Entry(positions[i], contents[i]) /\ positions[i] \in Leaves
      BY <1>1, <1>4
    <3>3. Entry(positions[i], contents[i]).node = NodeOf(positions[i]) /\ NodeOf(positions[i]) \in Nat
      BY <3>2, EntryFacts
    <3>4. v[a] = NodeOf(positions[i])
      BY <2>1, <3>1, <3>2, <3>3, Zenon
    <3> QED BY <3>1, <3>3, <3>4
  <2>3. v \in Seq(Nat)
    <3>1. \A a \in 1..Len(w) : v[a] \in Nat
      BY <2>2
    <3>2. v = [a \in 1..Len(w) |-> v[a]]
      BY <1>7 DEF NodesIn
    <3> HIDE DEF v
    <3>3. [a \in 1..Len(w) |-> v[a]] \in Seq(Nat)
      BY <1>7, <3>1
    <3> QED BY <3>2, <3>3, Zenon
  <2> HIDE DEF v
  <2>4. ToSet(v) = Path(Opened, Depth)
    <3>1. Path(Opened, Depth) = {NodeOf(i) : i \in Opened}
      BY <1>0, PathFacts
    <3>2. ToSet(v) = {v[a] : a \in 1..Len(w)}
      BY <2>1, Zenon DEF ToSet
    <3>3. \A a \in 1..Len(w) : v[a] \in {NodeOf(i) : i \in Opened}
      <4>1. SUFFICES ASSUME NEW a \in 1..Len(w) PROVE v[a] \in {NodeOf(i) : i \in Opened}
        OBVIOUS
      <4>2. PICK i \in 1..Len(positions) : v[a] = NodeOf(positions[i])
        BY <2>2
      <4> QED BY <1>1, <4>2
    <3>4. \A j \in Opened : NodeOf(j) \in {v[a] : a \in 1..Len(w)}
      <4>1. SUFFICES ASSUME NEW j \in Opened PROVE NodeOf(j) \in {v[a] : a \in 1..Len(w)}
        OBVIOUS
      <4>2. PICK i \in 1..Len(positions) : positions[i] = j
        BY <1>1, Zenon DEF Opened, ToSet
      <4>3. PICK a \in 1..Len(w) : w[a] = e[i]
        BY <1>9
      <4>4. e[i].node = NodeOf(j)
        <5>1. e[i] = Entry(j, contents[i]) /\ j \in Leaves
          BY <1>1, <1>4, <4>2
        <5> QED BY <5>1, EntryFacts
      <4>5. v[a] = NodeOf(j)
        BY <2>1, <4>3, <4>4, Zenon
      <4> QED BY <4>5
    <3> QED BY <3>1, <3>2, <3>3, <3>4
  <2>5. ASSUME NEW a \in 1..Len(v), NEW b \in 1..Len(v), b = a + 1 PROVE v[a] < v[b]
    <3>1. a \in 1..Len(w) /\ b \in 1..Len(w) /\ b > 1 /\ b - 1 = a
      BY <1>7, <2>1, <2>5
    <3>2. PICK k \in 2..Len(e) : w[a] = e[k - 1] /\ w[b] = e[k] /\ e[k] # e[k - 1]
      BY <1>6, <2>5, <3>1, Zenon DEF KeepsNeighbours
    <3>3. k \in 1..Len(positions) /\ k - 1 \in 1..Len(positions) /\ k - 1 < k
      BY <1>1, <1>5
    <3> DEFINE p == positions[k - 1]
               q == positions[k]
    <3>4. p \in Leaves /\ q \in Leaves /\ e[k] = Entry(q, contents[k]) /\ e[k - 1] = Entry(p, contents[k - 1])
      BY <1>1, <1>4, <3>3
    <3>5. p <= q
      BY <1>1, <3>3, Zenon DEF InputsOK, Ascends
    <3> HIDE DEF p, q
    <3>6. e[k].node = NodeOf(q) /\ e[k - 1].node = NodeOf(p)
      BY <3>4, EntryFacts
    <3>7. v[a] = NodeOf(p) /\ v[b] = NodeOf(q)
      BY <2>1, <3>1, <3>2, <3>6, Zenon
    <3>8. NodeOf(p) <= NodeOf(q) /\ NodeOf(p) \in Nat /\ NodeOf(q) \in Nat
      BY <3>4, <3>5, EntryFacts
    <3>9. v[a] # v[b]
      <4>1. w[b].node # w[b - 1].node
        BY <1>7, <1>13, <3>1, Zenon DEF Repeated
      <4> QED BY <2>1, <3>1, <4>1, Zenon
    <3> QED BY <3>7, <3>8, <3>9
  <2>6. Lists(v, Path(Opened, Depth))
    BY <2>3, <2>4, <2>5, NeighboursAscend
  <2>7. ~Contradictory
    <3>1. SUFFICES ASSUME NEW i \in 1..Len(positions), NEW j \in 1..Len(positions),
                          positions[i] = positions[j]
                   PROVE  contents[i] = contents[j]
      BY <1>1, Zenon DEF Contradictory
    <3>2. PICK a \in 1..Len(w) : w[a] = e[i]
      BY <1>9
    <3>3. PICK b \in 1..Len(w) : w[b] = e[j]
      BY <1>9
    <3> DEFINE p == positions[i]
    <3>4. p \in Leaves /\ e[i] = Entry(p, contents[i]) /\ e[j] = Entry(p, contents[j])
      BY <1>1, <1>4, <3>1
    <3> HIDE DEF p
    <3>5. e[i].node = NodeOf(p) /\ e[j].node = NodeOf(p)
      BY <3>4, EntryFacts
    <3>6. v[a] = v[b]
      BY <2>1, <3>2, <3>3, <3>5, Zenon
    <3>7. a = b
      <4>1. \A x, y \in 1..Len(v) : x < y => v[x] < v[y]
        BY <2>6, ListsType
      <4>2. a \in 1..Len(v) /\ b \in 1..Len(v) /\ v[a] \in Nat /\ v[b] \in Nat
        BY <2>1, <2>3
      <4>3. ~(a < b) /\ ~(b < a)
        BY <3>6, <4>1, <4>2
      <4> QED BY <1>7, <4>3
    <3>8. Entry(p, contents[i]) = Entry(p, contents[j])
      BY <3>2, <3>3, <3>4, <3>7, Zenon
    <3> QED BY <3>4, <3>8, EntryFacts
  <2> QED BY <2>6, <2>7 DEF v
<1>14. \E B : w \in Seq(B)
  BY <1>6, Zenon
<1> QED BY <1>10, <1>11, <1>12, <1>13, <1>14

-----------------------------------------------------------------------------
(***************************************************************************)
(* The inductive invariant.                                                *)
(***************************************************************************)
\* The hashes of a sequence of nodes.
Hashes(q) == [m \in DOMAIN q |-> HashOf[q[m]]]

\* While the tree is constructed, the layers below the one at hand are done.
Constructing ==
  phase = "construct" =>
    /\ \E d \in 0..(Depth - 1) : n = PowerOf2[d] - 1
    /\ \A j \in Nodes : j > 2 * n => inner_nodes[j] = HashOf[j]

\* A tree that is constructed is complete.
Constructed ==
  phase # "construct" => n = 0 /\ inner_nodes = HashOf

\* Before the proof is begun, nothing is known of it.
Waiting ==
  phase \in {"construct", "open"} => aux = << >>

\* Nothing of the proof is taken before the validation.
NothingTaken ==
  phase \in {"construct", "open", "prove", "proved"} => aux_it = 0 /\ num_hashes = 0

\* Before and between the loops, there is no layer.
LoopIsReset ==
  phase \in {"construct", "open", "proved"} => S = << >> /\ new_S = << >> /\ it = 1

\* The loop over the layers of the proof.
ProvingLayer(d, t) ==
  /\ LoopAt(Opened, d, S, new_S, it, t)
  /\ t \in Seq(Nat)
  /\ aux = Hashes(Upwards(Opened, d) \o t)

Proving ==
  phase = "prove" => Opened # {} /\ \E d, t : ProvingLayer(d, t)

\* The proof is what is needed of all layers.
Proved ==
  phase \in {"proved", "validate"} \union Outcomes => aux = Hashes(Upwards(Opened, 0))

\* The salts of the proof are those of the opened leaves.
SaltsOpened ==
  phase \in {"prove", "proved"} => randomness = Salts(Sorted(Opened))

\* The loop over the layers of the validation: it has taken what the proof put into it,
\* computed what is counted, and every hash is right exactly when all contents are.
ValidatingLayer(d, t) ==
  /\ LoopAt(Opened, d, NodesIn(S), NodesIn(new_S), it, t)
  /\ t \in Seq(Nat)
  /\ aux_it = Len(Upwards(Opened, d)) + Len(t)
  /\ num_hashes = HashesUpTo(positions)[Depth - d] + Len(new_S)
  /\ contents = positions <=> RightFrom(new_S, 1) /\ RightFrom(S, it)

Validating ==
  phase = "validate" =>
    /\ Opened # {}
    /\ ~Contradictory
    /\ (\E A : S \in Seq(A)) /\ (\E A : new_S \in Seq(A))
    /\ \E d, t : ValidatingLayer(d, t)

\* The outcome, and the index as the loop left it.
Outcome ==
  phase \in Outcomes =>
    /\ phase = IF contents = positions THEN "valid"
               ELSE IF Contradictory THEN "exception" ELSE "invalid"
    /\ phase # "exception" => num_hashes = HashesUpTo(positions)[Depth]
    /\ it \in 1..(Len(S) + 1)
    /\ aux_it \in Nat /\ num_hashes \in Nat
    /\ aux_it <= Len(aux)

PhaseOK ==
  /\ phase \in {"construct", "open", "prove", "proved", "validate"} \union Outcomes
  /\ DOMAIN inner_nodes = Nodes

MInv ==
  /\ PhaseOK /\ InputsOK
  /\ Constructing /\ Constructed
  /\ Waiting /\ NothingTaken /\ LoopIsReset
  /\ Proving /\ Proved /\ SaltsOpened
  /\ Validating /\ Outcome

\* Positions whose neighbours ascend ascend.
LEMMA NeighboursInOrder ==
  ASSUME NEW v \in Seq(Nat), \A i \in 1..(Len(v) - 1) : v[i] <= v[i + 1]
  PROVE  Ascends(v)
<1>0. Len(v) \in Nat /\ DOMAIN v = 1..Len(v) /\ \A i \in 1..Len(v) : v[i] \in Nat
  OBVIOUS
<1> DEFINE N == {k \in Nat : \A i \in 1..Len(v) : i + k \in 1..Len(v) => v[i] <= v[i + k]}
<1>1. 0 \in N
  <2>1. \A i \in 1..Len(v) : i + 0 = i /\ v[i] <= v[i]
    BY <1>0
  <2> QED BY <2>1
<1>2. ASSUME NEW k \in Nat, k \in N PROVE k + 1 \in N
  <2>1. SUFFICES ASSUME NEW i \in 1..Len(v), i + (k + 1) \in 1..Len(v)
                 PROVE  v[i] <= v[i + (k + 1)]
    OBVIOUS
  <2> DEFINE j == i + k
  <2>2. j \in 1..Len(v) /\ i + (k + 1) = j + 1 /\ j + 1 \in 1..Len(v) /\ j \in 1..(Len(v) - 1)
    BY <1>0, <2>1
  <2>3. v[i] <= v[j]
    BY <1>2, <2>2
  <2> HIDE DEF j
  <2>4. v[j] <= v[j + 1]
    BY <2>2
  <2>5. v[i] \in Nat /\ v[j] \in Nat /\ v[j + 1] \in Nat
    BY <1>0, <2>2
  <2>6. v[i] <= v[j + 1]
    BY <2>3, <2>4, <2>5
  <2> QED BY <2>2, <2>6
<1> HIDE DEF N
<1>3. Nat \subseteq N
  BY <1>1, <1>2, NatSetInduction
<1>4. ASSUME NEW i \in 1..Len(v), NEW j \in 1..Len(v), i < j PROVE v[i] <= v[j]
  <2>1. j - i \in Nat /\ i + (j - i) = j
    BY <1>0, <1>4
  <2>2. j - i \in N
    BY <1>3, <2>1
  <2> QED BY <2>1, <2>2 DEF N
<1> QED BY <1>0, <1>4 DEF Ascends

\* The invariant holds at first.
LEMMA MInvInit == Init => MInv
<1> SUFFICES ASSUME Init PROVE MInv
  OBVIOUS
<1>0. /\ Depth \in Nat \ {0} /\ NumLeaves \in Nat \ {0} /\ NumLeaves = 2 * PowerOf2[Depth - 1]
      /\ PowerOf2[Depth - 1] \in Nat \ {0} /\ Depth - 1 \in 0..(Depth - 1)
  <2>1. Depth \in Nat \ {0}
    BY PowerOf2Equation
  <2>2. Depth \in 0..Depth /\ Depth - 1 \in 0..Depth /\ Depth - 1 \in 0..(Depth - 1)
    BY <2>1
  <2> QED BY <2>1, <2>2, PowerOf2Type DEF NumLeaves
<1>1. PhaseOK
  BY DEF Init, PhaseOK
<1>2. positions \in Seq(Leaves) /\ Ascends(positions) /\ (make_zk => Lists(positions, Opened))
  <2>1. CASE positions \in {Sorted(P) : P \in SUBSET Leaves}
    <3>1. PICK P \in SUBSET Leaves : positions = Sorted(P)
      BY <2>1
    <3>2. Leaves \subseteq Nodes
      BY <1>0 DEF Leaves, Nodes
    <3>3. Lists(positions, P)
      <4>1. P \subseteq Nodes
        BY <3>2
      <4> QED BY <3>1, <4>1, SortedLists
    <3>4. /\ positions \in Seq(Nat) /\ Len(positions) \in Nat /\ DOMAIN positions = 1..Len(positions)
          /\ \A i \in 1..Len(positions) : positions[i] \in Nat /\ positions[i] \in P
          /\ \A i, j \in 1..Len(positions) : i < j => positions[i] < positions[j]
      BY <3>3, ListsType
    <3>5. P = Opened
      BY <3>3, Zenon DEF Lists, Opened
    <3>6. positions \in Seq(Leaves)
      <4>1. \A i \in 1..Len(positions) : positions[i] \in Leaves
        BY <3>4
      <4>2. positions = [i \in 1..Len(positions) |-> positions[i]]
        BY <3>4, SeqAsFunction
      <4>3. [i \in 1..Len(positions) |-> positions[i]] \in Seq(Leaves)
        BY <3>4, <4>1
      <4> QED BY <4>2, <4>3, Zenon
    <3>7. Ascends(positions)
      <4>1. \A i, j \in 1..Len(positions) : i < j => positions[i] <= positions[j]
        BY <3>4
      <4> QED BY <3>4, <4>1, Zenon DEF Ascends
    <3> QED BY <3>3, <3>5, <3>6, <3>7, Zenon
  <2>2. CASE ~make_zk /\ positions \in WithRepetitions
    <3>1. /\ positions \in UNION {[1..k -> Leaves] : k \in 0..MaxRepeated}
          /\ \A i \in 1..(Len(positions) - 1) : positions[i] <= positions[i + 1]
      BY <2>2, Zenon DEF WithRepetitions
    <3>2. PICK k \in 0..MaxRepeated : positions \in [1..k -> Leaves]
      BY <3>1
    <3>3. positions \in Seq(Leaves) /\ positions \in Seq(Nat)
      <4>1. k \in Nat
        BY MerkleAssumption
      <4>2. \A i \in Leaves : i \in Nat
        BY <1>0 DEF Leaves
      <4> QED BY <3>2, <4>1, <4>2
    <3>4. Ascends(positions)
      BY <3>1, <3>3, NeighboursInOrder
    <3> QED BY <2>2, <3>3, <3>4
  <2>3. positions \in InputPositions
    BY DEF Init
  <2> QED BY <2>1, <2>2, <2>3 DEF InputPositions
<1>3. contents \in Seq(Nat) /\ Len(contents) = Len(positions)
  <2>1. Len(positions) \in Nat /\ DOMAIN positions = 1..Len(positions) /\ positions \in Seq(Nat)
    <3>1. \A i \in Leaves : i \in Nat
      BY <1>0 DEF Leaves
    <3>2. Len(positions) \in Nat /\ DOMAIN positions = 1..Len(positions)
          /\ \A i \in DOMAIN positions : positions[i] \in Leaves
      BY <1>2, SequenceType
    <3> QED BY <1>2, <3>1, <3>2
  <2>2. CASE contents = positions
    BY <2>1, <2>2
  <2>3. CASE \E i \in DOMAIN positions : contents = [positions EXCEPT ![i] = WrongContent]
    <3>1. WrongContent \in Nat
      BY <1>0 DEF WrongContent
    <3> QED BY <2>1, <2>3, <3>1
  <2>4. contents \in {positions} \union {[positions EXCEPT ![i] = WrongContent] : i \in DOMAIN positions}
    BY DEF Init
  <2> QED BY <2>2, <2>3, <2>4
<1>4. InputsOK
  <2>1. make_zk \in BOOLEAN
    BY DEF Init
  <2> QED BY <1>2, <1>3, <2>1 DEF InputsOK
<1>5. Constructing
  <2>1. n = PowerOf2[Depth - 1] - 1
    <3>1. n = (NumLeaves - 1) \div 2
      BY DEF Init
    <3> QED BY <1>0, <3>1
  <2>2. ASSUME NEW j \in Nodes, j > 2 * n PROVE inner_nodes[j] = HashOf[j]
    <3>1. j \in Nat /\ j >= NumLeaves - 1 /\ j - (NumLeaves - 1) \in Leaves
      BY <1>0, <2>1, <2>2 DEF Nodes, Leaves
    <3> DEFINE i == j - (NumLeaves - 1)
    <3>2. inner_nodes[j] = LeafHash(i, Salt(i))
      <4>1. inner_nodes = [k \in Nodes |->
                      IF k < NumLeaves - 1 THEN Garbage
                      ELSE LeafHash(k - (NumLeaves - 1), Salt(k - (NumLeaves - 1)))]
        BY Zenon DEF Init
      <4>2. ~(j < NumLeaves - 1)
        BY <1>0, <3>1
      <4> QED BY <4>1, <4>2, Zenon
    <3>3. NodeOf(i) = j
      BY <1>0, <3>1 DEF NodeOf
    <3>4. HashOf[NodeOf(i)] = LeafHash(i, Salt(i))
      BY <3>1, HashOfEquation
    <3> QED BY <3>2, <3>3, <3>4, Zenon
  <2> QED BY <1>0, <2>1, <2>2, Zenon DEF Constructing
<1>6. Constructed /\ Waiting /\ NothingTaken /\ LoopIsReset /\ Proving /\ Proved /\ SaltsOpened
      /\ Validating /\ Outcome
  <2>1. phase = "construct" /\ S = << >> /\ new_S = << >> /\ it = 1 /\ aux = << >>
        /\ aux_it = 0 /\ num_hashes = 0
    BY DEF Init
  <2> QED BY <2>1 DEF Constructed, Waiting, NothingTaken, LoopIsReset, Proving, Proved, SaltsOpened,
                      Validating, Outcome, Outcomes
<1> QED BY <1>1, <1>4, <1>5, <1>6 DEF MInv

-----------------------------------------------------------------------------
(***************************************************************************)
(* The steps.                                                              *)
(***************************************************************************)
\* What depends on the inputs only stays as it is.
LEMMA InputsKept ==
  UNCHANGED inputVars =>
    /\ HashOf' = HashOf
    /\ Opened' = Opened
    /\ Contradictory' <=> Contradictory
    /\ InputsOK' <=> InputsOK
<1> SUFFICES ASSUME make_zk' = make_zk, positions' = positions, contents' = contents
             PROVE  /\ HashOf' = HashOf
                    /\ Opened' = Opened
                    /\ Contradictory' <=> Contradictory
                    /\ InputsOK' <=> InputsOK
  BY DEF inputVars
<1>1. HashOf' = HashOf
  BY DEF HashOf, Salt
<1>2. Opened' = Opened
  BY DEF Opened
<1>3. Contradictory' <=> Contradictory
  BY DEF Contradictory
<1>4. InputsOK' <=> InputsOK
  BY <1>2 DEF InputsOK
<1> QED BY <1>1, <1>2, <1>3, <1>4

\* A layer of the tree is hashed.
LEMMA ConstructLayerKeeps == MInv /\ ConstructLayer => MInv'
<1> SUFFICES ASSUME MInv, ConstructLayer PROVE MInv'
  OBVIOUS
<1>0. /\ PhaseOK /\ InputsOK /\ Constructing /\ Waiting /\ NothingTaken /\ LoopIsReset
      /\ phase = "construct" /\ n' = n \div 2
      /\ phase' = (IF n > 0 THEN "construct" ELSE "open")
      /\ UNCHANGED <<inputVars, loopVars, aux, randomness, aux_it, num_hashes>>
  BY DEF MInv, ConstructLayer
<1>1. HashOf' = HashOf /\ InputsOK'
  BY <1>0, InputsKept
<1>2. PICK d \in 0..(Depth - 1) : n = PowerOf2[d] - 1
  BY <1>0 DEF Constructing
<1> DEFINE p == PowerOf2[d]
<1>3. /\ Depth \in Nat /\ NumLeaves \in Nat /\ d \in 0..Depth /\ d + 1 \in 1..Depth /\ (d + 1) - 1 = d
      /\ p \in Nat \ {0} /\ 2 * p <= NumLeaves
  <2>1. Depth \in Nat /\ d \in 0..Depth /\ d + 1 \in 1..Depth /\ d + 1 \in 0..Depth /\ (d + 1) - 1 = d
    BY PowerOf2Equation
  <2>2. PowerOf2[d + 1] = 2 * p /\ PowerOf2[d + 1] <= NumLeaves /\ p \in Nat \ {0} /\ NumLeaves \in Nat
    BY <2>1, PowerOf2Equation, PowerOf2Type
  <2> QED BY <2>1, <2>2
<1> HIDE DEF p
<1>4. n = p - 1
  BY <1>2 DEF p
<1>5. \A j \in Nodes :
        inner_nodes'[j] = IF j \in Layer THEN NodeHash(inner_nodes[2 * j + 1], inner_nodes[2 * j + 2])
                          ELSE inner_nodes[j]
  BY Zenon DEF ConstructLayer
<1>6. ASSUME NEW j \in Nodes, j >= n PROVE inner_nodes'[j] = HashOf[j]
  <2>1. CASE j \in Layer
    <3>1. /\ 2 * j + 1 \in Nodes /\ 2 * j + 1 > 2 * n
          /\ 2 * j + 2 \in Nodes /\ 2 * j + 2 > 2 * n
          /\ j < NumLeaves - 1
      BY <1>3, <1>4, <1>6, <2>1 DEF Layer, Nodes
    <3>2. inner_nodes[2 * j + 1] = HashOf[2 * j + 1] /\ inner_nodes[2 * j + 2] = HashOf[2 * j + 2]
      BY <1>0, <3>1 DEF Constructing
    <3>3. HashOf[j] = NodeHash(HashOf[2 * j + 1], HashOf[2 * j + 2])
      BY <3>1, HashOfEquation
    <3> QED BY <1>5, <2>1, <3>2, <3>3, Zenon
  <2>2. CASE j \notin Layer
    <3>1. j > 2 * n
      BY <1>3, <1>4, <1>6, <2>2 DEF Layer, Nodes
    <3>2. inner_nodes[j] = HashOf[j]
      BY <1>0, <3>1 DEF Constructing
    <3> QED BY <1>5, <2>2, <3>2, Zenon
  <2> QED BY <2>1, <2>2
<1>7. Constructing'
  <2>1. SUFFICES ASSUME n > 0
                 PROVE  /\ \E e \in 0..(Depth - 1) : n' = PowerOf2[e] - 1
                        /\ \A j \in Nodes : j > 2 * n' => inner_nodes'[j] = HashOf'[j]
    BY <1>0, Zenon DEF Constructing
  <2>2. d # 0 /\ d \in 1..Depth /\ d - 1 \in 0..(Depth - 1)
    <3>1. d # 0
      BY <1>3, <1>4, <2>1, PowerOf2Equation DEF p
    <3> QED BY <1>3, <3>1
  <2> DEFINE q == PowerOf2[d - 1]
  <2>3. p = 2 * q /\ q \in Nat \ {0}
    <3>1. d - 1 \in 0..Depth
      BY <1>3, <2>2
    <3> QED BY <2>2, <3>1, PowerOf2Equation, PowerOf2Type DEF p
  <2>4. n' = q - 1
    <3> HIDE DEF q
    <3>1. (2 * q - 1) \div 2 = q - 1
      BY <2>3
    <3> QED BY <1>0, <1>4, <2>3, <3>1
  <2>5. ASSUME NEW j \in Nodes, j > 2 * n' PROVE inner_nodes'[j] = HashOf'[j]
    <3> HIDE DEF q
    <3>1. j >= n
      BY <1>3, <1>4, <2>3, <2>4, <2>5 DEF Nodes
    <3> QED BY <1>1, <1>6, <3>1
  <2> QED BY <2>2, <2>4, <2>5
<1>8. Constructed'
  <2>1. SUFFICES ASSUME ~(n > 0) PROVE n' = 0 /\ inner_nodes' = HashOf'
    BY <1>0, Zenon DEF Constructed
  <2>2. n = 0 /\ n' = 0
    <3>1. n = 0
      BY <1>3, <1>4, <2>1
    <3> QED BY <1>0, <3>1
  <2>3. \A j \in Nodes : j >= n
    BY <1>3, <2>2 DEF Nodes
  <2>4. \A j \in Nodes : inner_nodes'[j] = HashOf[j]
    BY <1>6, <2>3
  <2>5. inner_nodes' = [j \in Nodes |-> inner_nodes'[j]]
    BY Zenon DEF ConstructLayer
  <2>6. HashOf = [j \in Nodes |-> HashOf[j]]
    <3>1. Hashing(HashOf)
      BY HashingExists, Zenon DEF Hashing, HashOf
    <3> QED BY <3>1, Zenon DEF Hashing
  <2>7. [j \in Nodes |-> inner_nodes'[j]] = [j \in Nodes |-> HashOf[j]]
    BY <2>4, Zenon
  <2>8. inner_nodes' = HashOf
    BY <2>5, <2>6, <2>7, Zenon
  <2> QED BY <1>1, <2>2, <2>8
<1>9. PhaseOK'
  <2>1. DOMAIN inner_nodes' = Nodes
    BY Zenon DEF ConstructLayer
  <2> QED BY <1>0, <2>1 DEF PhaseOK
<1>10. phase' \in {"construct", "open"} /\ S' = S /\ new_S' = new_S /\ it' = it /\ aux' = aux
       /\ aux_it' = aux_it /\ num_hashes' = num_hashes
  BY <1>0 DEF loopVars
<1>11. Waiting' /\ NothingTaken' /\ LoopIsReset'
  BY <1>0, <1>10 DEF Waiting, NothingTaken, LoopIsReset
<1>12. Proving' /\ Proved' /\ SaltsOpened' /\ Validating' /\ Outcome'
  <2>1. phase' \notin {"prove", "proved", "validate"} \union Outcomes
    BY <1>10 DEF Outcomes
  <2> QED BY <2>1 DEF Proving, Proved, SaltsOpened, Validating, Outcome
<1> QED BY <1>1, <1>7, <1>8, <1>9, <1>11, <1>12 DEF MInv

\* Before the first entry of a layer, nothing is known.
LEMMA LoopAtFirst ==
  ASSUME NEW L, NEW d, NEW s, NEW up, NEW t, LoopAt(L, d, s, up, 1, t)
  PROVE  up = << >> /\ t = << >>
<1>1. {Parent(s[k]) : k \in 1..(1 - 1)} = {} /\ {Sibling(s[k]) : k \in 1..(1 - 1)} \ Path(L, d) = {}
  OBVIOUS
<1>2. Lists(up, {Parent(s[k]) : k \in 1..(1 - 1)})
  BY Zenon DEF LoopAt
<1>3. Lists(t, {Sibling(s[k]) : k \in 1..(1 - 1)} \ Path(L, d))
  BY Zenon DEF LoopAt
<1>4. Lists(up, {}) /\ Lists(t, {})
  BY <1>1, <1>2, <1>3, Zenon
<1> QED BY <1>4, ListsEmpty

\* The proof is begun at the opened leaves.
LEMMA BeginProofKeeps == MInv /\ BeginProof => MInv'
<1> SUFFICES ASSUME MInv, BeginProof PROVE MInv'
  OBVIOUS
<1>0. /\ PhaseOK /\ InputsOK /\ Constructed /\ Waiting /\ NothingTaken /\ LoopIsReset
      /\ phase = "open"
      /\ phase' = (IF positions = << >> THEN "proved" ELSE "prove")
      /\ UNCHANGED <<treeVars, inputVars, new_S, it, aux, aux_it, num_hashes>>
  BY DEF MInv, BeginProof
<1> DEFINE sorted == Sorted(Opened)
<1>1. S' = [i \in DOMAIN sorted |-> NodeOf(sorted[i])] /\ randomness' = Salts(sorted)
  BY Zenon DEF BeginProof, Opened
<1>2. HashOf' = HashOf /\ Opened' = Opened /\ InputsOK' /\ make_zk' = make_zk /\ positions' = positions
  <2>1. UNCHANGED inputVars
    BY <1>0
  <2> QED BY <1>0, <2>1, InputsKept DEF inputVars
<1>3. /\ Opened \subseteq Leaves
      /\ positions = << >> <=> Opened = {}
  BY <1>0, OpenedType
<1>4. Lists(sorted, Opened)
  <2>1. Leaves \subseteq Nodes
    BY PowerOf2Type, PowerOf2Equation DEF Leaves, Nodes
  <2>2. Opened \subseteq Nodes
    BY <1>3, <2>1
  <2> QED BY <2>2, SortedLists
<1> HIDE DEF sorted
<1>5. Lists(S', Path(Opened, Depth))
  <2> SUFFICES ASSUME NEW s, s = [i \in DOMAIN sorted |-> NodeOf(sorted[i])]
               PROVE  Lists(s, Path(Opened, Depth))
    BY <1>1, Zenon
  <2>1. /\ Len(sorted) \in Nat /\ DOMAIN sorted = 1..Len(sorted)
        /\ \A i \in 1..Len(sorted) : sorted[i] \in Nat /\ sorted[i] \in Opened
        /\ \A i, j \in 1..Len(sorted) : i < j => sorted[i] < sorted[j]
        /\ \A x \in Opened : \E i \in 1..Len(sorted) : sorted[i] = x
    BY <1>4, ListsType
  <2>2. NumLeaves \in Nat \ {0}
    BY PowerOf2Type, PowerOf2Equation DEF NumLeaves
  <2>3. /\ DOMAIN s = 1..Len(sorted)
        /\ \A i \in 1..Len(sorted) : s[i] = NodeOf(sorted[i]) /\ s[i] = NumLeaves - 1 + sorted[i]
    BY <2>1, Zenon DEF NodeOf
  <2>4. s \in Seq(Nat)
    <3>1. \A i \in 1..Len(sorted) : s[i] \in Nat
      BY <2>1, <2>2, <2>3
    <3>2. s = [i \in 1..Len(sorted) |-> s[i]]
      BY <2>1
    <3>3. [i \in 1..Len(sorted) |-> s[i]] \in Seq(Nat)
      BY <2>1, <3>1
    <3> QED BY <3>2, <3>3, Zenon
  <2>5. \A i, j \in DOMAIN s : i < j => s[i] < s[j]
    BY <2>1, <2>2, <2>3
  <2>6. ToSet(s) = {NodeOf(i) : i \in Opened}
    <3>1. ToSet(s) = {NodeOf(sorted[i]) : i \in 1..Len(sorted)}
      BY <2>3, Zenon DEF ToSet
    <3> QED BY <2>1, <3>1
  <2>7. Path(Opened, Depth) = {NodeOf(i) : i \in Opened}
    BY <1>3, PathFacts
  <2> QED BY <2>4, <2>5, <2>6, <2>7 DEF Lists
<1>6. Depth \in Nat \ {0} /\ Depth \in 0..Depth
  BY PowerOf2Equation
<1>7. Proving'
  <2>1. SUFFICES ASSUME phase' = "prove" PROVE Opened # {} /\ \E d, t : ProvingLayer(d, t)'
    BY <1>2 DEF Proving
  <2>2. Opened # {}
    BY <1>0, <1>3, <2>1
  <2>3. LoopAt(Opened, Depth, S', << >>, 1, << >>)
    BY <1>5, <1>6, LoopBegins
  <2>4. new_S' = << >> /\ it' = 1 /\ aux' = << >>
    BY <1>0 DEF LoopIsReset, Waiting
  <2>5. Upwards(Opened, Depth) \o << >> = << >>
    <3>1. Upwards(Opened, Depth) = << >>
      BY <1>3, UpwardsFacts
    <3> QED BY <3>1
  <2>6. Hashes(<< >>)' = << >>
    BY DEF Hashes
  <2>7. aux' = Hashes(Upwards(Opened, Depth) \o << >>)'
    BY <1>2, <2>4, <2>5, <2>6, Zenon DEF Hashes
  <2>8. << >> \in Seq(Nat)
    OBVIOUS
  <2>9. ProvingLayer(Depth, << >>)'
    BY <1>2, <2>3, <2>4, <2>7, <2>8, Zenon DEF ProvingLayer
  <2> QED BY <2>2, <2>9, Zenon
<1>8. Proved'
  <2>1. SUFFICES ASSUME phase' # "prove" PROVE aux' = Hashes(Upwards(Opened, 0))'
    <3>1. phase' = "prove" => phase' \notin {"proved", "validate"} \union Outcomes
      BY DEF Outcomes
    <3> QED BY <1>2, <3>1, Zenon DEF Proved
  <2>2. Opened = {}
    BY <1>0, <1>3, <2>1
  <2>3. Upwards(Opened, 0) = << >>
    BY <2>2, NothingNeeded
  <2>4. Hashes(Upwards(Opened, 0))' = << >>
    BY <1>2, <2>3 DEF Hashes
  <2>5. aux' = << >>
    BY <1>0 DEF Waiting
  <2> QED BY <2>4, <2>5
<1>9. Constructing' /\ Constructed'
  BY <1>0, <1>2 DEF Constructing, Constructed, treeVars
<1>10. SaltsOpened'
  <2>1. Salts(Sorted(Opened))' = Salts(Sorted(Opened))
    BY <1>2 DEF Salts
  <2> QED BY <1>1, <2>1 DEF SaltsOpened, sorted
<1>11. PhaseOK' /\ NothingTaken' /\ LoopIsReset' /\ Waiting' /\ Validating' /\ Outcome'
  <2>1. phase' \in {"prove", "proved"} /\ phase' \notin Outcomes
    BY <1>0 DEF Outcomes
  <2>2. phase' = "proved" => S' = << >>
    <3> SUFFICES ASSUME Opened = {} PROVE S' = << >>
      BY <1>0, <1>3
    <3>1. Path(Opened, Depth) = {}
      BY DEF Path
    <3> QED BY <1>5, <3>1, ListsEmpty
  <2> QED BY <1>0, <2>1, <2>2
     DEF PhaseOK, NothingTaken, LoopIsReset, Waiting, Validating, Outcome, treeVars
<1> QED BY <1>2, <1>7, <1>8, <1>9, <1>10, <1>11 DEF MInv

\* One node more has one hash more.
LEMMA HashesAppend ==
  ASSUME NEW q \in Seq(Nat), NEW t \in Seq(Nat), NEW x \in Nat
  PROVE  Hashes(q \o Append(t, x)) = Append(Hashes(q \o t), HashOf[x])
<1> DEFINE r == q \o t
<1>1. r \in Seq(Nat) /\ q \o Append(t, x) = Append(r, x)
  OBVIOUS
<1> HIDE DEF r
<1>2. /\ Len(r) \in Nat /\ DOMAIN r = 1..Len(r) /\ DOMAIN Append(r, x) = 1..(Len(r) + 1)
      /\ Append(r, x)[Len(r) + 1] = x
      /\ \A m \in 1..Len(r) : Append(r, x)[m] = r[m]
  BY <1>1, AppendType
<1> DEFINE h == Hashes(r)
           A == {HashOf[r[m]] : m \in 1..Len(r)} \union {HashOf[x]}
<1>3. h = [m \in 1..Len(r) |-> HashOf[r[m]]]
  BY <1>2, Zenon DEF Hashes
<1>4. h \in Seq(A) /\ Len(h) = Len(r) /\ HashOf[x] \in A
  <2> HIDE DEF h
  <2>1. \A m \in 1..Len(r) : HashOf[r[m]] \in A
    OBVIOUS
  <2>2. HashOf[x] \in A
    OBVIOUS
  <2> HIDE DEF A
  <2>3. [m \in 1..Len(r) |-> HashOf[r[m]]] \in [1..Len(r) -> A]
    BY <2>1
  <2>4. h \in [1..Len(r) -> A]
    BY <1>3, <2>3, Zenon
  <2>5. Len(r) \in Nat
    BY <1>2
  <2>6. h \in Seq(A) /\ Len(h) = Len(r)
    BY <2>4, <2>5, FunctionIsSeq
  <2> QED BY <2>2, <2>6
<1> HIDE DEF h, A
<1>5. /\ DOMAIN Append(h, HashOf[x]) = 1..(Len(r) + 1)
      /\ Append(h, HashOf[x])[Len(r) + 1] = HashOf[x]
      /\ \A m \in 1..Len(r) : Append(h, HashOf[x])[m] = h[m]
      /\ Append(h, HashOf[x]) \in Seq(A) /\ Len(Append(h, HashOf[x])) = Len(r) + 1
  BY <1>4, AppendType
<1> DEFINE g == Append(h, HashOf[x])
<1>6. g = [m \in 1..(Len(r) + 1) |-> g[m]]
  <2> HIDE DEF g
  <2>1. g \in Seq(A) /\ Len(g) = Len(r) + 1
    BY <1>5 DEF g
  <2> QED BY <2>1, SeqAsFunction, Zenon
<1>7. \A m \in 1..(Len(r) + 1) : g[m] = HashOf[Append(r, x)[m]]
  <2>1. SUFFICES ASSUME NEW m \in 1..(Len(r) + 1) PROVE g[m] = HashOf[Append(r, x)[m]]
    OBVIOUS
  <2>2. CASE m \in 1..Len(r)
    <3>1. h[m] = HashOf[r[m]]
      BY <1>3, <2>2, Zenon
    <3> QED BY <1>2, <1>5, <2>2, <3>1, Zenon
  <2>3. CASE m = Len(r) + 1
    <3>1. g[m] = HashOf[x]
      BY <1>5, <2>3, Zenon
    <3>2. Append(r, x)[m] = x
      BY <1>2, <2>3, Zenon
    <3> HIDE DEF g
    <3> QED BY <3>1, <3>2, Zenon
  <2>4. m \in 1..Len(r) \/ m = Len(r) + 1
    <3>1. Len(r) \in Nat
      BY <1>2
    <3> QED BY <3>1
  <2> HIDE DEF g
  <2> QED BY <2>2, <2>3, <2>4, Zenon
<1> HIDE DEF g
<1>8. Hashes(Append(r, x)) = [m \in 1..(Len(r) + 1) |-> HashOf[Append(r, x)[m]]]
  BY <1>2, Zenon DEF Hashes
<1>9. [m \in 1..(Len(r) + 1) |-> HashOf[Append(r, x)[m]]] = [m \in 1..(Len(r) + 1) |-> g[m]]
  BY <1>7, Zenon
<1>10. Hashes(Append(r, x)) = g
  BY <1>6, <1>8, <1>9, Zenon
<1> QED BY <1>1, <1>10, Zenon DEF g, h, r

\* The prover goes through one node of a layer.
LEMMA ProveNodeKeeps == MInv /\ ProveNode => MInv'
<1> SUFFICES ASSUME MInv, ProveNode PROVE MInv'
  OBVIOUS
<1>0. /\ PhaseOK /\ InputsOK /\ Constructed /\ NothingTaken /\ Proving /\ SaltsOpened
      /\ phase = "prove" /\ phase' = phase /\ ~AtRoot(S) /\ it <= Len(S)
      /\ UNCHANGED <<treeVars, inputVars, S, randomness, aux_it, num_hashes>>
  BY DEF MInv, ProveNode
<1>1. HashOf' = HashOf /\ Opened' = Opened /\ InputsOK' /\ make_zk' = make_zk
  <2>1. UNCHANGED inputVars
    BY <1>0
  <2> QED BY <1>0, <2>1, InputsKept DEF inputVars
<1>2. PICK d, t : ProvingLayer(d, t)
  BY <1>0 DEF Proving
<1>3. /\ LoopAt(Opened, d, S, new_S, it, t)
      /\ t \in Seq(Nat)
      /\ aux = Hashes(Upwards(Opened, d) \o t)
      /\ Opened # {} /\ Opened \subseteq Leaves
  <2>1. Opened # {} /\ Opened \subseteq Leaves
    BY <1>0, OpenedType DEF Proving
  <2> QED BY <1>2, <2>1, Zenon DEF ProvingLayer
<1>4. d \in 1..Depth /\ d \in 0..Depth
  BY <1>0, <1>3, RootFacts
<1> DEFINE j == S[it]
<1>5. /\ Len(S) \in Nat /\ it \in 1..Len(S) /\ j \in Nat \ {0} /\ j \in LayerNodes(d)
  <2>1. /\ Len(S) \in Nat /\ it \in Nat /\ it >= 1 /\ it <= Len(S) + 1
        /\ \A k \in 1..Len(S) : /\ S[k] \in Nat \ {0} /\ S[k] \in Path(Opened, d)
                                /\ S[k] \in LayerNodes(d)
        /\ \A k, m \in 1..Len(S) : k < m => S[k] < S[m]
        /\ \A x \in Path(Opened, d) : \E k \in 1..Len(S) : S[k] = x
        /\ \A k, m \in 1..Len(S) : k < it /\ it <= m => Parent(S[k]) < Parent(S[m])
    BY <1>3, <1>4, LoopFacts
  <2>2. it \in 1..Len(S)
    BY <1>0, <2>1
  <2> QED BY <2>1, <2>2
<1>6. /\ new_S' = Append(new_S, Parent(j))
      /\ aux' = IF Covered(S, it) THEN aux ELSE Append(aux, inner_nodes[Sibling(j)])
      /\ it' = IF Covered(S, it) THEN it + 2 ELSE it + 1
  BY Zenon DEF ProveNode, Covered, SiblingFollows
<1>7. \E u : ProvingLayer(d, u)'
  <2>1. CASE Covered(S, it)
    <3>1. LoopAt(Opened, d, S, Append(new_S, Parent(j)), it + 2, t)
      BY <1>0, <1>3, <1>4, <2>1, LoopSkips
    <3>2. aux' = Hashes(Upwards(Opened, d) \o t)'
      BY <1>1, <1>3, <1>6, <2>1, Zenon DEF Hashes
    <3>3. ProvingLayer(d, t)'
      BY <1>0, <1>1, <1>3, <1>6, <2>1, <3>1, <3>2, Zenon DEF ProvingLayer
    <3> QED BY <3>3, Zenon
  <2>2. CASE ~Covered(S, it)
    <3>0. PICK u : u = Append(t, Sibling(j))
      BY Zenon
    <3>1. LoopAt(Opened, d, S, Append(new_S, Parent(j)), it + 1, u)
      <4>1. LoopAt(Opened, d, S, Append(new_S, Parent(j)), it + 1, Append(t, Sibling(j)))
        BY <1>0, <1>3, <1>4, <2>2, LoopTakes
      <4> QED BY <3>0, <4>1, Zenon
    <3>2. Sibling(j) \in Nat /\ inner_nodes[Sibling(j)] = HashOf[Sibling(j)]
      <4>1. Sibling(j) \in Nat
        BY <1>5, ParentOrder, Zenon
      <4>2. inner_nodes = HashOf
        BY <1>0 DEF Constructed
      <4> QED BY <4>1, <4>2
    <3>3. u \in Seq(Nat)
      BY <1>3, <3>0, <3>2
    <3>4. Hashes(Upwards(Opened, d) \o u) = Append(Hashes(Upwards(Opened, d) \o t), HashOf[Sibling(j)])
      <4>1. Upwards(Opened, d) \in Seq(Nat)
        BY <1>3, <1>4, UpwardsFacts
      <4>2. Hashes(Upwards(Opened, d) \o Append(t, Sibling(j)))
              = Append(Hashes(Upwards(Opened, d) \o t), HashOf[Sibling(j)])
        BY <1>3, <3>2, <4>1, HashesAppend
      <4> QED BY <3>0, <4>2, Zenon
    <3>5. aux' = Hashes(Upwards(Opened, d) \o u)
      BY <1>3, <1>6, <2>2, <3>2, <3>4, Zenon
    <3>6. aux' = Hashes(Upwards(Opened, d) \o u)'
      BY <1>1, <3>5, Zenon DEF Hashes
    <3>7. ProvingLayer(d, u)'
      BY <1>0, <1>1, <1>6, <2>2, <3>1, <3>3, <3>6, Zenon DEF ProvingLayer
    <3> QED BY <3>7, Zenon
  <2> QED BY <2>1, <2>2
<1>8. Proving'
  BY <1>1, <1>3, <1>7, Zenon DEF Proving
<1>9. Constructing' /\ Constructed'
  BY <1>0, <1>1 DEF Constructing, Constructed, treeVars
<1>10. SaltsOpened'
  <2>1. Salts(Sorted(Opened))' = Salts(Sorted(Opened))
    BY <1>1 DEF Salts
  <2> QED BY <1>0, <2>1 DEF SaltsOpened
<1>11. PhaseOK' /\ NothingTaken' /\ LoopIsReset' /\ Waiting' /\ Proved' /\ Validating' /\ Outcome'
  <2>1. phase' = "prove" /\ phase' \notin Outcomes
    BY <1>0 DEF Outcomes
  <2> QED BY <1>0, <2>1
     DEF PhaseOK, NothingTaken, LoopIsReset, Waiting, Proved, Validating, Outcome, treeVars
<1> QED BY <1>1, <1>8, <1>9, <1>10, <1>11 DEF MInv

\* The prover goes on to the layer above.
LEMMA NextLayerKeepsProving == MInv /\ NextLayer /\ phase = "prove" => MInv'
<1> SUFFICES ASSUME MInv, NextLayer, phase = "prove" PROVE MInv'
  OBVIOUS
<1>0. /\ PhaseOK /\ InputsOK /\ Constructed /\ NothingTaken /\ Proving /\ SaltsOpened
      /\ phase' = phase /\ it > Len(S) /\ S' = new_S /\ new_S' = << >> /\ it' = 1
      /\ UNCHANGED <<treeVars, inputVars, aux, randomness, aux_it, num_hashes>>
  BY DEF MInv, NextLayer
<1>1. HashOf' = HashOf /\ Opened' = Opened /\ InputsOK' /\ make_zk' = make_zk
  <2>1. UNCHANGED inputVars
    BY <1>0
  <2> QED BY <1>0, <2>1, InputsKept DEF inputVars
<1>2. PICK d, t : ProvingLayer(d, t)
  BY <1>0 DEF Proving
<1>3. /\ LoopAt(Opened, d, S, new_S, it, t)
      /\ t \in Seq(Nat)
      /\ aux = Hashes(Upwards(Opened, d) \o t)
      /\ Opened # {} /\ Opened \subseteq Leaves
  <2>1. Opened # {} /\ Opened \subseteq Leaves
    BY <1>0, OpenedType DEF Proving
  <2> QED BY <1>2, <2>1, Zenon DEF ProvingLayer
<1>4. d \in 1..Depth /\ d - 1 \in 0..Depth
  <2>1. /\ d \in 0..Depth /\ Depth \in Nat
        /\ d = 0 => it <= Len(S) /\ it = 1
        /\ d # 0 => d \in 1..Depth
        /\ Len(S) \in Nat
    <3>1. Lists(S, Path(Opened, d))
      BY <1>3, Zenon DEF LoopAt
    <3> QED BY <1>3, <3>1, RootFacts, ListsType
  <2> QED BY <1>0, <2>1
<1>5. Lists(new_S, Path(Opened, d - 1)) /\ t = Sorted(Needed(Opened, d))
  BY <1>0, <1>3, <1>4, LoopEnds
<1>6. LoopAt(Opened, d - 1, new_S, << >>, 1, << >>)
  BY <1>4, <1>5, LoopBegins
<1>7. Upwards(Opened, d) \o t = Upwards(Opened, d - 1) \o << >>
  <2>1. Upwards(Opened, d - 1) = Upwards(Opened, d) \o t
    BY <1>3, <1>4, <1>5, UpwardsFacts
  <2>2. Upwards(Opened, d - 1) \in Seq(Nat)
    BY <1>3, <1>4, UpwardsFacts
  <2> HIDE DEF ProvingLayer
  <2>3. Upwards(Opened, d - 1) \o << >> = Upwards(Opened, d - 1)
    BY <2>2, ConcatEmpty
  <2> QED BY <2>1, <2>3, Zenon
<1>8. ProvingLayer(d - 1, << >>)'
  <2>1. << >> \in Seq(Nat)
    OBVIOUS
  <2>2. aux' = Hashes(Upwards(Opened, d - 1) \o << >>)'
    BY <1>0, <1>1, <1>3, <1>7, Zenon DEF Hashes
  <2> QED BY <1>0, <1>1, <1>6, <2>1, <2>2, Zenon DEF ProvingLayer
<1>9. Proving'
  BY <1>1, <1>3, <1>8, Zenon DEF Proving
<1>10. Constructing' /\ Constructed'
  BY <1>0, <1>1 DEF Constructing, Constructed, treeVars
<1>11. SaltsOpened'
  <2>1. Salts(Sorted(Opened))' = Salts(Sorted(Opened))
    BY <1>1 DEF Salts
  <2> QED BY <1>0, <2>1 DEF SaltsOpened
<1>12. PhaseOK' /\ NothingTaken' /\ LoopIsReset' /\ Waiting' /\ Proved' /\ Validating' /\ Outcome'
  <2>1. phase' = "prove" /\ phase' \notin Outcomes
    BY <1>0 DEF Outcomes
  <2> QED BY <1>0, <2>1
     DEF PhaseOK, NothingTaken, LoopIsReset, Waiting, Proved, Validating, Outcome, treeVars
<1> QED BY <1>1, <1>9, <1>10, <1>11, <1>12 DEF MInv

\* The proof is done at the root.
LEMMA EndProofKeeps == MInv /\ EndProof => MInv'
<1> SUFFICES ASSUME MInv, EndProof PROVE MInv'
  OBVIOUS
<1>0. /\ PhaseOK /\ InputsOK /\ Constructed /\ NothingTaken /\ Proving /\ SaltsOpened
      /\ phase = "prove" /\ phase' = "proved" /\ AtRoot(S) /\ S' = << >>
      /\ UNCHANGED <<treeVars, inputVars, new_S, it, aux, randomness, aux_it, num_hashes>>
  BY DEF MInv, EndProof
<1>1. HashOf' = HashOf /\ Opened' = Opened /\ InputsOK' /\ make_zk' = make_zk
  <2>1. UNCHANGED inputVars
    BY <1>0
  <2> QED BY <1>0, <2>1, InputsKept DEF inputVars
<1>2. PICK d, t : ProvingLayer(d, t)
  BY <1>0 DEF Proving
<1>3. /\ LoopAt(Opened, d, S, new_S, it, t)
      /\ t \in Seq(Nat)
      /\ aux = Hashes(Upwards(Opened, d) \o t)
      /\ Opened # {} /\ Opened \subseteq Leaves
  <2>1. Opened # {} /\ Opened \subseteq Leaves
    BY <1>0, OpenedType DEF Proving
  <2> QED BY <1>2, <2>1, Zenon DEF ProvingLayer
<1>4. d = 0 /\ it = 1 /\ 0 \in 0..Depth
  <2>1. d = 0 /\ it = 1
    BY <1>0, <1>3, RootFacts
  <2> QED BY <2>1, PowerOf2Equation
<1>5. new_S = << >> /\ t = << >>
  BY <1>3, <1>4, LoopAtFirst
<1>6. aux = Hashes(Upwards(Opened, 0))
  <2>1. Upwards(Opened, 0) \in Seq(Nat)
    BY <1>3, <1>4, UpwardsFacts
  <2>2. Upwards(Opened, 0) \o << >> = Upwards(Opened, 0)
    BY <2>1, ConcatEmpty
  <2> QED BY <1>3, <1>4, <1>5, <2>2, Zenon
<1>7. Proved'
  <2>1. aux' = Hashes(Upwards(Opened, 0))'
    BY <1>0, <1>1, <1>6, Zenon DEF Hashes
  <2> QED BY <1>1, <2>1, Zenon DEF Proved
<1>8. Constructing' /\ Constructed'
  BY <1>0, <1>1 DEF Constructing, Constructed, treeVars
<1>9. SaltsOpened'
  <2>1. Salts(Sorted(Opened))' = Salts(Sorted(Opened))
    BY <1>1 DEF Salts
  <2> QED BY <1>0, <2>1 DEF SaltsOpened
<1>10. PhaseOK' /\ NothingTaken' /\ LoopIsReset' /\ Waiting' /\ Proving' /\ Validating' /\ Outcome'
  <2>1. phase' = "proved" /\ phase' \notin Outcomes
    BY <1>0 DEF Outcomes
  <2> QED BY <1>0, <1>4, <1>5, <2>1
     DEF PhaseOK, NothingTaken, LoopIsReset, Waiting, Proving, Validating, Outcome, treeVars
<1> QED BY <1>1, <1>7, <1>8, <1>9, <1>10 DEF MInv

\* The parts of a sequence of entries.
LEMMA EntriesType ==
  ASSUME NEW A, NEW w \in Seq(A)
  PROVE  /\ Len(w) \in Nat /\ DOMAIN w = 1..Len(w)
         /\ DOMAIN NodesIn(w) = 1..Len(w) /\ Len(NodesIn(w)) = Len(w)
         /\ \A m \in 1..Len(w) : NodesIn(w)[m] = w[m].node
<1>1. Len(w) \in Nat /\ DOMAIN w = 1..Len(w)
  OBVIOUS
<1>2. NodesIn(w) = [m \in 1..Len(w) |-> w[m].node]
  BY <1>1, Zenon DEF NodesIn
<1> DEFINE B == {w[m].node : m \in 1..Len(w)}
           h == NodesIn(w)
<1>3. h \in [1..Len(w) -> B]
  BY <1>2, Zenon
<1> HIDE DEF B, h
<1>4. Len(h) = Len(w)
  BY <1>1, <1>3, FunctionIsSeq
<1>5. DOMAIN h = 1..Len(w) /\ \A m \in 1..Len(w) : h[m] = w[m].node
  BY <1>2, Zenon DEF h
<1> QED BY <1>1, <1>4, <1>5 DEF h

\* One entry is right, and so are those behind it.
LEMMA RightFromStep ==
  ASSUME NEW A, NEW w \in Seq(A), NEW i \in 1..Len(w)
  PROVE  RightFrom(w, i) <=> w[i].hash = HashOf[w[i].node] /\ RightFrom(w, i + 1)
<1>1. Len(w) \in Nat /\ DOMAIN w = 1..Len(w)
  OBVIOUS
<1>2. \A m \in 1..Len(w) : m >= i <=> m = i \/ m >= i + 1
  BY <1>1
<1>3. RightFrom(w, i) <=> \A m \in 1..Len(w) : m >= i => w[m].hash = HashOf[w[m].node]
  BY <1>1 DEF RightFrom
<1>4. RightFrom(w, i + 1) <=> \A m \in 1..Len(w) : m >= i + 1 => w[m].hash = HashOf[w[m].node]
  BY <1>1 DEF RightFrom
<1> QED BY <1>2, <1>3, <1>4, Zenon

\* Behind the last entry, there is none that could be wrong.
LEMMA RightBehind ==
  /\ RightFrom(<< >>, 1)
  /\ \A A : \A w \in Seq(A) : \A i \in Nat : i > Len(w) => RightFrom(w, i)
BY DEF RightFrom

\* A further entry.
LEMMA EntriesAppend ==
  ASSUME NEW A, NEW w \in Seq(A), NEW e
  PROVE  /\ \E B : Append(w, e) \in Seq(B)
         /\ Len(w) \in Nat /\ Len(Append(w, e)) = Len(w) + 1
         /\ NodesIn(Append(w, e)) = Append(NodesIn(w), e.node)
         /\ RightFrom(Append(w, e), 1) <=> RightFrom(w, 1) /\ e.hash = HashOf[e.node]
<1> DEFINE B == A \union {e}
<1>1. w \in Seq(B) /\ e \in B
  OBVIOUS
<1> HIDE DEF B
<1> DEFINE v == Append(w, e)
           k == Len(w)
<1>2. /\ v \in Seq(B) /\ k \in Nat /\ Len(v) = k + 1
      /\ DOMAIN w = 1..k /\ DOMAIN v = 1..(k + 1)
      /\ \A i \in 1..k : v[i] = w[i]
      /\ v[k + 1] = e
  BY <1>1, AppendType
<1> HIDE DEF v
<1>3. NodesIn(v) = Append(NodesIn(w), e.node)
  <2> DEFINE C == {x.node : x \in B}
             h == NodesIn(w)
             g == NodesIn(v)
  <2>1. /\ Len(h) = k /\ DOMAIN h = 1..k /\ \A m \in 1..k : h[m] = w[m].node
    BY <1>1, EntriesType
  <2>2. /\ Len(g) = k + 1 /\ DOMAIN g = 1..(k + 1) /\ \A m \in 1..(k + 1) : g[m] = v[m].node
    BY <1>2, EntriesType
  <2>3. h = [m \in 1..k |-> h[m]] /\ g = [m \in 1..(k + 1) |-> g[m]]
    BY <1>2, Zenon DEF NodesIn
  <2> HIDE DEF k
  <2>4. \A m \in 1..k : h[m] \in C
    <3>1. \A m \in 1..k : w[m] \in B
      BY <1>1, <1>2
    <3> QED BY <2>1, <3>1
  <2>5. \A m \in 1..(k + 1) : g[m] \in C
    <3>1. \A m \in 1..(k + 1) : v[m] \in B
      BY <1>2
    <3> QED BY <2>2, <3>1
  <2> HIDE DEF C, h, g
  <2>6. h \in [1..k -> C] /\ g \in [1..(k + 1) -> C] /\ k + 1 \in Nat
    BY <1>2, <2>3, <2>4, <2>5
  <2>7. h \in Seq(C) /\ g \in Seq(C)
    BY <1>2, <2>6, FunctionIsSeq
  <2>8. \A m \in 1..k : m \in 1..(k + 1) /\ g[m] = h[m]
    <3>1. \A m \in 1..k : m \in 1..(k + 1)
      BY <1>2
    <3> QED BY <1>2, <2>1, <2>2, <3>1, Zenon
  <2>9. g = Append(h, g[k + 1])
    <3>1. Len(g) = Len(h) + 1 /\ \A m \in 1..Len(h) : g[m] = h[m]
      BY <2>1, <2>2, <2>8
    <3>2. g = Append(h, g[Len(h) + 1])
      BY <2>7, <3>1, AppendUnique
    <3> QED BY <2>1, <3>2, Zenon
  <2>10. g[k + 1] = e.node
    <3>1. k + 1 \in 1..(k + 1)
      BY <1>2
    <3>2. g[k + 1] = v[k + 1].node
      BY <2>2, <3>1, Zenon
    <3> QED BY <1>2, <3>2, Zenon
  <2> QED BY <2>9, <2>10, Zenon DEF g, h
<1>4. RightFrom(v, 1) <=> RightFrom(w, 1) /\ e.hash = HashOf[e.node]
  <2> HIDE DEF k
  <2>1. RightFrom(w, 1) <=> \A m \in 1..k : w[m].hash = HashOf[w[m].node]
    <3>1. \A m \in 1..k : m >= 1
      BY <1>2
    <3> QED BY <1>2, <3>1, Zenon DEF RightFrom
  <2>2. RightFrom(v, 1) <=> \A m \in 1..(k + 1) : v[m].hash = HashOf[v[m].node]
    <3>1. \A m \in 1..(k + 1) : m >= 1
      BY <1>2
    <3> QED BY <1>2, <3>1, Zenon DEF RightFrom
  <2>3. \A m : m \in 1..(k + 1) <=> m \in 1..k \/ m = k + 1
    BY <1>2
  <2> QED BY <1>2, <2>1, <2>2, <2>3, Zenon
<1> QED BY <1>2, <1>3, <1>4 DEF v, k

\* What is taken so far of what is needed.
LEMMA TakenSoFar ==
  ASSUME NEW L, L \subseteq Leaves, NEW d, NEW s, NEW up, NEW i, NEW t,
         LoopAt(L, d, s, up, i, t)
  PROVE  /\ Len(Upwards(L, d)) \in Nat /\ Len(t) \in Nat /\ Len(Upwards(L, 0)) \in Nat
         /\ Len(Upwards(L, d)) + Len(t) <= Len(Upwards(L, 0))
<1>1. d \in 0..Depth /\ Depth \in Nat \ {0} /\ 0 \in 0..Depth
  <2>1. d \in 0..Depth
    BY Zenon DEF LoopAt
  <2> QED BY <2>1, PowerOf2Equation
<1>2. Upwards(L, d) \in Seq(Nat) /\ Upwards(L, 0) \in Seq(Nat)
  BY <1>1, UpwardsFacts
<1>3. CASE d = 0
  <2>1. i = 1
    BY <1>3, Zenon DEF LoopAt
  <2>2. t = << >>
    BY <2>1, LoopAtFirst
  <2> QED BY <1>2, <1>3, <2>2
<1>4. CASE d # 0
  <2>1. d \in 1..Depth /\ d - 1 \in 0..Depth
    BY <1>1, <1>4
  <2> DEFINE u == Upwards(L, d)
             n1 == Sorted(Needed(L, d))
  <2>2. t \in Seq(Nat) /\ n1 \in Seq(Nat) /\ Len(t) <= Len(n1)
    BY <2>1, LoopFirstPart
  <2>3. Upwards(L, d - 1) = u \o n1
    BY <2>1, UpwardsFacts
  <2>4. PICK rest \in Seq(Nat) : Upwards(L, 0) = Upwards(L, d - 1) \o rest
    BY <2>1, UpwardsIsFirstPart
  <2>5. u \in Seq(Nat)
    BY <1>2
  <2> HIDE DEF u, n1
  <2>6. Upwards(L, 0) = (u \o n1) \o rest
    BY <2>3, <2>4, Zenon
  <2>7. Len(Upwards(L, 0)) = Len(u) + Len(n1) + Len(rest)
    BY <2>2, <2>4, <2>5, <2>6
  <2>8. Len(u) \in Nat /\ Len(n1) \in Nat /\ Len(rest) \in Nat /\ Len(t) \in Nat
    BY <2>2, <2>4, <2>5
  <2> QED BY <1>2, <2>2, <2>7, <2>8 DEF u
<1> QED BY <1>3, <1>4

\* The node needed next is the next of all that are needed.
LEMMA TakenInOrder ==
  ASSUME NEW L, L \subseteq Leaves, NEW d \in 1..Depth, NEW s, NEW up, NEW i,
         NEW t \in Seq(Nat), NEW x \in Nat, LoopAt(L, d, s, up, i, Append(t, x))
  PROVE  /\ Len(Upwards(L, d)) + Len(t) + 1 \in DOMAIN Upwards(L, 0)
         /\ Upwards(L, 0)[Len(Upwards(L, d)) + Len(t) + 1] = x
<1> DEFINE u  == Upwards(L, d)
           n1 == Sorted(Needed(L, d))
           k  == Len(t) + 1
<1>1. /\ d \in 0..Depth /\ d - 1 \in 0..Depth
  BY PowerOf2Equation
<1>2. u \in Seq(Nat)
  BY <1>1, UpwardsFacts
<1>3. /\ n1 \in Seq(Nat) /\ k \in 1..Len(n1) /\ n1[k] = x
  <2> DEFINE a == Append(t, x)
  <2>1. Len(a) = k /\ a[k] = x /\ Len(t) \in Nat
    OBVIOUS
  <2>2. /\ n1 \in Seq(Nat)
        /\ \A m \in 1..Len(a) : m \in 1..Len(n1) /\ a[m] = n1[m]
    BY LoopFirstPart
  <2> HIDE DEF a, n1
  <2>3. k \in 1..Len(a)
    BY <2>1
  <2> QED BY <2>1, <2>2, <2>3
<1>4. Upwards(L, d - 1) = u \o n1
  BY UpwardsFacts
<1>5. PICK rest \in Seq(Nat) : Upwards(L, 0) = Upwards(L, d - 1) \o rest
  BY <1>1, UpwardsIsFirstPart
<1> HIDE DEF u, n1, k
<1>6. Upwards(L, 0) = (u \o n1) \o rest
  BY <1>4, <1>5, Zenon
<1> DEFINE v == u \o n1
<1>7. v \in Seq(Nat) /\ Len(u) \in Nat /\ Len(v) = Len(u) + Len(n1) /\ v[Len(u) + k] = n1[k]
  BY <1>2, <1>3, ConcatType
<1> HIDE DEF v
<1>8. Len(u) + k \in 1..Len(v)
  BY <1>3, <1>7
<1>9. /\ v \o rest \in Seq(Nat) /\ Len(v \o rest) = Len(v) + Len(rest)
      /\ (v \o rest)[Len(u) + k] = v[Len(u) + k] /\ Len(rest) \in Nat /\ Len(v) \in Nat
  <2>1. /\ v \o rest \in Seq(Nat) /\ Len(v \o rest) = Len(v) + Len(rest)
        /\ \A m \in 1..Len(v) : (v \o rest)[m] = v[m]
    <3>1. v \in Seq(Nat) /\ rest \in Seq(Nat)
      BY <1>7
    <3> QED BY <3>1, ConcatType
  <2>2. Len(rest) \in Nat /\ Len(v) \in Nat
    BY <1>5, <1>7
  <2> QED BY <1>8, <2>1, <2>2
<1>10. Len(u) + k \in DOMAIN (v \o rest)
  BY <1>8, <1>9
<1>11. Len(u) + Len(t) + 1 = Len(u) + k
  BY <1>7 DEF k
<1>12. Upwards(L, 0) = v \o rest
  BY <1>6 DEF v
<1>13. Len(u) + k \in DOMAIN Upwards(L, 0) /\ Upwards(L, 0)[Len(u) + k] = x
  BY <1>3, <1>7, <1>9, <1>10, <1>12, Zenon
<1> QED BY <1>11, <1>13 DEF u

\* The hashes of a sequence of nodes are a sequence as long.
LEMMA HashesType ==
  ASSUME NEW q \in Seq(Nat)
  PROVE  /\ Len(q) \in Nat /\ Len(Hashes(q)) = Len(q) /\ DOMAIN Hashes(q) = DOMAIN q
         /\ \A m \in DOMAIN q : Hashes(q)[m] = HashOf[q[m]]
<1> DEFINE h == Hashes(q)
           A == {HashOf[q[m]] : m \in 1..Len(q)}
<1>1. Len(q) \in Nat /\ DOMAIN q = 1..Len(q)
  OBVIOUS
<1>2. h = [m \in 1..Len(q) |-> HashOf[q[m]]]
  BY <1>1, Zenon DEF Hashes
<1>3. h \in [1..Len(q) -> A]
  BY <1>2, Zenon
<1> HIDE DEF A, h
<1>4. Len(h) = Len(q)
  BY <1>1, <1>3, FunctionIsSeq
<1>5. DOMAIN h = DOMAIN q /\ \A m \in DOMAIN q : h[m] = HashOf[q[m]]
  BY <1>1, <1>2, Zenon
<1> QED BY <1>1, <1>4, <1>5 DEF h

\* The validation is begun with the entries of the leaves.
LEMMA BeginValidationKeeps == MInv /\ BeginValidation => MInv'
<1> SUFFICES ASSUME MInv, BeginValidation PROVE MInv'
  OBVIOUS
<1>0. /\ PhaseOK /\ InputsOK /\ Constructed /\ NothingTaken /\ LoopIsReset /\ Proved /\ SaltsOpened
      /\ phase = "proved" /\ S' = LeafEntries
      /\ UNCHANGED <<treeVars, inputVars, new_S, it, aux, randomness, aux_it, num_hashes>>
  BY DEF MInv, BeginValidation
<1>1. /\ HashOf' = HashOf /\ Opened' = Opened /\ InputsOK' /\ (Contradictory' <=> Contradictory)
      /\ make_zk' = make_zk /\ positions' = positions /\ contents' = contents
  <2>1. UNCHANGED inputVars
    BY <1>0
  <2> QED BY <1>0, <2>1, InputsKept DEF inputVars
<1>2. /\ Opened \subseteq Leaves
      /\ positions = << >> <=> Opened = {}
      /\ positions \in Seq(Nat)
      /\ contents = positions <=> \A i \in 1..Len(positions) : contents[i] = positions[i]
  BY <1>0, OpenedType
<1>3. PICK w : w = LeafEntries
  BY Zenon
<1>4. phase' = IF positions = << >> THEN "valid" ELSE IF Repeated(w) THEN "exception" ELSE "validate"
  BY <1>3, Zenon DEF BeginValidation, Repeated
<1>5. /\ \E A : w \in Seq(A)
      /\ positions = << >> => w = << >>
      /\ Repeated(w) <=> Contradictory
      /\ RightFrom(w, 1) <=> contents = positions
      /\ ~Repeated(w) => Lists(NodesIn(w), Path(Opened, Depth))
  <2>1. randomness = Salts(Sorted(Opened))
    BY <1>0 DEF SaltsOpened
  <2> QED BY <1>0, <1>3, <2>1, LeafEntriesFacts
<1>6. S' = w /\ new_S' = << >> /\ it' = 1 /\ aux_it' = 0 /\ num_hashes' = 0
  BY <1>0, <1>3 DEF NothingTaken, LoopIsReset
<1>7. /\ HashesUpTo(positions)' = HashesUpTo(positions)
      /\ HashesUpTo(positions)[0] = 0
      /\ Depth \in Nat \ {0} /\ Depth \in 0..Depth /\ Depth - Depth = 0
  <2>1. HashesUpTo(positions)' = HashesUpTo(positions)
    BY <1>1
  <2>2. HashesUpTo(positions)[0] = 0
    BY <1>2, HashesUpToFacts
  <2>3. Depth \in Nat \ {0}
    BY PowerOf2Equation
  <2> QED BY <2>1, <2>2, <2>3
<1>8. Contradictory => contents # positions
  BY Zenon DEF Contradictory
<1>9. Validating'
  <2>1. SUFFICES ASSUME phase' = "validate"
                 PROVE  /\ Opened # {} /\ ~Contradictory
                        /\ \E A : S' \in Seq(A)
                        /\ \E A : new_S' \in Seq(A)
                        /\ ValidatingLayer(Depth, << >>)'
    BY <1>1, Zenon DEF Validating
  <2>2. Opened # {} /\ ~Repeated(w)
    BY <1>2, <1>4, <2>1
  <2>3. << >> \in Seq(Nat) /\ Len(<< >>) = 0
    OBVIOUS
  <2>4. LoopAt(Opened, Depth, NodesIn(w), << >>, 1, << >>)
    BY <1>5, <1>7, <2>2, LoopBegins
  <2>5. NodesIn(<< >>) = << >>
    BY DEF NodesIn
  <2>6. LoopAt(Opened, Depth, NodesIn(S), NodesIn(new_S), it, << >>)'
    <3>1. NodesIn(S)' = NodesIn(w) /\ NodesIn(new_S)' = NodesIn(<< >>)
      BY <1>6, Zenon DEF NodesIn
    <3>2. LoopAt(Opened', Depth, NodesIn(S)', NodesIn(new_S)', it', << >>)
      BY <1>1, <1>6, <2>4, <2>5, <3>1, Zenon
    <3> QED BY <3>2
  <2>7. aux_it' = Len(Upwards(Opened, Depth)') + Len(<< >>)
    <3>1. Upwards(Opened, Depth) = << >>
      BY <1>2, UpwardsFacts
    <3>2. Upwards(Opened, Depth)' = << >>
      BY <1>1, <3>1, Zenon
    <3> QED BY <1>6, <2>3, <3>2
  <2>8. num_hashes' = HashesUpTo(positions)'[Depth - Depth] + Len(new_S')
    BY <1>6, <1>7, <2>3
  <2>9. (contents = positions)' <=> RightFrom(new_S, 1)' /\ RightFrom(S, it)'
    <3>1. RightFrom(<< >>, 1)
      BY RightBehind
    <3>2. RightFrom(new_S, 1)' <=> RightFrom(<< >>, 1)
      BY <1>1, <1>6, Zenon DEF RightFrom
    <3>3. RightFrom(S, it)' <=> RightFrom(w, 1)
      BY <1>1, <1>6, Zenon DEF RightFrom
    <3> QED BY <1>1, <1>5, <3>1, <3>2, <3>3, Zenon
  <2>10. ValidatingLayer(Depth, << >>)'
    BY <2>3, <2>6, <2>7, <2>8, <2>9, Zenon DEF ValidatingLayer
  <2>11. \E A : new_S' \in Seq(A)
    BY <1>6, <2>3, Zenon
  <2>12. \E A : S' \in Seq(A)
    BY <1>5, <1>6, Zenon
  <2> QED BY <1>5, <2>2, <2>10, <2>11, <2>12, Zenon
<1>10. Outcome'
  <2>1. SUFFICES ASSUME phase' \in Outcomes
                 PROVE  /\ phase' = IF contents = positions THEN "valid"
                                    ELSE IF Contradictory THEN "exception" ELSE "invalid"
                        /\ phase' # "exception" => num_hashes' = HashesUpTo(positions)[Depth]
                        /\ it' \in 1..(Len(S') + 1)
                        /\ aux_it' \in Nat /\ num_hashes' \in Nat
                        /\ aux_it' <= Len(aux')
    BY <1>1, <1>7, Zenon DEF Outcome
  <2>5. /\ it' \in 1..(Len(S') + 1)
         /\ aux_it' \in Nat /\ num_hashes' \in Nat
         /\ aux_it' <= Len(aux')
    <3>1. Len(w) \in Nat
      BY <1>5
    <3>2. Len(aux) \in Nat
      <4>1. Upwards(Opened, 0) \in Seq(Nat)
        <5>1. 0 \in 0..Depth
          BY <1>7
        <5> QED BY <1>2, <5>1, UpwardsFacts
      <4>2. aux = Hashes(Upwards(Opened, 0))
        BY <1>0 DEF Proved
      <4> QED BY <4>1, <4>2, HashesType
    <3> QED BY <1>0, <1>6, <3>1, <3>2
  <2>2. CASE positions = << >>
    <3>1. phase' = "valid"
      BY <1>4, <2>2
    <3>2. contents = positions
      <4>1. \A i \in 1..Len(positions) : contents[i] = positions[i]
        BY <2>2
      <4> QED BY <1>2, <4>1
    <3>3. num_hashes' = HashesUpTo(positions)[Depth]
      BY <1>6, <2>2, NothingToHash
    <3> QED BY <3>1, <3>2, <3>3, <2>5
  <2>3. CASE positions # << >>
    <3>1. phase' = "exception" /\ Contradictory
      BY <1>4, <1>5, <2>1, <2>3 DEF Outcomes
    <3> QED BY <1>8, <3>1, <2>5
  <2> QED BY <2>2, <2>3
<1>11. Proved'
  <2>1. aux' = Hashes(Upwards(Opened, 0))'
    BY <1>0, <1>1, Zenon DEF Hashes, Proved
  <2> QED BY <1>1, <2>1, Zenon DEF Proved
<1>12. Constructing' /\ Constructed'
  <2>1. phase' # "construct"
    BY <1>4
  <2> QED BY <1>0, <1>1, <2>1 DEF Constructing, Constructed, treeVars
<1>13. PhaseOK' /\ NothingTaken' /\ LoopIsReset' /\ Waiting' /\ Proving' /\ SaltsOpened'
  <2>1. phase' \in {"validate"} \union Outcomes /\ phase' \notin {"construct", "open", "prove", "proved"}
    BY <1>4 DEF Outcomes
  <2> QED BY <1>0, <2>1 DEF PhaseOK, NothingTaken, LoopIsReset, Waiting, Proving, SaltsOpened, treeVars
<1> QED BY <1>1, <1>9, <1>10, <1>11, <1>12, <1>13 DEF MInv

\* The verifier goes through one node of a layer.
LEMMA ValidateNodeKeeps == MInv /\ ValidateNode => MInv'
<1> SUFFICES ASSUME MInv, ValidateNode PROVE MInv'
  OBVIOUS
<1>0. /\ PhaseOK /\ InputsOK /\ Constructed /\ Proved /\ Validating
      /\ phase = "validate" /\ phase' = phase /\ ~AtRoot(NodesIn(S)) /\ it <= Len(S)
      /\ num_hashes' = num_hashes + 1
      /\ UNCHANGED <<treeVars, inputVars, S, aux, randomness>>
  BY DEF MInv, ValidateNode, NodesOfLayer, NodesIn
<1>1. /\ HashOf' = HashOf /\ Opened' = Opened /\ InputsOK' /\ (Contradictory' <=> Contradictory)
      /\ make_zk' = make_zk /\ positions' = positions /\ contents' = contents
  <2>1. UNCHANGED inputVars
    BY <1>0
  <2> QED BY <1>0, <2>1, InputsKept DEF inputVars
<1>2. PICK d, t : ValidatingLayer(d, t)
  BY <1>0 DEF Validating
<1>3. /\ LoopAt(Opened, d, NodesIn(S), NodesIn(new_S), it, t)
      /\ t \in Seq(Nat)
      /\ aux_it = Len(Upwards(Opened, d)) + Len(t)
      /\ num_hashes = HashesUpTo(positions)[Depth - d] + Len(new_S)
      /\ contents = positions <=> RightFrom(new_S, 1) /\ RightFrom(S, it)
      /\ Opened # {} /\ Opened \subseteq Leaves /\ positions \in Seq(Nat)
  <2>1. Opened # {} /\ Opened \subseteq Leaves /\ positions \in Seq(Nat)
    BY <1>0, OpenedType DEF Validating
  <2> QED BY <1>2, <2>1, Zenon DEF ValidatingLayer
<1>4. d \in 1..Depth /\ d \in 0..Depth /\ Depth \in Nat /\ 0 \in 0..Depth /\ Depth - d \in 0..Depth
  <2>1. d \in 1..Depth /\ d \in 0..Depth
    BY <1>0, <1>3, RootFacts
  <2>2. Depth \in Nat
    BY PowerOf2Equation
  <2> QED BY <2>1, <2>2
<1>5. PICK A : S \in Seq(A)
  BY <1>0 DEF Validating
<1>6. PICK B : new_S \in Seq(B)
  BY <1>0 DEF Validating
<1>7. PICK s, w, i : s = NodesIn(S) /\ w = new_S /\ i = it
  BY Zenon
<1>8. /\ Len(S) \in Nat /\ DOMAIN S = 1..Len(S) /\ Len(s) = Len(S)
      /\ \A m \in 1..Len(S) : s[m] = S[m].node
  BY <1>5, <1>7, EntriesType
<1>9. LoopAt(Opened, d, s, NodesIn(w), i, t)
  BY <1>3, <1>7, Zenon
<1>10. i \in 1..Len(S) /\ i <= Len(s) /\ i \in Nat
       /\ s[i] = S[i].node /\ s[i] \in Nat \ {0} /\ s[i] \in LayerNodes(d)
  <2>1. /\ i \in Nat /\ i >= 1 /\ i <= Len(s) + 1
        /\ \A k \in 1..Len(s) : s[k] \in Nat \ {0} /\ s[k] \in LayerNodes(d)
    BY <1>3, <1>4, <1>9, LoopFacts
  <2>2. i <= Len(S)
    BY <1>0, <1>7
  <2>3. i \in 1..Len(S) /\ i <= Len(s)
    BY <1>8, <2>1, <2>2
  <2> QED BY <1>8, <2>1, <2>3
<1> DEFINE j     == s[i]
           other == IF Covered(s, i) THEN S[i + 1].hash ELSE At(aux, aux_it + 1)
<1>11. PICK o, e : o = other /\ e = [node |-> Parent(j), hash |-> HashPair(j, S[i].hash, o)]
  BY Zenon
<1>12. /\ new_S' = Append(w, e)
       /\ aux_it' = IF Covered(s, i) THEN aux_it ELSE aux_it + 1
       /\ it' = IF Covered(s, i) THEN i + 2 ELSE i + 1
  <2>1. NodesOfLayer = s
    BY <1>7, Zenon DEF NodesOfLayer, NodesIn
  <2>2. S[it].node = j
    BY <1>7, <1>10, Zenon
  <2>3. Covered(s, i) <=> ~IsRight(j) /\ SiblingFollows(j, NodesOfLayer)
    BY <1>7, <2>1, Zenon DEF Covered, SiblingFollows
  <2>4. /\ new_S' = Append(new_S, [node |-> Parent(S[it].node),
                       hash |-> HashPair(S[it].node, S[it].hash,
                          IF ~IsRight(S[it].node) /\ SiblingFollows(S[it].node, NodesOfLayer)
                          THEN S[it + 1].hash ELSE At(aux, aux_it + 1))])
        /\ aux_it' = IF ~IsRight(S[it].node) /\ SiblingFollows(S[it].node, NodesOfLayer)
                     THEN aux_it ELSE aux_it + 1
        /\ it' = IF ~IsRight(S[it].node) /\ SiblingFollows(S[it].node, NodesOfLayer)
                 THEN it + 2 ELSE it + 1
    BY Zenon DEF ValidateNode
  <2>5. o = IF ~IsRight(S[it].node) /\ SiblingFollows(S[it].node, NodesOfLayer)
            THEN S[it + 1].hash ELSE At(aux, aux_it + 1)
    BY <1>7, <1>11, <2>2, <2>3, Zenon
  <2>6. e = [node |-> Parent(S[it].node), hash |-> HashPair(S[it].node, S[it].hash, o)]
    BY <1>7, <1>11, <2>2, Zenon
  <2> HIDE DEF other
  <2>7. new_S' = Append(w, e)
    BY <1>7, <2>4, <2>5, <2>6, Zenon
  <2>8. aux_it' = IF Covered(s, i) THEN aux_it ELSE aux_it + 1
    BY <2>2, <2>3, <2>4, Zenon
  <2>9. it' = IF Covered(s, i) THEN i + 2 ELSE i + 1
    BY <1>7, <2>2, <2>3, <2>4, Zenon
  <2> QED BY <2>7, <2>8, <2>9
<1>13. e.node = Parent(j) /\ e.hash = HashPair(j, S[i].hash, o)
  BY <1>11, Zenon
<1>14. e.hash = HashOf[e.node] <=> S[i].hash = HashOf[j] /\ o = HashOf[Sibling(j)]
  <2>1. HashPair(j, S[i].hash, o) = HashOf[Parent(j)] <=> S[i].hash = HashOf[j] /\ o = HashOf[Sibling(j)]
    BY <1>4, <1>10, HashPairIsRight
  <2> QED BY <1>13, <2>1, Zenon
<1>15. /\ \E C : Append(w, e) \in Seq(C)
       /\ Len(w) \in Nat /\ Len(Append(w, e)) = Len(w) + 1
       /\ NodesIn(Append(w, e)) = Append(NodesIn(w), Parent(j))
       /\ RightFrom(Append(w, e), 1) <=> RightFrom(w, 1) /\ e.hash = HashOf[e.node]
  <2>1. w \in Seq(B)
    BY <1>6, <1>7
  <2>2. /\ \E C : Append(w, e) \in Seq(C)
        /\ Len(w) \in Nat /\ Len(Append(w, e)) = Len(w) + 1
        /\ NodesIn(Append(w, e)) = Append(NodesIn(w), e.node)
        /\ RightFrom(Append(w, e), 1) <=> RightFrom(w, 1) /\ e.hash = HashOf[e.node]
    BY <2>1, EntriesAppend
  <2> QED BY <1>13, <2>2, Zenon
<1>16. RightFrom(S, i) <=> S[i].hash = HashOf[j] /\ RightFrom(S, i + 1)
  <2>1. RightFrom(S, i) <=> S[i].hash = HashOf[S[i].node] /\ RightFrom(S, i + 1)
    BY <1>5, <1>10, RightFromStep
  <2> QED BY <1>10, <2>1, Zenon
<1>17. num_hashes' = HashesUpTo(positions)'[Depth - d] + Len(new_S')
  <2>1. HashesUpTo(positions)' = HashesUpTo(positions)
    BY <1>1
  <2>2. HashesUpTo(positions)[Depth - d] \in Nat
    BY <1>3, <1>4, HashesUpToFacts
  <2>3. num_hashes = HashesUpTo(positions)[Depth - d] + Len(w)
    BY <1>3, <1>7, Zenon
  <2> QED BY <1>0, <1>12, <1>15, <2>1, <2>2, <2>3
<1>18. \E u : ValidatingLayer(d, u)'
  <2>1. NodesIn(S)' = s /\ NodesIn(new_S)' = NodesIn(Append(w, e))
    BY <1>0, <1>7, <1>12, Zenon DEF NodesIn
  <2>2. RightFrom(new_S, 1)' <=> RightFrom(Append(w, e), 1)
    BY <1>1, <1>12, Zenon DEF RightFrom
  <2>3. RightFrom(S, it)' <=> RightFrom(S, it')
    BY <1>0, <1>1, Zenon DEF RightFrom
  <2>4. contents = positions <=> RightFrom(w, 1) /\ RightFrom(S, i)
    BY <1>3, <1>7, Zenon
  <2>5. CASE Covered(s, i)
    <3>1. LoopAt(Opened, d, s, Append(NodesIn(w), Parent(j)), i + 2, t)
      BY <1>3, <1>4, <1>9, <1>10, <2>5, LoopSkips
    <3>2. LoopAt(Opened, d, NodesIn(S), NodesIn(new_S), it, t)'
      <4>1. LoopAt(Opened', d, NodesIn(S)', NodesIn(new_S)', it', t)
        BY <1>1, <1>12, <1>15, <2>1, <2>5, <3>1, Zenon
      <4> QED BY <4>1
    <3>3. aux_it' = Len(Upwards(Opened, d)') + Len(t)
      <4>1. Upwards(Opened, d)' = Upwards(Opened, d)
        BY <1>1, Zenon
      <4> QED BY <1>3, <1>12, <2>5, <4>1, Zenon
    <3>4. i + 1 \in 1..Len(S) /\ s[i + 1] = Sibling(j) /\ (i + 1) + 1 = i + 2
      <4>1. ~IsRight(j) /\ i < Len(s) /\ s[i + 1] = j + 1
        BY <2>5, Zenon DEF Covered
      <4>2. Sibling(j) = j + 1
        BY <1>10, <4>1, ParentOrder
      <4> QED BY <1>8, <1>10, <4>1, <4>2
    <3>5. RightFrom(S, i + 1) <=> S[i + 1].hash = HashOf[Sibling(j)] /\ RightFrom(S, i + 2)
      <4>1. RightFrom(S, i + 1) <=> S[i + 1].hash = HashOf[S[i + 1].node] /\ RightFrom(S, (i + 1) + 1)
        BY <1>5, <3>4, RightFromStep
      <4>2. S[i + 1].node = Sibling(j)
        BY <1>8, <3>4, Zenon
      <4> QED BY <3>4, <4>1, <4>2, Zenon
    <3>6. o = S[i + 1].hash
      BY <1>11, <2>5, Zenon
    <3>7. (contents = positions)' <=> RightFrom(new_S, 1)' /\ RightFrom(S, it)'
      <4>1. it' = i + 2
        BY <1>12, <2>5, Zenon
      <4> QED BY <1>1, <1>14, <1>15, <1>16, <2>2, <2>3, <2>4, <3>5, <3>6, <4>1, Zenon
    <3>8. ValidatingLayer(d, t)'
      BY <1>3, <1>17, <3>2, <3>3, <3>7, Zenon DEF ValidatingLayer
    <3> QED BY <3>8, Zenon
  <2>6. CASE ~Covered(s, i)
    <3>1. PICK u : u = Append(t, Sibling(j))
      BY Zenon
    <3>2. LoopAt(Opened, d, s, Append(NodesIn(w), Parent(j)), i + 1, Append(t, Sibling(j)))
      BY <1>3, <1>4, <1>9, <1>10, <2>6, LoopTakes
    <3>3. Sibling(j) \in Nat
      BY <1>10, ParentOrder, Zenon
    <3>4. u \in Seq(Nat) /\ Len(u) = Len(t) + 1 /\ Len(t) \in Nat
      BY <1>3, <3>1, <3>3, AppendType
    <3>5. LoopAt(Opened, d, NodesIn(S), NodesIn(new_S), it, u)'
      <4>1. LoopAt(Opened', d, NodesIn(S)', NodesIn(new_S)', it', u)
        BY <1>1, <1>12, <1>15, <2>1, <2>6, <3>1, <3>2, Zenon
      <4> QED BY <4>1
    <3>6. Upwards(Opened, d) \in Seq(Nat) /\ Len(Upwards(Opened, d)) \in Nat
      <4>1. Upwards(Opened, d) \in Seq(Nat)
        BY <1>3, <1>4, UpwardsFacts
      <4> QED BY <4>1
    <3>7. aux_it' = Len(Upwards(Opened, d)') + Len(u)
      <4>1. Upwards(Opened, d)' = Upwards(Opened, d)
        BY <1>1, Zenon
      <4> QED BY <1>3, <1>12, <2>6, <3>4, <3>6, <4>1
    <3>8. o = HashOf[Sibling(j)]
      <4> DEFINE m == Len(Upwards(Opened, d)) + Len(t) + 1
      <4>1. m \in DOMAIN Upwards(Opened, 0) /\ Upwards(Opened, 0)[m] = Sibling(j)
        BY <1>3, <1>4, <3>2, <3>3, TakenInOrder
      <4>2. aux_it + 1 = m
        BY <1>3, <3>4, <3>6
      <4> HIDE DEF m
      <4>3. Upwards(Opened, 0) \in Seq(Nat)
        BY <1>3, <1>4, UpwardsFacts
      <4>4. aux = Hashes(Upwards(Opened, 0))
        BY <1>0 DEF Proved
      <4>5. m \in DOMAIN aux /\ aux[m] = HashOf[Sibling(j)]
        <5>1. /\ DOMAIN Hashes(Upwards(Opened, 0)) = DOMAIN Upwards(Opened, 0)
              /\ \A x \in DOMAIN Upwards(Opened, 0) :
                   Hashes(Upwards(Opened, 0))[x] = HashOf[Upwards(Opened, 0)[x]]
          BY <4>3, HashesType
        <5> QED BY <4>1, <4>4, <5>1, Zenon
      <4>6. o = At(aux, aux_it + 1)
        BY <1>11, <2>6, Zenon
      <4> QED BY <4>2, <4>5, <4>6, Zenon DEF At
    <3>9. (contents = positions)' <=> RightFrom(new_S, 1)' /\ RightFrom(S, it)'
      <4>1. it' = i + 1
        BY <1>12, <2>6, Zenon
      <4> QED BY <1>1, <1>14, <1>15, <1>16, <2>2, <2>3, <2>4, <3>8, <4>1, Zenon
    <3>10. ValidatingLayer(d, u)'
      BY <1>17, <3>4, <3>5, <3>7, <3>9, Zenon DEF ValidatingLayer
    <3> QED BY <3>10, Zenon
  <2> QED BY <2>5, <2>6
<1>19. Validating'
  <2>1. \E C : S' \in Seq(C)
    BY <1>0, <1>5, Zenon
  <2>2. \E C : new_S' \in Seq(C)
    BY <1>12, <1>15, Zenon
  <2>3. ~Contradictory' /\ Opened' # {}
    BY <1>0, <1>1, <1>3 DEF Validating
  <2>4. \E D, u : ValidatingLayer(D, u)'
    BY <1>18, Zenon
  <2> QED BY <2>1, <2>2, <2>3, <2>4, Zenon DEF Validating
<1>20. Proved'
  <2>1. aux' = Hashes(Upwards(Opened, 0))'
    BY <1>0, <1>1, Zenon DEF Hashes, Proved
  <2> QED BY <1>1, <2>1, Zenon DEF Proved
<1>21. Constructing' /\ Constructed'
  BY <1>0, <1>1 DEF Constructing, Constructed, treeVars
<1>22. PhaseOK' /\ NothingTaken' /\ LoopIsReset' /\ Waiting' /\ Proving' /\ SaltsOpened' /\ Outcome'
  <2>1. phase' = "validate" /\ phase' \notin Outcomes
    BY <1>0 DEF Outcomes
  <2> QED BY <1>0, <2>1
     DEF PhaseOK, NothingTaken, LoopIsReset, Waiting, Proving, SaltsOpened, Outcome, treeVars
<1> QED BY <1>1, <1>19, <1>20, <1>21, <1>22 DEF MInv

\* The verifier goes on to the layer above.
LEMMA NextLayerKeepsValidating == MInv /\ NextLayer /\ phase = "validate" => MInv'
<1> SUFFICES ASSUME MInv, NextLayer, phase = "validate" PROVE MInv'
  OBVIOUS
<1>0. /\ PhaseOK /\ InputsOK /\ Constructed /\ Proved /\ Validating
      /\ phase' = phase /\ it > Len(S) /\ S' = new_S /\ new_S' = << >> /\ it' = 1
      /\ UNCHANGED <<treeVars, inputVars, aux, randomness, aux_it, num_hashes>>
  BY DEF MInv, NextLayer
<1>1. /\ HashOf' = HashOf /\ Opened' = Opened /\ InputsOK' /\ (Contradictory' <=> Contradictory)
      /\ make_zk' = make_zk /\ positions' = positions /\ contents' = contents
  <2>1. UNCHANGED inputVars
    BY <1>0
  <2> QED BY <1>0, <2>1, InputsKept DEF inputVars
<1>2. PICK d, t : ValidatingLayer(d, t)
  BY <1>0 DEF Validating
<1>3. /\ LoopAt(Opened, d, NodesIn(S), NodesIn(new_S), it, t)
      /\ t \in Seq(Nat)
      /\ aux_it = Len(Upwards(Opened, d)) + Len(t)
      /\ num_hashes = HashesUpTo(positions)[Depth - d] + Len(new_S)
      /\ contents = positions <=> RightFrom(new_S, 1) /\ RightFrom(S, it)
      /\ Opened # {} /\ Opened \subseteq Leaves /\ positions \in Seq(Nat) /\ Ascends(positions)
  <2>1. Opened # {} /\ Opened \subseteq Leaves /\ positions \in Seq(Nat) /\ Ascends(positions)
    BY <1>0, OpenedType DEF Validating, InputsOK
  <2> QED BY <1>2, <2>1, Zenon DEF ValidatingLayer
<1>4. PICK A : S \in Seq(A)
  BY <1>0 DEF Validating
<1>5. PICK B : new_S \in Seq(B)
  BY <1>0 DEF Validating
<1>6. PICK s, w, i : s = NodesIn(S) /\ w = new_S /\ i = it
  BY Zenon
<1>7. Len(S) \in Nat /\ Len(s) = Len(S)
  BY <1>4, <1>6, EntriesType
<1>8. w \in Seq(B) /\ Len(NodesIn(w)) = Len(w) /\ Len(w) \in Nat
  <2>1. w \in Seq(B)
    BY <1>5, <1>6
  <2> QED BY <2>1, EntriesType
<1>9. LoopAt(Opened, d, s, NodesIn(w), i, t)
  BY <1>3, <1>6, Zenon
<1>10. i > Len(s) /\ i > Len(S) /\ i \in Nat
  <2>1. i > Len(s)
    BY <1>0, <1>6, <1>7
  <2>2. i \in 1..(Len(s) + 1)
    BY <1>9, Zenon DEF LoopAt
  <2> QED BY <1>7, <2>1, <2>2
<1>11. /\ d \in 1..Depth /\ d - 1 \in 0..Depth /\ d - 1 \in 0..(Depth - 1)
       /\ Depth - (d - 1) \in 1..Depth /\ (Depth - (d - 1)) - 1 = Depth - d
       /\ Depth - (Depth - (d - 1)) = d - 1 /\ Depth - d \in 0..Depth
  <2>1. /\ d \in 0..Depth /\ Depth \in Nat
        /\ d = 0 => i <= Len(s) /\ i = 1
        /\ d # 0 => d \in 1..Depth
    BY <1>3, <1>9, RootFacts
  <2>2. d \in 1..Depth
    BY <1>7, <1>10, <2>1
  <2> QED BY <2>1, <2>2
<1>12. Lists(NodesIn(w), Path(Opened, d - 1)) /\ t = Sorted(Needed(Opened, d))
  BY <1>3, <1>9, <1>10, <1>11, LoopEnds
<1>13. LoopAt(Opened, d - 1, NodesIn(w), << >>, 1, << >>)
  BY <1>11, <1>12, LoopBegins
<1>14. ValidatingLayer(d - 1, << >>)'
  <2>1. << >> \in Seq(Nat) /\ Len(<< >>) = 0
    OBVIOUS
  <2>2. LoopAt(Opened, d - 1, NodesIn(S), NodesIn(new_S), it, << >>)'
    <3>1. NodesIn(S)' = NodesIn(w) /\ NodesIn(new_S)' = NodesIn(<< >>)
      BY <1>0, <1>6, Zenon DEF NodesIn
    <3>2. NodesIn(<< >>) = << >>
      BY DEF NodesIn
    <3>3. LoopAt(Opened', d - 1, NodesIn(S)', NodesIn(new_S)', it', << >>)
      BY <1>0, <1>1, <1>13, <3>1, <3>2, Zenon
    <3> QED BY <3>3
  <2>3. aux_it' = Len(Upwards(Opened, d - 1)') + Len(<< >>)
    <3> DEFINE u  == Upwards(Opened, d)
               n1 == Sorted(Needed(Opened, d))
    <3>1. Upwards(Opened, d - 1) = u \o n1 /\ u \in Seq(Nat) /\ n1 \in Seq(Nat)
      <4>1. d \in 0..Depth
        BY <1>11
      <4> QED BY <1>3, <1>11, <4>1, UpwardsFacts
    <3>2. Upwards(Opened, d - 1)' = Upwards(Opened, d - 1)
      BY <1>1, Zenon
    <3>3. aux_it' = Len(u) + Len(n1)
      BY <1>0, <1>3, <1>12, Zenon
    <3> HIDE DEF u, n1
    <3>4. Len(u \o n1) = Len(u) + Len(n1) /\ Len(u) \in Nat /\ Len(n1) \in Nat
      BY <3>1
    <3>5. aux_it' = Len(Upwards(Opened, d - 1)')
      BY <3>1, <3>2, <3>3, <3>4, Zenon
    <3> QED BY <2>1, <3>3, <3>4, <3>5
  <2>4. num_hashes' = HashesUpTo(positions)'[Depth - (d - 1)] + Len(new_S')
    <3> DEFINE k == Depth - (d - 1)
               h == HashesUpTo(positions)
    <3>1. HashesUpTo(positions)' = h
      BY <1>1
    <3>2. Len(LevelAbove(positions)[k]) = Len(Sorted(Path(Opened, Depth - k)))
      <4>1. Opened = ToSet(positions)
        BY DEF Opened
      <4> QED BY <1>3, <1>11, <4>1, LevelAboveIsPath
    <3>3. Sorted(Path(Opened, d - 1)) = NodesIn(w)
      <4>1. Path(Opened, d - 1) \subseteq Nodes
        BY <1>3, <1>11, PathFacts, LayerFacts
      <4>2. Lists(Sorted(Path(Opened, d - 1)), Path(Opened, d - 1))
        BY <4>1, SortedLists
      <4> QED BY <1>12, <4>2, ListsUnique
    <3>4. Len(LevelAbove(positions)[k]) = Len(w)
      BY <1>8, <1>11, <3>2, <3>3, Zenon
    <3>5. h[k] = h[k - 1] + Len(LevelAbove(positions)[k]) /\ h[k] \in Nat
      <4>1. k \in 0..Depth
        BY <1>11
      <4> QED BY <1>3, <1>11, <4>1, HashesUpToFacts
    <3>6. num_hashes' = h[Depth - d] + Len(w)
      BY <1>0, <1>3, <1>6, Zenon
    <3> HIDE DEF h, k
    <3>7. k - 1 = Depth - d
      BY <1>11 DEF k
    <3>8. num_hashes' = h[k]
      BY <3>4, <3>5, <3>6, <3>7, Zenon
    <3>9. Len(new_S') = 0
      BY <1>0, <2>1
    <3>10. num_hashes' = h[k] + Len(new_S')
      BY <3>5, <3>8, <3>9
    <3> QED BY <3>1, <3>10 DEF k
  <2>5. (contents = positions)' <=> RightFrom(new_S, 1)' /\ RightFrom(S, it)'
    <3>1. RightFrom(<< >>, 1) /\ RightFrom(S, i)
      BY <1>4, <1>10, RightBehind
    <3>2. RightFrom(new_S, 1)' <=> RightFrom(<< >>, 1)
      BY <1>0, <1>1, Zenon DEF RightFrom
    <3>3. RightFrom(S, it)' <=> RightFrom(w, 1)
      BY <1>0, <1>1, <1>6, Zenon DEF RightFrom
    <3>4. contents = positions <=> RightFrom(w, 1) /\ RightFrom(S, i)
      BY <1>3, <1>6, Zenon
    <3> QED BY <1>1, <3>1, <3>2, <3>3, <3>4, Zenon
  <2> QED BY <2>1, <2>2, <2>3, <2>4, <2>5, Zenon DEF ValidatingLayer
<1>15. Validating'
  <2>1. \E C : S' \in Seq(C)
    BY <1>0, <1>5, Zenon
  <2>2. \E C : new_S' \in Seq(C)
    <3>1. << >> \in Seq({})
      OBVIOUS
    <3> QED BY <1>0, <3>1, Zenon
  <2>3. ~Contradictory' /\ Opened' # {}
    BY <1>0, <1>1, <1>3 DEF Validating
  <2>4. \E D, u : ValidatingLayer(D, u)'
    BY <1>14, Zenon
  <2> QED BY <2>1, <2>2, <2>3, <2>4, Zenon DEF Validating
<1>16. Proved'
  <2>1. aux' = Hashes(Upwards(Opened, 0))'
    BY <1>0, <1>1, Zenon DEF Hashes, Proved
  <2> QED BY <1>1, <2>1, Zenon DEF Proved
<1>17. Constructing' /\ Constructed'
  BY <1>0, <1>1 DEF Constructing, Constructed, treeVars
<1>18. PhaseOK' /\ NothingTaken' /\ LoopIsReset' /\ Waiting' /\ Proving' /\ SaltsOpened' /\ Outcome'
  <2>1. phase' = "validate" /\ phase' \notin Outcomes
    BY <1>0 DEF Outcomes
  <2> QED BY <1>0, <2>1
     DEF PhaseOK, NothingTaken, LoopIsReset, Waiting, Proving, SaltsOpened, Outcome, treeVars
<1> QED BY <1>1, <1>15, <1>16, <1>17, <1>18 DEF MInv

\* The verifier compares the root and decides.
LEMMA EndValidationKeeps == MInv /\ EndValidation => MInv'
<1> SUFFICES ASSUME MInv, EndValidation PROVE MInv'
  OBVIOUS
<1>0. /\ PhaseOK /\ InputsOK /\ Constructed /\ Proved /\ Validating
      /\ phase = "validate" /\ AtRoot(NodesIn(S))
      /\ phase' = (IF aux_it # Len(aux) THEN "exception"
                   ELSE IF S[1].hash = inner_nodes[0] THEN "valid" ELSE "invalid")
      /\ UNCHANGED <<treeVars, inputVars, loopVars, aux, randomness, aux_it, num_hashes>>
  BY DEF MInv, EndValidation, NodesOfLayer, NodesIn
<1>1. /\ HashOf' = HashOf /\ Opened' = Opened /\ InputsOK' /\ (Contradictory' <=> Contradictory)
      /\ make_zk' = make_zk /\ positions' = positions /\ contents' = contents
  <2>1. UNCHANGED inputVars
    BY <1>0
  <2> QED BY <1>0, <2>1, InputsKept DEF inputVars
<1>2. PICK d, t : ValidatingLayer(d, t)
  BY <1>0 DEF Validating
<1>3. /\ LoopAt(Opened, d, NodesIn(S), NodesIn(new_S), it, t)
      /\ t \in Seq(Nat)
      /\ aux_it = Len(Upwards(Opened, d)) + Len(t)
      /\ num_hashes = HashesUpTo(positions)[Depth - d] + Len(new_S)
      /\ contents = positions <=> RightFrom(new_S, 1) /\ RightFrom(S, it)
      /\ Opened # {} /\ Opened \subseteq Leaves /\ positions \in Seq(Nat)
  <2>1. Opened # {} /\ Opened \subseteq Leaves /\ positions \in Seq(Nat)
    BY <1>0, OpenedType DEF Validating
  <2> QED BY <1>2, <2>1, Zenon DEF ValidatingLayer
<1>4. PICK A : S \in Seq(A)
  BY <1>0 DEF Validating
<1>5. PICK B : new_S \in Seq(B)
  BY <1>0 DEF Validating
<1>6. d = 0 /\ it = 1 /\ Depth \in Nat /\ Depth \in 0..Depth /\ 0 \in 0..Depth /\ Depth - d = Depth
  <2>1. d = 0 /\ it = 1 /\ Depth \in Nat
    BY <1>0, <1>3, RootFacts
  <2> QED BY <2>1
<1>7. NodesIn(new_S) = << >> /\ t = << >>
  BY <1>3, <1>6, LoopAtFirst
<1>8. new_S = << >> /\ Len(new_S) = 0
  <2>1. Len(NodesIn(new_S)) = Len(new_S)
    BY <1>5, EntriesType
  <2> QED BY <1>5, <1>7, <2>1
<1>9. Len(S) = 1 /\ S[1].node = 0
  <2>1. /\ Len(S) \in Nat /\ Len(NodesIn(S)) = Len(S)
        /\ \A m \in 1..Len(S) : NodesIn(S)[m] = S[m].node
    BY <1>4, EntriesType
  <2>2. NodesIn(S) = <<0>>
    BY <1>0 DEF AtRoot
  <2> QED BY <2>1, <2>2
<1>10. Upwards(Opened, 0) \in Seq(Nat) /\ aux = Hashes(Upwards(Opened, 0)) /\ aux_it = Len(Upwards(Opened, 0))
       /\ Len(aux) = Len(Upwards(Opened, 0)) /\ Len(aux) \in Nat
  <2>1. Upwards(Opened, 0) \in Seq(Nat)
    BY <1>3, <1>6, UpwardsFacts
  <2>2. aux = Hashes(Upwards(Opened, 0))
    BY <1>0 DEF Proved
  <2>3. Len(aux) = Len(Upwards(Opened, 0)) /\ Len(Upwards(Opened, 0)) \in Nat
    BY <2>1, <2>2, HashesType
  <2>4. aux_it = Len(Upwards(Opened, 0))
    BY <1>3, <1>6, <1>7, <2>3
  <2> QED BY <2>1, <2>2, <2>3, <2>4
<1>11. contents = positions <=> S[1].hash = inner_nodes[0]
  <2>1. RightFrom(<< >>, 1) /\ RightFrom(S, 2)
    BY <1>4, <1>9, RightBehind
  <2>2. RightFrom(S, 1) <=> S[1].hash = HashOf[S[1].node] /\ RightFrom(S, 2)
    <3>1. 1 \in 1..Len(S) /\ 1 + 1 = 2
      BY <1>9
    <3>2. RightFrom(S, 1) <=> S[1].hash = HashOf[S[1].node] /\ RightFrom(S, 1 + 1)
      BY <1>4, <3>1, RightFromStep
    <3> QED BY <3>1, <3>2, Zenon
  <2>3. inner_nodes = HashOf
    BY <1>0 DEF Constructed
  <2> QED BY <1>3, <1>6, <1>8, <1>9, <2>1, <2>2, <2>3, Zenon
<1>12. Outcome'
  <2>1. /\ phase' = IF contents = positions THEN "valid"
                    ELSE IF Contradictory THEN "exception" ELSE "invalid"
    BY <1>0, <1>10, <1>11 DEF Validating
  <2>2. num_hashes' = HashesUpTo(positions)[Depth] /\ num_hashes' \in Nat
    <3>1. HashesUpTo(positions)[Depth] \in Nat
      BY <1>3, <1>6, HashesUpToFacts
    <3> QED BY <1>0, <1>3, <1>6, <1>8, <3>1
  <2>3. HashesUpTo(positions)' = HashesUpTo(positions)
    BY <1>1
  <2>4. it' \in 1..(Len(S') + 1)
    BY <1>0, <1>6, <1>9 DEF loopVars
  <2>5. aux_it' \in Nat /\ aux_it' <= Len(aux')
    BY <1>0, <1>10
  <2>6. num_hashes' = HashesUpTo(positions)'[Depth]
    BY <2>2, <2>3, Zenon
  <2>7. phase' = IF contents' = positions' THEN "valid"
                 ELSE IF Contradictory' THEN "exception" ELSE "invalid"
    BY <1>1, <2>1
  <2> QED BY <2>2, <2>4, <2>5, <2>6, <2>7 DEF Outcome
<1>13. Proved'
  <2>1. aux' = Hashes(Upwards(Opened, 0))'
    BY <1>0, <1>1, Zenon DEF Hashes, Proved
  <2> QED BY <1>1, <2>1, Zenon DEF Proved
<1>14. Constructing' /\ Constructed'
  BY <1>0, <1>1 DEF Constructing, Constructed, treeVars
<1>15. PhaseOK' /\ NothingTaken' /\ LoopIsReset' /\ Waiting' /\ Proving' /\ SaltsOpened' /\ Validating'
  <2>1. phase' \in Outcomes /\ phase' \notin {"construct", "open", "prove", "proved", "validate"}
    BY <1>0 DEF Outcomes
  <2> QED BY <1>0, <2>1
     DEF PhaseOK, NothingTaken, LoopIsReset, Waiting, Proving, SaltsOpened, Validating, treeVars
<1> QED BY <1>1, <1>12, <1>13, <1>14, <1>15 DEF MInv

\* Nothing happens.
LEMMA StutteringKeeps == MInv /\ UNCHANGED vars => MInv'
<1> SUFFICES ASSUME MInv, UNCHANGED vars PROVE MInv'
  OBVIOUS
<1>1. /\ HashOf' = HashOf /\ Opened' = Opened /\ (InputsOK' <=> InputsOK)
      /\ (Contradictory' <=> Contradictory)
  <2>1. UNCHANGED inputVars
    BY DEF vars, inputVars
  <2> QED BY <2>1, InputsKept
<1>2. /\ phase' = phase /\ inner_nodes' = inner_nodes /\ n' = n /\ make_zk' = make_zk
      /\ positions' = positions /\ contents' = contents /\ S' = S /\ new_S' = new_S /\ it' = it
      /\ aux' = aux /\ randomness' = randomness /\ aux_it' = aux_it /\ num_hashes' = num_hashes
  BY DEF vars
<1>3. PhaseOK' /\ InputsOK' /\ Constructing' /\ Constructed' /\ Waiting' /\ NothingTaken' /\ LoopIsReset'
  BY <1>1, <1>2 DEF MInv, PhaseOK, Constructing, Constructed, Waiting, NothingTaken, LoopIsReset
<1>4. Proving' /\ Proved'
  <2>1. \A q : Hashes(q)' = Hashes(q)
    BY <1>1, Zenon DEF Hashes
  <2>2. \A d, t : ProvingLayer(d, t)' <=> ProvingLayer(d, t)
    BY <1>1, <1>2, <2>1, Zenon DEF ProvingLayer
  <2>3. Proving /\ Proved
    BY DEF MInv
  <2>4. Proving'
    BY <1>1, <1>2, <2>2, <2>3, Zenon DEF Proving
  <2>5. Proved'
    BY <1>1, <1>2, <2>1, <2>3, Zenon DEF Proved
  <2> QED BY <2>4, <2>5
<1>5. SaltsOpened'
  <2>1. SaltsOpened
    BY DEF MInv
  <2> QED BY <1>1, <1>2, <2>1, Zenon DEF SaltsOpened, Salts
<1>6. Validating'
  <2>1. \A w, i : RightFrom(w, i)' <=> RightFrom(w, i)
    BY <1>1, Zenon DEF RightFrom
  <2>2. \A d, t : ValidatingLayer(d, t)' <=> ValidatingLayer(d, t)
    BY <1>1, <1>2, <2>1, Zenon DEF ValidatingLayer, RightFrom
  <2>3. Validating
    BY DEF MInv
  <2> QED BY <1>1, <1>2, <2>2, <2>3, Zenon DEF Validating
<1>7. Outcome'
  <2>1. Outcome
    BY DEF MInv
  <2> QED BY <1>1, <1>2, <2>1, Zenon DEF Outcome
<1> QED BY <1>3, <1>4, <1>5, <1>6, <1>7 DEF MInv

\* Every step keeps the invariant.
LEMMA MInvStep == MInv /\ [Next]_vars => MInv'
<1> SUFFICES ASSUME MInv, [Next]_vars PROVE MInv'
  OBVIOUS
<1>1. CASE ConstructLayer
  BY <1>1, ConstructLayerKeeps
<1>2. CASE BeginProof
  BY <1>2, BeginProofKeeps
<1>3. CASE ProveNode
  BY <1>3, ProveNodeKeeps
<1>4. CASE NextLayer
  <2>1. phase = "prove" \/ phase = "validate"
    BY <1>4 DEF NextLayer
  <2> QED BY <1>4, <2>1, NextLayerKeepsProving, NextLayerKeepsValidating
<1>5. CASE EndProof
  BY <1>5, EndProofKeeps
<1>6. CASE BeginValidation
  BY <1>6, BeginValidationKeeps
<1>7. CASE ValidateNode
  BY <1>7, ValidateNodeKeeps
<1>8. CASE EndValidation
  BY <1>8, EndValidationKeeps
<1>9. CASE UNCHANGED vars
  BY <1>9, StutteringKeeps
<1> QED BY <1>1, <1>2, <1>3, <1>4, <1>5, <1>6, <1>7, <1>8, <1>9 DEF Next

-----------------------------------------------------------------------------
(***************************************************************************)
(* What the invariant says of the properties.                              *)
(***************************************************************************)
\* The proof so far is a sequence.
LEMMA AuxType ==
  MInv => /\ Len(aux) \in Nat
          /\ phase \in {"prove", "proved", "validate"} \union Outcomes
               => \E q \in Seq(Nat) : aux = Hashes(q)
<1> SUFFICES ASSUME MInv
             PROVE  /\ Len(aux) \in Nat
                    /\ phase \in {"prove", "proved", "validate"} \union Outcomes
                         => \E q \in Seq(Nat) : aux = Hashes(q)
  OBVIOUS
<1>0. PhaseOK /\ InputsOK /\ Waiting /\ Proving /\ Proved
  BY DEF MInv
<1>1. Opened \subseteq Leaves /\ 0 \in 0..Depth
  BY <1>0, OpenedType, PowerOf2Equation
<1>2. CASE phase \in {"construct", "open"}
  <2>1. aux = << >>
    BY <1>0, <1>2 DEF Waiting
  <2>2. Len(<< >>) \in Nat
    OBVIOUS
  <2> QED BY <1>2, <2>1, <2>2 DEF Outcomes
<1>3. CASE phase = "prove"
  <2>1. PICK d, t : ProvingLayer(d, t)
    BY <1>0, <1>3 DEF Proving
  <2>2. LoopAt(Opened, d, S, new_S, it, t) /\ t \in Seq(Nat) /\ aux = Hashes(Upwards(Opened, d) \o t)
    BY <2>1, Zenon DEF ProvingLayer
  <2>3. d \in 0..Depth
    BY <2>2, Zenon DEF LoopAt
  <2>4. Upwards(Opened, d) \in Seq(Nat)
    BY <1>1, <2>3, UpwardsFacts
  <2>5. Upwards(Opened, d) \o t \in Seq(Nat)
    BY <2>2, <2>4, ConcatType
  <2> QED BY <2>2, <2>5, HashesType
<1>4. CASE phase \in {"proved", "validate"} \union Outcomes
  <2>1. aux = Hashes(Upwards(Opened, 0))
    BY <1>0, <1>4 DEF Proved
  <2>2. Upwards(Opened, 0) \in Seq(Nat)
    BY <1>1, UpwardsFacts
  <2> QED BY <2>1, <2>2, HashesType
<1> QED BY <1>0, <1>2, <1>3, <1>4 DEF PhaseOK

\* A layer of the loops: sorted, in one layer of the tree, no longer than the leaves.
LEMMA LayerType ==
  ASSUME NEW L, L \subseteq Leaves, NEW d, NEW s, NEW up, NEW i, NEW t, LoopAt(L, d, s, up, i, t)
  PROVE  /\ Len(s) \in Nat /\ Len(s) <= NumLeaves /\ i \in 1..(Len(s) + 1)
         /\ \A k \in 1..(Len(s) - 1) : s[k] < s[k + 1]
         /\ \E e \in 0..Depth : \A k \in DOMAIN s : s[k] \in LayerNodes(e)
<1>1. d \in 0..Depth /\ Lists(s, Path(L, d)) /\ i \in 1..(Len(s) + 1)
  BY Zenon DEF LoopAt
<1>2. /\ Len(s) \in Nat /\ DOMAIN s = 1..Len(s)
      /\ \A k \in 1..Len(s) : s[k] \in Path(L, d)
      /\ \A k, m \in 1..Len(s) : k < m => s[k] < s[m]
  BY <1>1, ListsType
<1>3. \A j \in Path(L, d) : j \in LayerNodes(d)
  BY <1>1, PathFacts
<1>4. Len(s) <= NumLeaves
  <2> DEFINE p == PowerOf2[d]
  <2>1. p \in Nat \ {0} /\ p <= NumLeaves /\ NumLeaves \in Nat
    BY <1>1, PowerOf2Type
  <2>2. \A x \in Path(L, d) : p - 1 <= x /\ x <= 2 * p - 2
    <3>1. \A x \in LayerNodes(d) : p - 1 <= x /\ x <= 2 * p - 2
      BY <2>1 DEF LayerNodes
    <3> QED BY <1>3, <3>1
  <2> HIDE DEF p
  <2>3. p - 1 \in Nat /\ 2 * p - 2 \in Nat /\ p - 1 <= (2 * p - 2) + 1
    BY <2>1
  <2>4. Len(s) <= (2 * p - 2) - (p - 1) + 1
    BY <1>1, <2>2, <2>3, ListsLength
  <2> QED BY <1>2, <2>1, <2>4
<1>5. \A k \in 1..(Len(s) - 1) : s[k] < s[k + 1]
  <2>1. \A k \in 1..(Len(s) - 1) : k \in 1..Len(s) /\ k + 1 \in 1..Len(s) /\ k < k + 1
    BY <1>2
  <2> QED BY <1>2, <2>1
<1>6. \A k \in DOMAIN s : s[k] \in LayerNodes(d)
  BY <1>2, <1>3
<1> QED BY <1>1, <1>2, <1>4, <1>5, <1>6

\* The types.
LEMMA MInvTypeOK == MInv => TypeOK
<1> SUFFICES ASSUME MInv PROVE TypeOK
  OBVIOUS
<1>0. /\ PhaseOK /\ InputsOK /\ Constructing /\ Constructed /\ NothingTaken /\ LoopIsReset
      /\ Proving /\ Validating /\ Outcome
  BY DEF MInv
<1>1. Opened \subseteq Leaves /\ positions \in Seq(Nat)
  BY <1>0, OpenedType
<1>2. n \in 0..NumLeaves
  <2>1. CASE phase = "construct"
    <3>1. PICK d \in 0..(Depth - 1) : n = PowerOf2[d] - 1
      BY <1>0, <2>1 DEF Constructing
    <3>2. d \in 0..Depth
      BY PowerOf2Equation
    <3>3. PowerOf2[d] \in Nat \ {0} /\ PowerOf2[d] <= NumLeaves /\ NumLeaves \in Nat
      BY <3>2, PowerOf2Type
    <3> QED BY <3>1, <3>3
  <2>2. CASE phase # "construct"
    BY <1>0, <2>2, PowerOf2Type DEF Constructed
  <2> QED BY <2>1, <2>2
<1>3. CASE phase = "prove"
  <2>1. PICK d, t : ProvingLayer(d, t)
    BY <1>0, <1>3 DEF Proving
  <2>2. LoopAt(Opened, d, S, new_S, it, t)
    BY <2>1, Zenon DEF ProvingLayer
  <2>3. /\ Len(S) \in Nat /\ Len(S) <= NumLeaves /\ it \in 1..(Len(S) + 1)
        /\ \A k \in 1..(Len(S) - 1) : S[k] < S[k + 1]
        /\ \E e \in 0..Depth : \A k \in DOMAIN S : S[k] \in LayerNodes(e)
    BY <1>1, <2>2, LayerType
  <2>4. aux_it = 0 /\ num_hashes = 0
    BY <1>0, <1>3 DEF NothingTaken
  <2>5. LayersAreSorted
    BY <1>3, <2>3 DEF LayersAreSorted
  <2>6. aux_it \in Nat /\ num_hashes \in Nat
    BY <2>4
  <2> QED BY <1>0, <1>2, <2>3, <2>5, <2>6 DEF TypeOK, PhaseOK
<1>4. CASE phase = "validate"
  <2>1. PICK d, t : ValidatingLayer(d, t)
    BY <1>0, <1>4 DEF Validating
  <2>2. /\ LoopAt(Opened, d, NodesIn(S), NodesIn(new_S), it, t)
        /\ aux_it = Len(Upwards(Opened, d)) + Len(t)
        /\ num_hashes = HashesUpTo(positions)[Depth - d] + Len(new_S)
    BY <2>1, Zenon DEF ValidatingLayer
  <2>3. PICK s : s = NodesIn(S)
    BY Zenon
  <2>4. /\ Len(s) \in Nat /\ Len(s) <= NumLeaves /\ it \in 1..(Len(s) + 1)
        /\ \A k \in 1..(Len(s) - 1) : s[k] < s[k + 1]
        /\ \E e \in 0..Depth : \A k \in DOMAIN s : s[k] \in LayerNodes(e)
    <3>1. LoopAt(Opened, d, s, NodesIn(new_S), it, t)
      BY <2>2, <2>3, Zenon
    <3> QED BY <1>1, <3>1, LayerType
  <2>5. Len(S) = Len(s)
    <3>1. PICK A : S \in Seq(A)
      BY <1>0, <1>4 DEF Validating
    <3> QED BY <2>3, <3>1, EntriesType
  <2>6. aux_it \in Nat
    BY <1>1, <2>2, TakenSoFar
  <2>7. num_hashes \in Nat
    <3>1. PICK B : new_S \in Seq(B)
      BY <1>0, <1>4 DEF Validating
    <3>2. Len(new_S) \in Nat
      BY <3>1
    <3>3. Depth - d \in 0..Depth
      <4>1. d \in 0..Depth
        BY <2>2, Zenon DEF LoopAt
      <4> QED BY <4>1, PowerOf2Equation
    <3>4. HashesUpTo(positions)[Depth - d] \in Nat
      BY <1>1, <3>3, HashesUpToFacts
    <3> QED BY <2>2, <3>2, <3>4
  <2>8. LayersAreSorted
    <3>1. NodesOfLayer = s
      BY <2>3 DEF NodesOfLayer, NodesIn
    <3> QED BY <1>4, <2>4, <3>1 DEF LayersAreSorted
  <2>9. it \in 1..(Len(S) + 1) /\ Len(S) <= NumLeaves
    BY <2>4, <2>5
  <2> QED BY <1>0, <1>2, <2>6, <2>7, <2>8, <2>9 DEF TypeOK, PhaseOK
<1>5. CASE phase \in {"construct", "open", "proved"}
  <2>1. S = << >> /\ it = 1 /\ aux_it = 0 /\ num_hashes = 0
    BY <1>0, <1>5 DEF LoopIsReset, NothingTaken
  <2>2. it \in 1..(Len(S) + 1) /\ aux_it \in Nat /\ num_hashes \in Nat
    BY <2>1
  <2>3. phase \notin {"prove", "validate"}
    BY <1>5
  <2> QED BY <1>0, <1>2, <2>2, <2>3 DEF TypeOK, PhaseOK, LayersAreSorted
<1>6. CASE phase \in Outcomes
  <2>1. it \in 1..(Len(S) + 1) /\ aux_it \in Nat /\ num_hashes \in Nat
    BY <1>0, <1>6 DEF Outcome
  <2>2. phase \notin {"prove", "validate"}
    BY <1>6 DEF Outcomes
  <2> QED BY <1>0, <1>2, <2>1, <2>2 DEF TypeOK, PhaseOK, LayersAreSorted
<1> QED BY <1>0, <1>3, <1>4, <1>5, <1>6 DEF PhaseOK

\* The proof is what is needed.
LEMMA MInvProofIsMinimal == MInv => ProofIsMinimal
<1> SUFFICES ASSUME MInv, phase = "proved" PROVE ProofIsMinimal
  BY DEF ProofIsMinimal
<1>0. InputsOK /\ Proved
  BY DEF MInv
<1>1. Opened \subseteq Leaves /\ Opened = ToSet(positions) /\ Depth \in Nat
  BY <1>0, OpenedType, PowerOf2Equation DEF Opened
<1> DEFINE needed     == {j \in Nodes \ ({0} \union PathNodes) : Parent(j) \in PathNodes}
           onLayer(d) == Sorted(needed \intersect LayerNodes(d))
           upwards    == FlattenSeq([k \in 1..Depth |-> onLayer(Depth + 1 - k)])
<1>2. ASSUME NEW k \in 1..Depth PROVE onLayer(Depth + 1 - k) = Sorted(Needed(Opened, Depth + 1 - k))
  <2>1. Depth + 1 - k \in 1..Depth
    BY <1>1
  <2>2. needed \intersect LayerNodes(Depth + 1 - k) = Needed(Opened, Depth + 1 - k)
    BY <1>1, <2>1, NeededByLayer
  <2> HIDE DEF needed
  <2> QED BY <2>2, Zenon
<1> HIDE DEF onLayer
<1>3. Depth - 0 = Depth
  BY <1>1
<1>4. [k \in 1..Depth |-> onLayer(Depth + 1 - k)]
        = [k \in 1..(Depth - 0) |-> Sorted(Needed(Opened, Depth + 1 - k))]
  <2>1. [k \in 1..Depth |-> onLayer(Depth + 1 - k)]
          = [k \in 1..Depth |-> Sorted(Needed(Opened, Depth + 1 - k))]
    BY <1>2, Zenon
  <2> QED BY <1>3, <2>1, Zenon
<1>5. upwards = Upwards(Opened, 0)
  BY <1>4, Zenon DEF Upwards
<1> HIDE DEF upwards
<1>6. aux = [i \in DOMAIN upwards |-> HashOf[upwards[i]]]
  BY <1>0, <1>5, Zenon DEF Proved, Hashes
<1> QED BY <1>6, Zenon DEF ProofIsMinimal, upwards, onLayer, needed

\* The verdict, and that the proof does not run out.
LEMMA MInvValidates == MInv => ValidatesExactlyTheLeaves
<1> SUFFICES ASSUME MInv PROVE ValidatesExactlyTheLeaves
  OBVIOUS
<1>0. PhaseOK /\ InputsOK /\ NothingTaken /\ Proved /\ Validating /\ Outcome
  BY DEF MInv
<1>1. Len(aux) \in Nat
  BY AuxType
<1>2. aux_it <= Len(aux)
  <2>1. CASE phase \in {"construct", "open", "prove", "proved"}
    BY <1>0, <1>1, <2>1 DEF NothingTaken
  <2>2. CASE phase = "validate"
    <3>1. PICK d, t : ValidatingLayer(d, t)
      BY <1>0, <2>2 DEF Validating
    <3>2. LoopAt(Opened, d, NodesIn(S), NodesIn(new_S), it, t) /\ aux_it = Len(Upwards(Opened, d)) + Len(t)
      BY <3>1, Zenon DEF ValidatingLayer
    <3>3. Opened \subseteq Leaves /\ 0 \in 0..Depth
      BY <1>0, OpenedType, PowerOf2Equation
    <3>4. Len(Upwards(Opened, d)) + Len(t) <= Len(Upwards(Opened, 0))
      BY <3>2, <3>3, TakenSoFar
    <3>5. aux = Hashes(Upwards(Opened, 0))
      BY <1>0, <2>2 DEF Proved
    <3>6. Upwards(Opened, 0) \in Seq(Nat)
      BY <3>3, UpwardsFacts
    <3>7. Len(aux) = Len(Upwards(Opened, 0))
      BY <3>5, <3>6, HashesType
    <3> QED BY <3>2, <3>4, <3>7
  <2>3. CASE phase \in Outcomes
    BY <1>0, <2>3 DEF Outcome
  <2> QED BY <1>0, <2>1, <2>2, <2>3 DEF PhaseOK
<1> QED BY <1>0, <1>2 DEF ValidatesExactlyTheLeaves, Outcome

-----------------------------------------------------------------------------
(***************************************************************************)
(* The theorems.                                                           *)
(***************************************************************************)
\* The inductive invariant of the tree, the proof and its validation.
THEOREM MInvAlways == Spec => []MInv
<1>1. Init => MInv
  BY MInvInit
<1>2. MInv /\ [Next]_vars => MInv'
  BY MInvStep
<1> QED BY <1>1, <1>2, PTL DEF Spec

\* For every depth and every vector of positions, both loops go through one layer at a time,
\* sorted and without repetition, and never outgrow the leaves.
THEOREM TypesHold == Spec => []TypeOK
<1>1. MInv => TypeOK
  BY MInvTypeOK
<1> QED BY <1>1, MInvAlways, PTL

\* For every depth, compute_inner_nodes leaves every node with the hash of its children.
THEOREM TreeIsAlwaysComplete == Spec => []TreeIsComplete
<1>1. MInv => TreeIsComplete
  BY DEF MInv, Constructed, TreeIsComplete
<1> QED BY <1>1, MInvAlways, PTL

\* For every depth and every set of leaves, get_set_membership_proof puts into the proof
\* exactly the siblings that cannot be computed, from the leaves up and from left to right.
THEOREM ProofIsAlwaysMinimal == Spec => []ProofIsMinimal
<1>1. MInv => ProofIsMinimal
  BY MInvProofIsMinimal
<1> QED BY <1>1, MInvAlways, PTL

\* For every depth and every vector of sorted positions, validate_set_membership_proof accepts
\* the proof with the leaves' own contents, refuses it with others, throws exactly for
\* contradictory ones, and never reads past the end of the proof.
THEOREM ValidatesExactly == Spec => []ValidatesExactlyTheLeaves
<1>1. MInv => ValidatesExactlyTheLeaves
  BY MInvValidates
<1> QED BY <1>1, MInvAlways, PTL

\* For every depth and every vector of sorted positions that is not empty,
\* count_hashes_to_verify_set_membership_proof is the number of hashes the validation computes.
THEOREM HashCountIsAlwaysExact == Spec => []HashCountIsExact
<1>1. MInv => HashCountIsExact
  BY DEF MInv, Outcome, HashCountIsExact, HashesToVerify, Outcomes
<1> QED BY <1>1, MInvAlways, PTL

=============================================================================
