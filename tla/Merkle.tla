------------------------------- MODULE Merkle -------------------------------
(***************************************************************************)
(* MerkleTree of src/src/crypto/merkle.rs: new, root, proof, leaf, update  *)
(* and the free function verify, on the code's flattened node array (root *)
(* at 0, layers stored top-down, each odd layer padded with a copy of its  *)
(* last node) and with the code's offset arithmetic.                       *)
(*                                                                         *)
(* keccak is modelled as a perfect hash: a digest is the tuple of what was *)
(* hashed, so two digests are equal only if their inputs are. A leaf       *)
(* digest hashes one value, an inner digest two digests (64 bytes), and    *)
(* the zero hash [0; 32] is the empty tuple, the digest of nothing.        *)
(***************************************************************************)
EXTENDS Naturals, Sequences, FiniteSets

CONSTANTS
  Values,     \* the data the leaves hold
  MaxLeaves   \* the longest leaf sequence a tree is built from

ASSUME MerkleAssumption ==
  /\ IsFiniteSet(Values)
  /\ MaxLeaves \in Nat

Zero == <<>>
LeafHash(x) == <<x>>

(* A plausible bug: the right child copied over the left half of the      *)
(* 64-byte buffer, so a parent no longer depends on its left child.       *)
Hash2DropsLeft(l, r) == <<r, r>>

(* keccak of the 64 bytes left ++ right (the code's bytes[..32], [32..]). *)
Hash2(l, r) == <<l, r>>

-----------------------------------------------------------------------------
(* Layer sizes. *)

(* The sizing loop of new (and of verify): the pre-padding size of each   *)
(* layer from the leaves up; an odd size is rounded up before halving, and *)
(* the loop stops at a layer of size 1.                                    *)
SizesFrom[s \in Nat] ==
  IF s <= 1 THEN <<s>> ELSE <<s>> \o SizesFrom[(s + (s % 2)) \div 2]

(* data_size: [0] for an empty tree. *)
DataSizes(n) == IF n = 0 THEN <<0>> ELSE SizesFrom[n]

(* layer_size: a layer's size after padding; the root layer stays 1. *)
Padded(d) == IF d = 1 THEN 1 ELSE d + (d % 2)

(* Where layer k (1 = leaves) starts in the array: after all layers above. *)
Above(ds, k) ==
  LET f[j \in 0..Len(ds)] ==
        IF j = 0 THEN 0 ELSE f[j - 1] + (IF j > k THEN Padded(ds[j]) ELSE 0)
  IN  f[Len(ds)]

(* tree_size, the length of nodes. *)
TreeSize(ds) == Above(ds, 0)

-----------------------------------------------------------------------------
(* A plausible bug: the copy into an odd layer's padding slot (the        *)
(* "if l != d" blocks) dropped, the slot keeping its zero default.         *)
NewNoPadCopy(leaves) ==
  LET n == Len(leaves)
      ds == DataSizes(n)
      layer[k \in 1..Len(ds)] ==
        LET prev == IF k = 1 THEN <<>> ELSE layer[k - 1]
            real(i) == IF k = 1 THEN LeafHash(leaves[i + 1])
                       ELSE Hash2(prev[2 * i], prev[2 * i + 1])
        IN  [i \in 0..Padded(ds[k]) - 1 |->
               IF i < ds[k] THEN real(i) ELSE Zero]
      LayerOf(p) == CHOOSE k \in 1..Len(ds) :
                      Above(ds, k) <= p /\ p < Above(ds, k) + Padded(ds[k])
  IN  IF n = 0
      THEN [data_size |-> ds, nodes |-> [p \in {} |-> Zero]]
      ELSE [data_size |-> ds,
            nodes |-> [p \in 0..TreeSize(ds) - 1 |->
                         layer[LayerOf(p)][p - Above(ds, LayerOf(p))]]]

(* MerkleTree::new: hash the leaves into the bottom layer, then each parent *)
(* from its two children, copying the last node into an odd layer's        *)
(* padding slot. A tree is a record of data_size and nodes, nodes being a  *)
(* function on 0..tree_size-1.                                              *)
New(leaves) ==
  LET n == Len(leaves)
      ds == DataSizes(n)
      layer[k \in 1..Len(ds)] ==
        LET prev == IF k = 1 THEN <<>> ELSE layer[k - 1]
            real(i) == IF k = 1 THEN LeafHash(leaves[i + 1])
                       ELSE Hash2(prev[2 * i], prev[2 * i + 1])
        IN  [i \in 0..Padded(ds[k]) - 1 |->
               IF i < ds[k] THEN real(i) ELSE real(ds[k] - 1)]
      LayerOf(p) == CHOOSE k \in 1..Len(ds) :
                      Above(ds, k) <= p /\ p < Above(ds, k) + Padded(ds[k])
  IN  IF n = 0
      THEN [data_size |-> ds, nodes |-> [p \in {} |-> Zero]]
      ELSE [data_size |-> ds,
            nodes |-> [p \in 0..TreeSize(ds) - 1 |->
                         layer[LayerOf(p)][p - Above(ds, LayerOf(p))]]]

(* nodes.len() *)
NodeCount(t) == Cardinality(DOMAIN t.nodes)

(* Where the leaf layer starts: nodes.len() - data_size[0] (- 1 if odd). *)
LeafStart(t) == NodeCount(t) - t.data_size[1] - (t.data_size[1] % 2)

(* root(): the zero hash for a tree without nodes. *)
Root(t) == IF NodeCount(t) = 0 THEN Zero ELSE t.nodes[0]

(* leaf(index): the zero hash out of range. *)
Leaf(t, index) ==
  CASE index >= t.data_size[1] -> Zero
    [] t.data_size[1] = 1      -> t.nodes[0]
    [] OTHER                   -> t.nodes[LeafStart(t) + index]

(* The sibling of position p: p + 1 for an odd (left) position. *)
Sibling(p) == IF p % 2 = 1 THEN p + 1 ELSE p - 1

(* A plausible bug: the next layer's start computed without the padding   *)
(* slot of an odd layer.                                                   *)
ProofNoPadOffset(t, index) ==
  LET ds == t.data_size
      start[j \in 0..Len(ds) - 2] ==
        IF j = 0 THEN LeafStart(t) ELSE start[j - 1] - ds[j + 1]
  IN  IF Len(ds) = 1 \/ index >= ds[1] THEN <<>>
      ELSE [j \in 1..Len(ds) - 1 |->
              t.nodes[Sibling(start[j - 1] + index \div 2^(j - 1))]]

(* proof(index): the sibling of the node on the path at every layer below  *)
(* the root, walking up with layer_start and index >>= 1; empty for a tree *)
(* of at most one leaf or an index out of range.                           *)
Proof(t, index) ==
  LET ds == t.data_size
      start[j \in 0..Len(ds) - 2] ==
        IF j = 0 THEN LeafStart(t)
        ELSE start[j - 1] - ds[j + 1] - (ds[j + 1] % 2)
  IN  IF Len(ds) = 1 \/ index >= ds[1] THEN <<>>
      ELSE [j \in 1..Len(ds) - 1 |->
              t.nodes[Sibling(start[j - 1] + index \div 2^(j - 1))]]

(* verify: recompute the padded layer sizes from leaf_size, reject a bad   *)
(* index or a proof of the wrong length, then fold the proof from the leaf *)
(* up, the running digest on the left when its absolute position is odd.   *)
Verify(root, data, proof, index, leaf_size) ==
  IF index >= leaf_size THEN FALSE
  ELSE
    LET ls == [k \in 1..Len(SizesFrom[leaf_size]) |->
                 Padded(SizesFrom[leaf_size][k])]
        start0 == TreeSize(SizesFrom[leaf_size]) - ls[1]
        step[j \in 0..Len(proof)] ==
          IF j = 0 THEN [acc |-> data, start |-> start0, idx |-> index, ok |-> TRUE]
          ELSE LET s == step[j - 1]
                   ni == s.start + s.idx
               IN  IF ~s.ok \/ ni = 0 THEN [s EXCEPT !.ok = FALSE]
                   ELSE [acc |-> IF ni % 2 = 1 THEN Hash2(s.acc, proof[j])
                                 ELSE Hash2(proof[j], s.acc),
                         start |-> s.start - ls[j + 1],
                         idx |-> s.idx \div 2,
                         ok |-> TRUE]
    IN  /\ Len(ls) = Len(proof) + 1
        /\ step[Len(proof)].ok
        /\ step[Len(proof)].acc = root

(* A plausible bug: the duplicate node of an odd layer not refreshed. *)
UpdateNoDupRefresh(t, index, data) ==
  LET ds == t.data_size
      L == Len(ds)
      last == LeafStart(t)
      st[layer \in 0..L] ==
        IF layer = 0 THEN [nodes |-> t.nodes, ls |-> last, idx |-> index]
        ELSE
          LET s == st[layer - 1]
              d == ds[layer]
              ni == s.ls + s.idx
              left == s.ls + 2 * s.idx + d + (d % 2)
              val == CASE ni >= last -> LeafHash(data)
                       [] ni > 0     -> Hash2(s.nodes[left], s.nodes[left + 1])
                       [] OTHER      -> Hash2(s.nodes[1], s.nodes[2])
              n1 == [s.nodes EXCEPT ![ni] = val]
              n2 == n1
              nls == CASE layer = L     -> s.ls
                       [] layer = L - 1 -> 0
                       [] OTHER         -> s.ls - ds[layer + 1] - (ds[layer + 1] % 2)
          IN  [nodes |-> n2, ls |-> nls, idx |-> s.idx \div 2]
  IN  CASE index >= ds[1] -> t
        [] ds[1] = 1      -> [t EXCEPT !.nodes[0] = LeafHash(data)]
        [] OTHER          -> [t EXCEPT !.nodes = st[L].nodes]

(* update(index, data): rehash the leaf, then every ancestor from its two  *)
(* current children (the root from nodes[1] and nodes[2]), refreshing the  *)
(* padding copy whenever the node written is the last real node of an odd *)
(* layer; a no-op out of range.                                            *)
Update(t, index, data) ==
  LET ds == t.data_size
      L == Len(ds)
      last == LeafStart(t)
      st[layer \in 0..L] ==
        IF layer = 0 THEN [nodes |-> t.nodes, ls |-> last, idx |-> index]
        ELSE
          LET s == st[layer - 1]
              d == ds[layer]
              ni == s.ls + s.idx
              left == s.ls + 2 * s.idx + d + (d % 2)
              val == CASE ni >= last -> LeafHash(data)
                       [] ni > 0     -> Hash2(s.nodes[left], s.nodes[left + 1])
                       [] OTHER      -> Hash2(s.nodes[1], s.nodes[2])
              n1 == [s.nodes EXCEPT ![ni] = val]
              n2 == IF ni = s.ls + d - 1 /\ ni % 2 = 1
                    THEN [n1 EXCEPT ![ni + 1] = n1[ni]] ELSE n1
              nls == CASE layer = L     -> s.ls
                       [] layer = L - 1 -> 0
                       [] OTHER         -> s.ls - ds[layer + 1] - (ds[layer + 1] % 2)
          IN  [nodes |-> n2, ls |-> nls, idx |-> s.idx \div 2]
  IN  CASE index >= ds[1] -> t
        [] ds[1] = 1      -> [t EXCEPT !.nodes[0] = LeafHash(data)]
        [] OTHER          -> [t EXCEPT !.nodes = st[L].nodes]

-----------------------------------------------------------------------------
(* A tree owned by one structure, built once and then changed only by     *)
(* update calls. leaves is the sequence the tree should stand for: the    *)
(* built-from leaves with every in-range update applied.                  *)
VARIABLES tree, leaves

vars == <<tree, leaves>>

LeafSeqs == UNION {[1..n -> Values] : n \in 0..MaxLeaves}

(* A tree is built from a sequence of one repeated value; update then     *)
(* rewrites it into every other sequence of that length.                   *)
Init ==
  \E n \in 0..MaxLeaves, v \in Values :
     /\ leaves = [i \in 1..n |-> v]
     /\ tree = New(leaves)

UpdateLeaf(index, v) ==
  /\ tree' = Update(tree, index, v)
  /\ leaves' = IF index < Len(leaves) THEN [leaves EXCEPT ![index + 1] = v]
               ELSE leaves

Next == \E index \in 0..MaxLeaves, v \in Values : UpdateLeaf(index, v)

Spec == Init /\ [][Next]_vars

-----------------------------------------------------------------------------
(* The shape new gives: data_size from the sizing loop, one node for every *)
(* padded slot of every layer, and no slot left at its zero default.       *)
TypeOK ==
  /\ leaves \in LeafSeqs
  /\ tree.data_size = DataSizes(Len(leaves))
  /\ DOMAIN tree.nodes = 0..TreeSize(tree.data_size) - 1
  /\ \A p \in DOMAIN tree.nodes : tree.nodes[p] # Zero

(* After any sequence of updates, in range or not, the tree is node for    *)
(* node the tree new builds from the updated leaves: update walks the      *)
(* same offsets as new and refreshes every padding copy it must.           *)
UpdateAgreesWithNew == tree = New(leaves)

(* Every leaf's proof verifies against the root with the leaf count: proof *)
(* and verify agree on every layer boundary and padding offset.            *)
ProofsVerify ==
  \A i \in 0..Len(leaves) - 1 :
     Verify(Root(tree), LeafHash(leaves[i + 1]), Proof(tree, i), i, Len(leaves))

(* The digests a forger can put in a proof: any node of the tree, or zero. *)
Forgeries ==
  [1..Len(tree.data_size) - 1 -> {tree.nodes[p] : p \in DOMAIN tree.nodes} \cup {Zero}]

(* verify binds a leaf to its index: no proof made of the tree's own nodes *)
(* convinces it that position i holds anything but the leaf stored there. *)
VerifyBindsLeaf ==
  \A i \in 0..Len(leaves) - 1, v \in Values, p \in Forgeries :
     Verify(Root(tree), LeafHash(v), p, i, Len(leaves)) => v = leaves[i + 1]

(* The root commits to the leaf sequence: no other sequence of at most     *)
(* MaxLeaves leaves builds a tree with the same root. Duplicating the last *)
(* node into the padding slot of an odd layer gives the tree of a, b, c    *)
(* the root of the tree of a, b, c, c; verify then only tells them apart   *)
(* by the leaf_size its caller passes in.                                  *)
RootBindsLeaves ==
  \A l \in LeafSeqs : Root(New(l)) = Root(tree) => l = leaves
=============================================================================
