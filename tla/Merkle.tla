------------------------------- MODULE Merkle -------------------------------
(***************************************************************************)
(* The append-only Merkle tree of crates/lys-core/src/merkle.  A tree is   *)
(* the sequence of its leaves.  SHA-256 is taken to be collision free: a   *)
(* hash is the term that was hashed.  lys wraps the ct-merkle crate, whose *)
(* proofs and verification are modelled as RFC 6962 defines them, which is *)
(* what the comments in proof.rs promise; the guards that lys puts before  *)
(* them are its own.                                                       *)
(***************************************************************************)
EXTENDS Naturals, Sequences

\* The hash of a raw leaf, of an inner node and of the empty tree: the prefixes
\* 0x00 and 0x01 of RFC 6962 keep leaves and nodes apart.
LeafHash(d) == <<"leaf", d>>
NodeHash(l, r) == <<"node", l, r>>
EmptyHash == <<"empty">>

\* A recomputation that ran out of proof nodes, or has some left over.
BadHash == <<"bad">>

Positive == Nat \ {0}

\* No divisor is odd, 1 apart.
IsPowerOfTwo(k) == \A d \in 2..k : k % d = 0 => d % 2 = 0

\* The largest power of two below n, for n > 1.
Split(n) == CHOOSE k \in 1..(n - 1) : n <= 2 * k /\ IsPowerOfTwo(k)

\* 2^h, the number of leaves of a complete tree of height h.
TwoTo[h \in Nat] == IF h = 0 THEN 1 ELSE 2 * TwoTo[h - 1]

\* The hash of each run of leaves; <<lo, n>> is the n leaves after the first lo.
SubtreeHashes(leaves) ==
  LET Sub[run \in Nat \X Positive] ==
        LET lo == run[1]  n == run[2]  k == Split(n) IN
        IF n = 1 THEN LeafHash(leaves[lo + 1])
        ELSE NodeHash(Sub[<<lo, k>>], Sub[<<lo + k, n - k>>])
  IN Sub

\* The Merkle tree hash of a sequence of leaves.
TreeHash(leaves) ==
  IF leaves = << >> THEN EmptyHash ELSE SubtreeHashes(leaves)[<<0, Len(leaves)>>]

\* RootHash: the hash together with the number of leaves.
Root(tree) == [hash |-> TreeHash(tree), num_leaves |-> Len(tree)]

-----------------------------------------------------------------------------
\* Inclusion: the siblings on the way from a leaf to the root of each run of
\* leaves, and of the tree.

InclusionPaths(leaves, i) ==
  LET Up[run \in Nat \X Positive] ==
        LET lo == run[1]  n == run[2]  k == Split(n) IN
        IF n = 1 THEN << >>
        ELSE IF i < lo + k
        THEN Append(Up[<<lo, k>>], SubtreeHashes(leaves)[<<lo + k, n - k>>])
        ELSE Append(Up[<<lo + k, n - k>>], SubtreeHashes(leaves)[<<lo, k>>])
  IN Up

InclusionPath(leaves, i) == InclusionPaths(leaves, i)[<<0, Len(leaves)>>]

\* The roots that a leaf hash and the first `used` nodes of a path lead to, for
\* index x of m.
PathHashes(h, path) ==
  LET Climb[at \in Nat \X Positive \X Nat] ==
        LET x == at[1]  m == at[2]  used == at[3]  k == Split(m) IN
        IF m = 1 THEN (IF used = 0 THEN h ELSE BadHash)
        ELSE IF used = 0 THEN BadHash
        ELSE IF x < k
        THEN NodeHash(Climb[<<x, k, used - 1>>], path[used])
        ELSE NodeHash(path[used], Climb[<<x - k, m - k, used - 1>>])
  IN Climb

\* The root that a leaf hash at index i of n and a path lead to.
RootFromPath(h, i, n, path) == PathHashes(h, path)[<<i, n, Len(path)>>]

\* AppendOnlyTree::prove_inclusion: an index past the last leaf is an error.
CanProveInclusion(tree, i) == i < Len(tree)

VerifyInclusionRaw(root, d, i, path) ==
  /\ i < root.num_leaves
  /\ RootFromPath(LeafHash(d), i, root.num_leaves, path) = root.hash

-----------------------------------------------------------------------------
\* Consistency: the nodes from which the old and the new root both follow.

\* m old leaves in a subtree of n, whether they are the whole old tree or a part
\* of it, and the position in the leaves or in the proof.
OldInNew == {at \in Positive \X Positive \X {"whole", "part"} \X Nat : at[1] <= at[2]}

ConsistencyPaths(leaves) ==
  LET Sub[at \in OldInNew] ==
        LET m == at[1]  n == at[2]  of == at[3]  lo == at[4]  k == Split(n) IN
        IF m = n
        THEN IF of = "whole" THEN << >> ELSE << SubtreeHashes(leaves)[<<lo, n>>] >>
        ELSE IF m <= k
        THEN Append(Sub[<<m, k, of, lo>>], SubtreeHashes(leaves)[<<lo + k, n - k>>])
        ELSE Append(Sub[<<m - k, n - k, "part", lo + k>>], SubtreeHashes(leaves)[<<lo, k>>])
  IN Sub

ConsistencyPath(leaves, old) == ConsistencyPaths(leaves)[<<old, Len(leaves), "whole", 0>>]

\* The old and the new roots that the first `used` nodes of a proof lead to, for
\* m of n leaves; `oldHash` stands for the old tree where that is a complete
\* subtree of the new one.
ProofHashes(oldHash, proof) ==
  LET Climb[at \in OldInNew] ==
        LET m == at[1]  n == at[2]  of == at[3]  used == at[4]  k == Split(n) IN
        IF m = n
        THEN IF of = "whole" /\ used = 0 THEN <<oldHash, oldHash>>
             ELSE IF of = "part" /\ used = 1 THEN <<proof[1], proof[1]>>
             ELSE <<BadHash, BadHash>>
        ELSE IF used = 0 THEN <<BadHash, BadHash>>
        ELSE IF m <= k
        THEN LET r == Climb[<<m, k, of, used - 1>>]
             IN <<r[1], NodeHash(r[2], proof[used])>>
        ELSE LET r == Climb[<<m - k, n - k, "part", used - 1>>]
             IN <<NodeHash(proof[used], r[1]), NodeHash(proof[used], r[2])>>
  IN Climb

\* The old and the new root that a whole proof leads to.
RootsFromProof(oldHash, old, new, proof) ==
  ProofHashes(oldHash, proof)[<<old, new, "whole", Len(proof)>>]

\* AppendOnlyTree::prove_consistency: an empty old tree, or one larger than
\* the tree, is an error.
CanProveConsistency(tree, old, new) == new = Len(tree) /\ old # 0 /\ old <= new

VerifyConsistency(oldRoot, newRoot, proof) ==
  /\ oldRoot.num_leaves # 0 /\ oldRoot.num_leaves <= newRoot.num_leaves
  /\ RootsFromProof(oldRoot.hash, oldRoot.num_leaves, newRoot.num_leaves, proof)
       = <<oldRoot.hash, newRoot.hash>>

=============================================================================
