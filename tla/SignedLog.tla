------------------------------ MODULE SignedLog -------------------------------
(***************************************************************************)
(* LogStore and Merkle composed: the roots that the log commands sign as   *)
(* third parties see them, who have the notes, the proofs that `log prove` *)
(* builds from the tree of an open store, and `log verify`, but not the    *)
(* directory.                                                              *)
(***************************************************************************)
EXTENDS LogStore, Merkle

\* The root under a note, as its signature covers it.
NoteRoot(s) == Root(s.pin.root_hash)

(***************************************************************************)
(* An index that append reported can be proved to everyone: under every    *)
(* note ever signed that is large enough to cover it, before or after any  *)
(* crash, repair or damage of leaf files, the inclusion proof of           *)
(* prove_inclusion verifies with the bytes that were appended, and with no *)
(* others.                                                                 *)
(***************************************************************************)
AckedIsProvable ==
  \A a \in acked, s \in signed : a.index < s.pin.tree_size =>
    \A d \in Bytes :
      VerifyInclusionRaw(NoteRoot(s), d, a.index, InclusionPath(s.pin.root_hash, a.index))
        <=> d = a.data

(***************************************************************************)
(* Any two notes ever signed, by whichever of the commands, are linked:    *)
(* they have one origin, and the consistency proof of prove_consistency    *)
(* from the smaller to the larger tree verifies, unless the smaller one is *)
(* empty, for which there is none.                                         *)
(***************************************************************************)
SignedAreLinked ==
  \A s, t \in signed :
    /\ s.origin = t.origin
    /\ 0 < s.pin.tree_size /\ s.pin.tree_size <= t.pin.tree_size =>
         VerifyConsistency(NoteRoot(s), NoteRoot(t),
                           ConsistencyPath(t.pin.root_hash, s.pin.tree_size))

===============================================================================
