-------------------------------- MODULE Tlog --------------------------------
(***************************************************************************)
(* Proof artifacts of transparency logs (crates/lys-core/src/tlog): how    *)
(* they are built from a tree and a signing identity, and how a third      *)
(* party verifies them (`lys log verify`).  The state is the trees of some *)
(* logs.  Two of them may have the same origin and the same key, as when a *)
(* log directory is restored from a backup and goes on in two copies, and  *)
(* one key may sign for several origins.                                   *)
(*                                                                         *)
(* Artifacts, once published, are kept by others, and travel as JSON that  *)
(* anybody can edit.  So everything that was buildable at some time is     *)
(* taken to be published, and what a verifier is given is put together     *)
(* from the fields of everything published.                                *)
(***************************************************************************)
EXTENDS Merkle, Checkpoint

CONSTANTS
  Logs,                  \* log directories
  OriginOf, KeyOf,       \* the origin of each log and the key that signs for it
  Leaves,                \* leaf contents
  MaxSizeOf,             \* bound on the size of each log
  MaxJsonTreeSize,       \* MAX_JSON_TREE_SIZE
  MaxInclusionHashes,    \* MAX_INCLUSION_HASHES
  MaxConsistencyHashes   \* MAX_CONSISTENCY_HASHES

ASSUME LogsAssumption ==
  OriginOf \in [Logs -> Names] /\ KeyOf \in [Logs -> Keys] /\ MaxSizeOf \in [Logs -> Nat]
ASSUME GuardsAssumption ==
  {MaxJsonTreeSize, MaxInclusionHashes, MaxConsistencyHashes} \subseteq Nat

\* The caps admit the proofs of every tree that JSON can carry (the comments on
\* them in tlog/verify.rs), and the note of a checkpoint without extensions.
ASSUME HonestSizesAssumption ==
  /\ MaxJsonTreeSize - 1 <= TwoTo[MaxInclusionHashes]
  /\ MaxConsistencyHashes # 0 /\ MaxJsonTreeSize - 1 <= TwoTo[MaxConsistencyHashes - 1]
  /\ MaxNoteLines >= 5

VARIABLE tree            \* the leaves of each log

Init == tree = [l \in Logs |-> << >>]

\* AppendOnlyTree::append_raw
AppendRaw(l, d) ==
  /\ Len(tree[l]) < MaxSizeOf[l]
  /\ tree' = [tree EXCEPT ![l] = Append(@, d)]

Next == \E l \in Logs, d \in Leaves : AppendRaw(l, d)

Spec == Init /\ [][Next]_tree

-----------------------------------------------------------------------------
\* A hash entry that is not the canonical base64 of 32 bytes.
Junk == <<"junk">>

\* decode_hashes
Decodes(hashes) == Junk \notin Range(hashes)

\* Mutant: the size in the artifact is not compared with the signed one.
VerifyInclusionAnySize(a, d, v) ==
  /\ a.format = "inclusion"
  /\ a.tree_size < MaxJsonTreeSize
  /\ a.leaf_index < a.tree_size
  /\ Len(a.hashes) <= MaxInclusionHashes
  /\ Decodes(a.hashes)
  /\ VerifyCheckpoint(a.checkpoint, v)
  /\ VerifyInclusionRaw(ParsedRoot(a.checkpoint), d, a.leaf_index, a.hashes)

VerifyInclusionArtifact(a, d, v) ==
  /\ a.format = "inclusion"
  /\ a.tree_size < MaxJsonTreeSize
  /\ a.leaf_index < a.tree_size
  /\ Len(a.hashes) <= MaxInclusionHashes
  /\ Decodes(a.hashes)
  /\ VerifyCheckpoint(a.checkpoint, v)
  /\ ParsedRoot(a.checkpoint).num_leaves = a.tree_size
  /\ VerifyInclusionRaw(ParsedRoot(a.checkpoint), d, a.leaf_index, a.hashes)

\* Mutant: the old checkpoint is taken as it is.
VerifyConsistencyOneNote(a, v) ==
  /\ a.format = "consistency"
  /\ 0 < a.tree_size_1 /\ a.tree_size_1 < a.tree_size_2
  /\ a.tree_size_2 < MaxJsonTreeSize
  /\ Len(a.hashes) <= MaxConsistencyHashes
  /\ Decodes(a.hashes)
  /\ VerifyCheckpoint(a.checkpoint_2, v)
  /\ ParsedRoot(a.checkpoint_1).num_leaves = a.tree_size_1
  /\ ParsedRoot(a.checkpoint_2).num_leaves = a.tree_size_2
  /\ VerifyConsistency(ParsedRoot(a.checkpoint_1), ParsedRoot(a.checkpoint_2), a.hashes)

VerifyConsistencyArtifact(a, v) ==
  /\ a.format = "consistency"
  /\ 0 < a.tree_size_1 /\ a.tree_size_1 < a.tree_size_2
  /\ a.tree_size_2 < MaxJsonTreeSize
  /\ Len(a.hashes) <= MaxConsistencyHashes
  /\ Decodes(a.hashes)
  /\ VerifyCheckpoint(a.checkpoint_1, v) /\ VerifyCheckpoint(a.checkpoint_2, v)
  /\ ParsedRoot(a.checkpoint_1).num_leaves = a.tree_size_1
  /\ ParsedRoot(a.checkpoint_2).num_leaves = a.tree_size_2
  /\ VerifyConsistency(ParsedRoot(a.checkpoint_1), ParsedRoot(a.checkpoint_2), a.hashes)

\* `log verify': the JSON must have the shape of the artifact asked for.  v is
\* what from_spec made of the verifier key given.
InclusionFields == {"format", "tree_size", "leaf_index", "hashes", "checkpoint"}
ConsistencyFields ==
  {"format", "tree_size_1", "tree_size_2", "hashes", "checkpoint_1", "checkpoint_2"}

LogVerifyInclusion(a, d, v) ==
  DOMAIN a = InclusionFields /\ VerifyInclusionArtifact(a, d, v)

LogVerifyConsistency(a, v) ==
  DOMAIN a = ConsistencyFields /\ VerifyConsistencyArtifact(a, v)

-----------------------------------------------------------------------------
\* Building.  The origin is the name that the note is signed under.

Note(t, origin, key) == SignNote(EncodeBody(origin, Root(t)), origin, key)

InclusionArtifact(t, i, origin, key) ==
  [format |-> "inclusion", tree_size |-> Len(t), leaf_index |-> i,
   hashes |-> InclusionPath(t, i), checkpoint |-> Note(t, origin, key)]

ConsistencyArtifact(old, new, origin, key) ==
  [format |-> "consistency", tree_size_1 |-> Len(old), tree_size_2 |-> Len(new),
   hashes |-> ConsistencyPath(new, Len(old)),
   checkpoint_1 |-> Note(old, origin, key), checkpoint_2 |-> Note(new, origin, key)]

\* check_json_safe_tree_size
JsonSafe(n) == n < MaxJsonTreeSize

\* Mutant: without the verification of what was built.
BuildsInclusionUnchecked(t, d, i, origin, key) ==
  JsonSafe(Len(t)) /\ CanProveInclusion(t, i) /\ origin \in Names

\* build_inclusion_artifact succeeds: the guards, then its own verification.
BuildsInclusion(t, d, i, origin, key) ==
  /\ JsonSafe(Len(t))
  /\ CanProveInclusion(t, i)
  /\ CanSign(EncodeBody(origin, Root(t)), origin)
  /\ VerifyInclusionArtifact(InclusionArtifact(t, i, origin, key), d,
                             VerifierKey(origin, key))

\* Mutant: without the verification of what was built.
BuildsConsistencyUnchecked(old, new, origin, key) ==
  JsonSafe(Len(new)) /\ 0 < Len(old) /\ Len(old) < Len(new) /\ origin \in Names

\* build_consistency_artifact succeeds, for any two trees.
BuildsConsistency(old, new, origin, key) ==
  /\ JsonSafe(Len(new))
  /\ Len(old) # 0 /\ Len(old) < Len(new)
  /\ CanProveConsistency(new, Len(old), Len(new))
  /\ CanSign(EncodeBody(origin, Root(old)), origin)
  /\ VerifyConsistencyArtifact(ConsistencyArtifact(old, new, origin, key),
                               VerifierKey(origin, key))

-----------------------------------------------------------------------------
\* What is published: proofs and notes of every log at every size it has had.

\* The trees that a log has had.
Past(l) == Prefixes(tree[l])

\* The logs whose checkpoints sign_note signs: not those whose origin, which `log
\* init' accepts, has a control character.
SigningLogs == {l \in Logs : CanSign(EncodeBody(OriginOf[l], Root(tree[l])), OriginOf[l])}

Notes == UNION {{Note(t, OriginOf[l], KeyOf[l]) : t \in Past(l)} : l \in SigningLogs}

Proofs ==
  UNION {UNION {{InclusionPath(t, i) : i \in 0..(Len(t) - 1)} \cup
                {ConsistencyPath(t, m) : m \in 1..Len(t)} : t \in Past(l)} : l \in Logs}

\* What it becomes on the way: lists of hashes with one left out or replaced ...
Edited(hashes) ==
  {hashes} \cup
  {RemoveAt(hashes, i) : i \in DOMAIN hashes} \cup
  {ReplaceAt(hashes, i, h) : i \in DOMAIN hashes, h \in {Junk} \cup UNION {Range(p) : p \in Proofs}}

Hashes == UNION {Edited(p) : p \in Proofs}

\* ... and signatures under another body, name or key id.
SignatureLines ==
  {SignatureLine(name, id, Last(n)[4]) : name \in Names, id \in KeyIds, n \in Notes}

Bodies ==
  UNION {{BodyOf(n), Append(BodyOf(n), Extension), <<Blank>> \o BodyOf(n)} : n \in Notes}

Relabelled == {body \o <<Blank, line>> : body \in Bodies, line \in SignatureLines}

\* Verifier keys as given to `log verify', some with a key id of another key.
Specs == [name : Names, key_id : KeyIds, algorithm : {"ed25519", "other"}, key : Keys]

Verifiers == UNION {FromSpec(spec) : spec \in Specs}

Sizes == 0..MaxJsonTreeSize

\* A size, and one that is off by one.
Neighbours(n) == {n - 1, n, n + 1} \cap Sizes

\* The logs that a verifier key is for.
LogsOf(v) == {l \in Logs : OriginOf[l] = v.name /\ KeyOf[l] = v.key}

\* The verifier keys of the logs.  Under the others no checkpoint is accepted,
\* by CheckpointSound.
LogVerifiers == {v \in Verifiers : LogsOf(v) # {}}

-----------------------------------------------------------------------------
\* Properties.

(***************************************************************************)
(* A checkpoint that verify_checkpoint accepts is one that a log with the  *)
(* verifier's origin and key has signed, whatever became of the signature  *)
(* lines on the way, key ids that collide and keys that serve two logs     *)
(* included.                                                               *)
(***************************************************************************)
CheckpointSound ==
  \A note \in Relabelled, v \in Verifiers :
    VerifyCheckpoint(note, v) =>
      \E l \in LogsOf(v) : \E t \in Past(l) : ParsedRoot(note) = Root(t)

(***************************************************************************)
(* Of the notes that sign_note emits, up to its cap, those verify, with    *)
(* the key that `key inspect' prints, read back by from_spec, whose name   *)
(* has no control character; the others, which sign_note emits as well,    *)
(* never do.  A note that verifies still does when another line is added   *)
(* before or after its own, unless that line claims the same name and key  *)
(* id, brings a control character or makes the note exceed the cap.        *)
(***************************************************************************)
CosignedVerifies ==
  \A v \in Verifiers, body \in Bodies, line \in SignatureLines :
    LET note == SignNote(body, v.name, v.key)
        before == body \o <<Blank, line, Last(note)>>
    IN CanSign(body, v.name) =>
         /\ FromSpec(ToSpec(v)) = {v}
         /\ BodyOf(note) = body
         /\ VerifyNote(note, v) <=> v.name \notin ControlNames
         /\ \/ v.name \in ControlNames \/ HasControl(line)
            \/ Matches(line, v) \/ Len(before) > MaxNoteLines
            \/ VerifyNote(before, v) /\ VerifyNote(Append(note, line), v)

(***************************************************************************)
(* An inclusion artifact that verifies says the truth: some log with the   *)
(* verifier's origin and key has had the leaf at this index in a tree of   *)
(* this size.                                                              *)
(***************************************************************************)
InclusionSound ==
  \A note \in Notes, hashes \in Hashes, i \in Sizes, d \in Leaves, v \in LogVerifiers :
  \A size \in Neighbours(ParsedRoot(note).num_leaves) :
    LET a == [format |-> "inclusion", tree_size |-> size, leaf_index |-> i,
              hashes |-> hashes, checkpoint |-> note] IN
    LogVerifyInclusion(a, d, v) =>
      \E l \in LogsOf(v) : i < size /\ size <= Len(tree[l]) /\ tree[l][i + 1] = d

(***************************************************************************)
(* A consistency artifact that verifies says the truth: both checkpoints   *)
(* are of logs with the verifier's origin and key, and the old tree is a   *)
(* prefix of the new one.  Two copies of a log that went apart are never   *)
(* consistent.                                                             *)
(***************************************************************************)
ConsistencySound ==
  \A note1, note2 \in Notes, hashes \in Hashes, v \in LogVerifiers :
    LET size1 == ParsedRoot(note1).num_leaves
        size2 == ParsedRoot(note2).num_leaves
        a == [format |-> "consistency", tree_size_1 |-> size1, tree_size_2 |-> size2,
              hashes |-> hashes, checkpoint_1 |-> note1, checkpoint_2 |-> note2] IN
    LogVerifyConsistency(a, v) =>
      \E l, m \in LogsOf(v) : \E old \in Past(l), new \in Past(m) :
        /\ note1 = Note(old, v.name, v.key) /\ note2 = Note(new, v.name, v.key)
        /\ IsStrictPrefix(old, new)

(***************************************************************************)
(* build_inclusion_artifact succeeds for exactly the leaves that are in    *)
(* the tree, at their index, up to the size that JSON can carry, under     *)
(* every origin without a control character: neither its guards nor the    *)
(* caps of the verifier stop an honest artifact.                           *)
(***************************************************************************)
BuildInclusionExact ==
  \A l \in Logs, origin \in Names, d \in Leaves, i \in Sizes : \A t \in Past(l) :
    BuildsInclusion(t, d, i, origin, KeyOf[l]) <=>
      /\ origin \notin ControlNames
      /\ Len(t) < MaxJsonTreeSize /\ i < Len(t) /\ t[i + 1] = d

(***************************************************************************)
(* build_consistency_artifact, which takes any two trees, succeeds exactly *)
(* when the old one is a proper prefix of the new one and not empty, under *)
(* every origin without a control character.                               *)
(***************************************************************************)
BuildConsistencyExact ==
  \A l, m \in Logs, origin \in Names : \A old \in Past(l), new \in Past(m) :
    BuildsConsistency(old, new, origin, KeyOf[m]) <=>
      /\ origin \notin ControlNames
      /\ Len(new) < MaxJsonTreeSize /\ old # << >> /\ IsStrictPrefix(old, new)

=============================================================================
