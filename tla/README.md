# A TLA+ model of lys

`lys` is a small trust toolkit: Ed25519 identities kept in key files,
attestations and sealed envelopes made with them, a certificate authority, and
an append-only transparency log with signed checkpoints and third-party
verifiable proofs. The library is `crates/lys-core`, the command line tool
`crates/lys`. There is no daemon. All concurrency is between operating system
processes that work on the same files, and between threads that call the
library; all failure is a process that dies, or a file system call that fails,
between two steps.

This directory specifies the parts where that matters, checks them with TLC and
proves the central invariants with TLAPS.

## 1. Inventory

| Component | State it keeps | Operations | Hard part |
|---|---|---|---|
| Log directory, `commands/log/store.rs` | `log.json` (origin), `leaves/<n>`, `state.json` (pinned size and root), `state.json.tmp` | `init`, `open` (integrity check, repair of an interrupted append), `append`, `write_state` | several files that change one call at a time; death between any two calls; no lock; a shared temporary name |
| Log commands, `commands/log/*.rs` | none beyond the directory; signed notes leave the process | `init`, `append`, `checkpoint`, `prove inclusion`, `prove consistency` | signatures over state read earlier |
| Key file, `keys/identity.rs`, `commands/key.rs` | the key file, temporary files, a per-process counter | `load_or_generate`, `load`, `key generate` | check-then-act on a path; publish race; stale temporary names that are hard links to the key |
| Merkle tree, `merkle/` | leaves in memory | `append_raw`, `root`, `prove_*`, `verify_*` | ragged trees, boundaries |
| Checkpoints, `checkpoint/` | none | `sign_note`, `verify_note`, `verify_checkpoint` | which signature line decides; origin binding |
| Artifacts, `tlog/`, `commands/log/verify.rs` | none | `build_*_artifact`, `verify_*_artifact` | redundant fields that can be recombined |
| Attestations, `attestation/`, `commands/attest.rs`, `verify.rs` | the artifact file | `sign_attestation`, `from_cose_bytes`, `verify_attestation`; `attest`, `verify` | one canonical encoding; an attestation for one purpose taken for another |
| Sealed envelopes, `seal/`, `commands/seal.rs` | two output files | `sign_and_seal`, `open_and_verify`; `seal`, `open` | two files written, and later read, one after the other; the order of verification and decryption |
| Certificate authority, `ca/`, `commands/ca.rs`, `pem.rs` | the certificate file | `issue_certificate`, `verify_certificate_chain_at`, `decode_extension`; `ca issue`, `ca verify` | validity cut to whole seconds; a file that two commands write without a lock; weak keys and doubled extensions |
| CLI, `main.rs`, `cli.rs`, errors, hex | none | parsing, dispatch, messages | none |

How they interact: the log commands call the log store; `checkpoint` and
`prove` load an identity, sign roots of the open store's tree as notes named by
the log's origin, and wrap them with proofs into artifacts; `log verify` checks
an artifact with nothing but a verifier key and, for inclusion, the leaf.
`seal` encrypts and then attests the envelope; `open` reads the two files and
verifies before it decrypts; `attest` and `verify` use the same attestations on
other bytes, with the same keys and perhaps on the same paths. `ca issue` loads
an identity, signs a certificate for a fresh subject key and writes it as PEM;
`ca verify` reads such a file and knows nothing but the issuer's public key.
`key inspect` prints the verifier key that `log verify` parses.
Everything shared is a file. `PROJECT.json` lists under "hazards" what can go
wrong between these calls, with the properties that watch it.

What makes each part correct:

* Log directory: whatever was reported as appended stays, the directory opens
  again after any crash, two signed roots of one size never differ.
* Key file: written once, whole, never replaced; nobody returns an identity
  that is not the one on disk; every call that meets no fault returns one; no
  candidate seed is left behind.
* Seals and attestations: what opens was sealed for this recipient and is
  vouched for by the named sender, nothing unverified reaches the cipher, an accepted artifact is the
  one that was made for this message, and a seal that returned leaves a pair
  that opens.
* Certificates: what verifies under a key is a certificate that this key issued,
  the claims shown are those embedded, validity ends at the instant reported,
  and a certificate that was issued undisturbed verifies.
* Checkpoints and artifacts: what is accepted was signed by the log that the
  verifier names, and is true of its tree; what is true can be proved.

## 2. Modules

| Module | Role |
|---|---|
| `LogStore` | the log directory and the five commands, one action per file system call |
| `AppendOnlyLog` | what the directory promises: a name that is set once, a log that grows, notes about its prefixes |
| `MCLogStore` | symmetry for TLC |
| `SignedLog` | composes `LogStore` and `Merkle`: what third parties can verify of the roots that were signed |
| `LogStoreProofs` | theorems about `LogStore` with racing commands |
| `LogStoreSerialProofs` | theorems about `LogStore` and `SignedLog` with one command at a time, and the refinement of `AppendOnlyLog` |
| `Identity` | `load_or_generate`, `load` and `key generate` by threads and processes, one action per file system call |
| `WriteOnceKey` | what it promises: a key written once and the identities held |
| `MCIdentity` | callers, processes and process ids for TLC |
| `IdentityProofs` | theorems about `Identity` |
| `Merkle` | RFC 6962 trees and proofs over a collision-free hash, and the guards of `tree.rs` |
| `MerkleProofs` | theorems about `Merkle`, for trees of every size |
| `Checkpoint` | notes, signature lines and checkpoint bodies |
| `Tlog` | composes the two: artifacts, their builders and verifiers, and the logs they speak of |
| `MCTlog` | three logs, two origins, a name with a control character, two keys for TLC |
| `TlogProofs` | theorems about `Tlog`, with those about `Merkle` |
| `Attestation` | the signed statement, its COSE artifact, the decoder's pins and the canonical re-encoding |
| `Seal` | the envelope and its sender attestation, and the commands `seal`, `open`, `attest` and `verify` on shared paths |
| `MCSeal` | symmetry for TLC |
| `SealProofs` | theorems about `Seal`: what is accepted, decrypted and opened, and what a seal leaves on disk |
| `Cbor` | the bytes of an artifact: CBOR heads and 64-bit integers, encoder and decoder |
| `MCCbor` | the instance for TLC |
| `CborProofs` | theorems about `Cbor`, for every timestamp |
| `CertAuthority` | certificates, their PEM file, and the commands `ca issue` and `ca verify` |
| `MCCertAuthority` | extensions and symmetry for TLC |
| `CertAuthorityProofs` | theorems about `CertAuthority` |

An operator introduced by "Mutant:" is a plausible wrong version of the
definition after it. It is not used by any specification; each shows that one
of the properties would notice.

### LogStore

`logJson`, `leaf`, `stateJson` and `tmp` are the files. `pc`, `loc` and `fd` are
a process: its next call, the local variables of its command (`mem` is the
in-memory tree, `pinned` what `state.json` said), and the file it holds open in
`write_state`. `acked`, `signed` and `inited` record what commands have
reported or written out.

* `init` is `StartInit` (the existence check), `OpenLogJson`, `WriteLogJson`,
  then `write_state`.
* `open` is `ReadLogJson`, `ReadStateJson`, `ListLeaves`, one `ReadLeaf` per
  leaf, and `CheckAgainstState`, which goes on, repairs by way of `write_state`,
  or rejects.
* `write_state` is `OpenTmp` (truncation), `WriteTmp`, `Rename`. All processes
  share the name, and a process that opened the file before another one renamed
  it goes on writing to what is now `state.json`: `fd` and `Renamed` keep track.
* `append` is `CreateLeaf` (`O_EXCL`), any number of `WriteLeafPart`,
  `WriteLeaf`, then `write_state` and `Report`.
* `checkpoint`, `prove inclusion` and `prove consistency` end in `Checkpoint`,
  `ProveInclusion` and `ProveConsistency`, which add what they sign to `signed`.
* `Crash` ends a command after any call: a kill, or an I/O error. `Rot` alters
  or removes a leaf file that nobody is writing.

The constants `Initers`, `Appenders` and `Signers` say which process may run
which command. One process is the "single-writer" regime of `store.rs`.
`Origin` are origins that `sign_note` can sign: under one with a control
character, which `init` accepts, `checkpoint` and `prove` fail and change
nothing.

Abstractions. A root is represented by the leaves it commits to. Leaf payloads
are opaque and not empty; a file just created is `Empty`, and one that is cut
short is `Torn(d)`. State documents are equally long, so that overwriting one
by another leaves no tail. Listing a directory is one step. A completed call is
durable: `store.rs` does not call fsync, and loss of power is not modelled.

`SignedLog` adds no step. It reads the notes in `signed` with the operators of
`Merkle`: whoever holds a note, a proof that `prove` built from the tree of an
open store and a verifier, but not the directory, can check exactly what
`AckedIsProvable` and `SignedAreLinked` say. Signatures and the fields of
artifacts around the roots are the subject of `Tlog`.

### Identity

Each call draws a fresh seed and creates at most one file, so the call stands
for both. `tmpName` gives the temporary name of each file, `keyFile` the file
that the key path names; `hard_link` makes both lead to one file. `counter` is
`TMP_NAME_COUNTER`, one per process; `Die` ends a process with all its threads,
and its successor has the same process id and counts from zero.

`Generate` and `LoadIdentity` start a call. `CheckExists` and `LoadExisting` are
`load_or_generate` and `load_existing`; `DrawName`, `OpenTmp`, `WriteTmp`,
`ChmodTmp`, `LinkTmp` and the three arms `Won`, `Lost` and `Failed` are
`generate_and_persist`.

Faults are of four kinds: a process is killed (`Die`), a file system call fails
and ends the call with an error (`IoError`), the best-effort removal of a
temporary file fails, or the stat behind `path.exists()` fails, which
`CheckExists` takes for a missing key, as the code does, and the call goes on to
generate. `FaultSets` says which kinds may happen together in one behaviour;
`met` records which call met which.

Left out: permission bits, `from_env` and the key arithmetic.

### Merkle, Checkpoint, Tlog

A hash is the term that was hashed, and a signature the pair of a key and the
text it covers. lys wraps the ct-merkle crate, which is modelled as RFC 6962
defines it; the guards in front of it are lys's own. RFC 6962 recurses on lists
of leaves; here subtree hashes, paths and the roots that a proof leads to are
recursive functions whose argument is a run of leaves, `<<first, count>>`
(`SubtreeHashes`, `InclusionPaths`, `PathHashes`, `ConsistencyPaths`,
`ProofHashes`), which TLC evaluates and TLAPS can reason about. A note is a sequence of
tagged lines, so that positions, blank lines, the number of signature lines and
their order are there and spelling is not. `ControlNames` are the names with an
ASCII control character, which `validate_note_name` accepts: `sign_note` searches
the body for control characters (`CanSign`), `parse_note` the whole note
(`Parses`), the names on signature lines included. Verification is a predicate with the
checks in the order of the code. A verifier key is the record of the parts of
its text form: `ToSpec` is what `key inspect` prints, `FromSpec` what
`log verify` makes of it, with the declared key id compared to the computed one.

The state of `Tlog` is the trees. Every artifact that could have been built at
some time counts as published, which includes every smaller set of publications.
Verifiers are given fields recombined from all of that: any note with any list
of hashes, with one hash left out or replaced, under any index and the signed
size or one next to it, and any signature under any body (as it was signed, with
an extension line, or with a blank line in front), name and key id.
Checkpoints are verified with every key there is, proofs with those of logs.

### Attestation, Seal

An artifact is the record of its CBOR items with a flag for whether it is
encoded canonically, so that the parser (`DecodeFields`, which ignores the flag)
and the re-encoding that enforces it (`FromCoseBytes`) are different things.
Keys, digests, signatures and ciphertexts are terms: equal only when made from
the same parts. A ciphertext holds its key and nonce; whoever has both can
decrypt.

`disk` maps each path to its file: an inode and what it holds. A write is
`CreateFile` (open and truncate; the file is `Torn` until it is written) and
`WriteAll`; a process that has a file open whose name is gone, or has been
created anew by another one, writes to no path. `WriteFails` is an error of either call,
`Cleanup` what `seal` then does with its envelope, `Killed` the end of a process
between two steps. `StartSeal` and `StartAttest` are the commands up to the
first write; `StartOpen` reads the envelope, `OpenPair` or `OpenFails` the
attestation later; `Verify` only reads.

A reader may get a file altered in one field (`AlteredEnvelopes`,
`AlteredArtifacts`): by one that was issued elsewhere, by one that is none, or
encoded in another way. `GenericMessages` is what `attest` signs and `verify` is
asked about: payloads, the bytes of envelopes, and the bytes of envelopes with the
context tag in front (`TaggedMessage`), which `attest` signs like any others and
which are the message that `sign_and_seal` attests.

`sealed`, `attested` and `event` are history: what was sealed, what was
attested, and what the last step let through. `sole` is the last `seal` when it
was the only writer of the pair, and how it ended; `seal` promises nothing for
two writers on one path.

Left out: file modes, hexadecimal arguments, JSON, and the failures before the
first write, which change nothing. The ephemeral key of each seal is fresh.

### Cbor

`Attestation` takes the encoding of an artifact as a flag; `Cbor` justifies it.
A 64-bit word is the sequence of its eight bytes, and an `i64` one in two's
complement, so that `i64::MIN` and the boundaries of the five head lengths are
themselves. Byte strings whose content does not matter (key, hash, signature,
text) are single pieces of a size. `WriteHead`, `WriteI64` and the operators
built of them are the encoder; `ReadHead` and `ReadString` are what the ciborium
crate reads (a head of any length); `DecodeFields` and `FromCoseBytes` are the
decoder. The state is a timestamp of which one byte changes in a step. Items of
indefinite length, which ciborium also reads, are left out.

### CertAuthority

Instants are in ticks, `Second` of them in a second; `Timestamp` and
`TruncateToSecond` are the two conversions of `authority.rs`, and
`IssueCertificate` has its guards. A certificate in DER is a sequence of lines:
a head with issuer, serial number and window, the subject with its key, the
extensions, and the signature over the lines before it. PEM is the same between
its two boundaries. So `FromDer` can ignore what follows a certificate, and
`DecodePem` can join what two writers left.

`StartIssue` is `ca issue` up to the write, which is `CreateFile` and one
`WriteLine` for each line, from the command's own offset, as a write that
returns short would do it; `Report` is the output that follows, and `Stop` a
kill or an I/O error at any point. `file` may end as a splice of two certificates, as one with the tail of
another, or with a hole. `ca verify` only reads: `CaVerify` is the set of its
results for a text, a key and an instant, and `Readings` the texts it may be
given: the file, and the file with one line replaced, dropped or doubled.
`issued` and `clean` are history: what was issued, and the issue that reported
success without another writer beside it and whose file nobody has opened since.

Left out: base64 (padding in the middle of a body is refused by the code, and
accepted here: the model accepts more), blank lines and white space in PEM, the
parsing of RFC 3339 instants, and that claims must be JSON.

## 3. Runs

| Run | Checks | Shows |
|---|---|---|
| `log_serial` | `TypeOK`, `DirOpens`, `NoEquivocation`, `AckedIsProvable`, `SignedAreLinked`, `ImplementsAppendOnlyLog` | one command at a time, killed anywhere and any number of times, on leaf files that may be lost or altered: `LogStore` refines `AppendOnlyLog`, the directory opens again unless what it pins was damaged, all signed notes commit to prefixes of one log; every reported append has an inclusion proof under every signed root that covers it, and any two signed roots a consistency proof |
| `log_concurrent` | `AckDurable`, `LeavesContiguous`, `SignedWholeLeaves` | two processes that run `init` and `append`, one of which also signs, with crashes: no acknowledged or signed whole leaf is ever lost, not even when a late `init` writes the directory's files anew |
| `log_racing_appends` | `DirOpens`, violated | see the findings |
| `log_racing_checkpoint` | `NoEquivocation`, violated | see the findings |
| `identity_threads` | `TypeOK`, `TmpOwned`, `ReturnedIsPersisted`, `NoTmpLeft`, `ImplementsWriteOnceKey`, `EveryCallReturns` | three threads of two processes; either kills, reused process ids, I/O errors and failed removals, or I/O errors and failed stats: `Identity` refines `WriteOnceKey`, and a call leaves a temporary file, or returns no identity, only if it met a fault itself |
| `identity_failed_stat` | `ReturnedIsPersisted`, violated | see the findings |
| `tlog_artifacts` | `CheckpointSound`, `CosignedVerifies`, `InclusionSound`, `ConsistencySound`, `BuildInclusionExact`, `BuildConsistencyExact` | verifiers accept only what is true, builders succeed for exactly what is true, and of the notes that are signed exactly those verify whose name has no control character |
| `seal_files` | `TypeOK`, `OpenedWasVouchedFor`, `DecryptedWasAttested`, `AcceptedWasIssued`, `AckedSealOpens`, `NoStrandedEnvelope` | two processes seal, attest, open and verify on the same paths, with write errors, kills and altered files: only what is authentic is accepted, decrypted and opened, and a seal leaves both files or takes its envelope back |
| `seal_partial_outputs` | `NoPartialOutputs`, violated | see the findings |
| `seal_attested_tag` | `OpenedWasSealed`, violated | see the findings |
| `ca_files` | `TypeOK`, `VerifiedWasIssued`, `EchoedWasEmbedded`, `ValidityKept`, `AckedVerifies` | two commands write one certificate file, fail and die, and the file is altered: only certificates that the key issued are accepted, with their own claims; validity is kept to the second; an undisturbed issue verifies |
| `cbor_heads` | `ReadsBack`, `OneEncoding`, `DocumentedSizes` | at every boundary of the integer encodings the decoder returns what was encoded, refuses all longer spellings, and the documented sizes hold |

### Bounds

* `log_serial`: two leaves, two origins, any number of crashes, of damaged leaf
  files, and of checkpoints and proofs. Two leaves are an interrupted append and
  one on top of it, or a pinned leaf and an interrupted append; payloads are
  never reused, so that each append is a distinct event.
* `log_concurrent`: two processes, two leaves and one origin, since no property
  of the run is about it. The races are over one index and one temporary file,
  and two processes are enough to lose either; the theorems below have no such
  bound.
* `identity_threads`: two threads of one process and one of another, one call
  each. Threads of one process that is killed and comes back reuse each other's
  names, so that one call each is enough for stale names, and
  `identity_failed_stat` finds its violation with the same callers. The two sets
  of faults are the largest under which the properties hold: a failed stat beside
  a kill, or beside a failed removal, is the finding.
* `tlog_artifacts`: trees of up to five leaves over two contents (the fifth
  leaf reaches `MaxJsonTreeSize`, scaled down from 2^53, as the caps on hash
  lists are scaled down from 64 and 128; `HonestSizesAssumption` keeps the three
  in the relation that the code's values have), a copy and another log of up to one leaf.
  Sizes up to five contain complete and ragged trees and a consistency proof
  from an old tree that is not a complete subtree. Notes are signed, and artifacts
  built, under every name there is, one with a control character among them.
* `seal_files`: two parties, two payloads, three commands, at most two of them
  seals, run by two processes. Three commands are two seals whose files can be
  mixed up and one that opens them, or a seal, an attestation over its envelope
  and an `open`; a `verify` counts as a command too. The theorems have no such
  bound. Parties, payloads and
  processes are symmetric.
* `ca_files`: two processes that issue once each, or one that issues twice; a
  second of three ticks and a clock reading inside it; lifetimes of zero, below
  a second, of more than one, and beyond the date range; no claims, claims, and
  claims twice after another extension, so that the texts differ in length and
  the shorter one leaves a tail of the longer; a subject that is blank, one that is the
  issuer's name, and an ordinary one; one authority and a weak key. Two authorities, more
  certificates and other clocks are left to the theorems.
* `cbor_heads`: timestamps whose bytes are 0 or 255, with the last byte around
  24 and its complement and the first around the sign: the 3,200 words include
  both sides of 24, 2^8, 2^16, 2^32 (and of the corresponding negative numbers),
  `i64::MAX` and `i64::MIN`.

Where deadlock is not checked, the bounded supply of payloads, calls or leaves
runs out.

### Fairness

Only `identity_threads` assumes fairness: weak fairness of every caller's `Step`,
that is, every thread is scheduled. No step of a call waits for another caller,
so the operating system's scheduler gives that. Starting a call, dying and
failing are not fair. `EveryCallReturns` speaks of each call by itself: it
returns an identity unless that very call was killed or one of its own file
system calls failed.

## 4. Proofs

Proved for every number of processes, callers, leaves and calls:

| Theorem | Statement |
|---|---|
| `LogStoreProofs!TypeCorrect` | `Spec => []TypeOK` |
| `LogStoreProofs!AckedLeavesDurable` | `~Damage`: `Spec => []AckDurable` |
| `LogStoreProofs!LeafFilesContiguous` | `~Damage`: `Spec => []LeavesContiguous` |
| `LogStoreProofs!SignedLeavesKept` | `~Damage`: `Spec => []SignedWholeLeaves` |
| `LogStoreSerialProofs!OneSignedHistory` | `Serial`: `Spec => []NoEquivocation` |
| `LogStoreSerialProofs!DirectoryReopens` | `Serial`: `Spec => []DirOpens` |
| `LogStoreSerialProofs!Refinement` | `Serial`: `Spec => ImplementsAppendOnlyLog` |
| `LogStoreSerialProofs!AckedLeavesProvable` | `Serial`: `Spec => []AckedIsProvable` |
| `LogStoreSerialProofs!SignedRootsLinked` | `Serial`: `Spec => []SignedAreLinked` |
| `IdentityProofs!TypeCorrect` | `Spec => []TypeOK` |
| `IdentityProofs!TmpFilesRemoved` | `Spec => []NoTmpLeft` |
| `IdentityProofs!TmpFilesOwned` | `PidsDistinct`, `StatProviso`: `Spec => []TmpOwned` |
| `IdentityProofs!IdentitiesPersisted` | `PidsDistinct`, `StatProviso`: `Spec => []ReturnedIsPersisted` |
| `IdentityProofs!Refinement` | `PidsDistinct`, `StatProviso`: `Spec => ImplementsWriteOnceKey` |
| `SealProofs!SealAuthentic` | `Spec => []OpenedWasVouchedFor` |
| `SealProofs!VerifiedBeforeDecrypted` | `Spec => []DecryptedWasAttested` |
| `SealProofs!AttestationUnforged` | `Spec => []AcceptedWasIssued` |
| `SealProofs!TypeCorrect` | `Spec => []TypeOK` |
| `SealProofs!SealedPairOpens` | `Spec => []AckedSealOpens` |
| `SealProofs!FailedSealCleansUp` | `Spec => []NoStrandedEnvelope` |
| `MerkleProofs!InclusionProofsSound`, `InclusionProofsComplete` | `VerifyInclusionRaw` accepts leaves of the tree only, and accepts `InclusionPath` for each |
| `MerkleProofs!ConsistencyProofsSound`, `ConsistencyProofsComplete` | `VerifyConsistency` accepts non-empty prefixes only, and accepts `ConsistencyPath` for each |
| `MerkleProofs!InclusionPathLength`, `ConsistencyPathLength` | at most `h`, and `h + 1`, nodes in a tree of at most `2^h` leaves |
| `TlogProofs!TypeCorrect` | `Spec => []TypeOK` (of that module: trees are sequences of leaves) |
| `TlogProofs!CheckpointsAreSigned` | `Spec => []CheckpointSound` |
| `TlogProofs!SignedNotesVerify` | `Spec => []CosignedVerifies` |
| `TlogProofs!InclusionArtifactsSound` | `Spec => []InclusionSound` |
| `TlogProofs!ConsistencyArtifactsSound` | `Spec => []ConsistencySound` |
| `TlogProofs!HonestInclusionBuilds` | `Spec => []BuildInclusionExact` |
| `TlogProofs!HonestConsistencyBuilds` | `Spec => []BuildConsistencyExact` |
| `CertAuthorityProofs!CertificatesUnforged` | `Spec => []VerifiedWasIssued` |
| `CertAuthorityProofs!ClaimsAuthentic` | `Spec => []EchoedWasEmbedded` |
| `CertAuthorityProofs!ValidityExact` | `Spec => []ValidityKept` |
| `CertAuthorityProofs!CleanIssueVerifies` | `Spec => []AckedVerifies` |
| `CertAuthorityProofs!TypeCorrect` | `Spec => []TypeOK` |
| `CborProofs!ArtifactsReadBack` | `Spec => []ReadsBack` |
| `CborProofs!OneSpelling` | `Spec => []OneEncoding` |
| `CborProofs!SizesAsDocumented` | `Spec => []DocumentedSizes` |
| `CborProofs!ArtifactsDiffer` | different words have different `ArtifactBytes` |

A condition before a colon is an `ASSUME` of the theorem, on constants only.

**LogStore.** Type correctness holds for any damage: each command's local
variables fit its step, whatever it found on disk (`FlowInv`). The other
theorems assume `~Damage` (no leaf file is altered from outside), with crashes
and any assignment of commands. None of the three safety properties is
inductive: they follow from what each process believes about the leaf files.
The inductive invariant says that the whole leaves in a process's memory are
those on disk (`OnDisk`), that what it listed is still there (`ListedInv`), that
its local variables fit its step (`CommandInv`), that the leaf a process is
writing comes right after its own tree and holds nothing or part of its data
(`WritingInv`), that
no two processes write one leaf file (`OneWriter`, which is what `O_EXCL`
gives), and the same as `OnDisk` for the leaves under signatures
(`SignedOnDisk`). A leaf that was read while it was being written may
differ from the disk later; that is why the invariant, and
`SignedWholeLeaves`, speak of whole leaves only.

**LogStore, one command at a time.** `Serial` says that there is at most one
process; crashes are anywhere, and leaf files may be damaged at any time. The
assumption is needed: two processes violate `DirOpens` and `NoEquivocation`
(section 5). The log that counts is the
one that `state.json` pins, not the leaf files, which damage may change. `SerialInv`
says that `state.json` is whole and leaf files go at most one beyond it
(`DirInv`), that what was signed are prefixes of that log under its origin
(`SignedInv`), and how the memory of a command is related to the directory: what
it has read is there (`ReadInv`), its tree is the log once the store is open, and
the log with one more leaf while `write_state` runs (`TreeInv`). The refinement
has the pinned log as the abstract one; `Rename` of `write_state` is the step
that extends it, whether for `append` or for the repair of an interrupted one.

What third parties see follows from the same invariant and the theorems about
`Merkle`. What was reported is in the pinned log at its index (`AckedInv`, which
is inductive beside `SerialInv` because each step of the refinement keeps it),
and a signed note is a prefix of that log (`SignedIsPrefix`); soundness and
completeness of inclusion proofs then give `AckedIsProvable`, and completeness
of consistency proofs `SignedAreLinked`, for logs of every length. `Serial` is
needed here too: the race of `log_racing_checkpoint` breaks both.

**Identity.** `TypeCorrect` and `NoTmpLeft` hold for any faults and any process
ids, shared ones included: every temporary file is one that the call which made
it has yet to remove, or that call was killed or failed to remove it (`TidyInv`).
The other theorems assume that processes have different process ids
(`PidsDistinct`) and that no stat fails in a behaviour in which a process is
killed or a removal fails (`StatProviso`); they hold for all other combinations
of faults, and the finding of section 5 shows that the assumption is needed. The invariant says which names are in flight (`NameInv`, `NamesDistinct`), what
a caller's temporary file holds at each of its steps (`FileInv`), that one name
leads to one file (`OneFile`), that files of calls not yet made do not exist
(`FreshInv`), that the key file, once there, is whole (`KeyWhole`), and what the
pending outcome of a call is (`OutcomeInv`). The decisive part is `Harmless`: while the
key file still has a temporary name, that name is none that a caller has, or
can draw once it has found no key file. A stale link to the key would otherwise
be opened and truncated by the next process that draws the same name; such a
process finds the key first, unless its stat fails. Where stats may fail,
`StatProviso` leaves no way to a stale link.

**Seal** assumes that altered fields are not keys of parties
(`AlteredAssumption`). The three properties speak of the last step only, and
rest on what is on disk and in the commands: only parties seal and attest, and a
message with the context tag is over an envelope that somebody sealed
(`SealedInv`, `AttestedInv`); the artifact in the attestation file (`DiskInv`), and each one
that a command still has to write (`CmdInv`), is one that was issued. From there
`ReadForm` bounds what alteration can do, `Unforged` shows that an artifact that
decodes and verifies is one of those issued for that message, `ContextIssued`
that an envelope attested with the tag was sealed by the attester or attested by
it as a message of its own, and `CipherBinds` that its ciphertext has
one recipient and one payload. The envelope file needs no invariant for this: it may hold
anything.

What a seal leaves on disk is another matter. `FilesInv` numbers commands, seals
and inodes without repetition (`IdsInv`, `SealsInv`), says what commands have
left to write (`ShapeInv`), and follows the seal that `sole` names from its first
open to its end (`SoleInv`, with `Stage` for the files while it runs and
`Outcome` for afterwards). An envelope that a failed seal must have taken back
could otherwise have been there before; since ids are not reused it was not
(`EnvelopeInv`). `AckedSealOpens` also needs that the low order point which
`open` refuses is no ephemeral key (`EphemeralAssumption`).

**Merkle.** The theorems are about the pure operators, for trees of every size.
The provers know nothing of recursive definitions, so the module first shows that
a function defined by recursion on a measure exists and unfolds (`Recursion`).
Induction is by least counterexample (`LeastNatural`): the library's induction
rules take operators. `Split` is shown to be the power of two it should be
(`SplitExists`, `PowersApart`, `SplitHalves`), and the split of a prefix to agree
with that of the whole tree (`SplitAgrees`), on which consistency proofs turn. Soundness rests
on hashes being terms: a root determines its leaves (`RootInjective`), and
the recomputation along any path meets the tree node by node (`ProofMeets` for
consistency). No assumption is made about the proof under verification, not
even on its elements. A caveat carries over from the model: what ct-merkle
does is taken from RFC 6962.

**Tlog.** The state is only the trees, and the invariant only that they are
sequences; the work is in the operators. `NoteSplits` finds the blank line
that separates body and signatures in any note, `SignatureInjective` and
`SignatureLinesAre` say which signatures exist, and with the guards of
`VerifyNote` that gives `CheckpointSound`, for key ids that collide and keys
that logs share. `InclusionSound` and `ConsistencySound` add the Merkle
theorems. `CosignedVerifies` needs where a control character can be
(`NoControlConcat`): a note has one when its body or one of its signature lines
has, and the body that `sign_note` accepted has none. `BuildInclusionExact` and `BuildConsistencyExact` add path lengths and
`HonestSizesAssumption`, that the caps on hash lists admit the proofs of every
tree size that JSON can carry. The code's values meet it (2^53 leaves, 64 and
128 hashes), and this is the claim of the comments at the caps. `CapsAssumption`
asks for room for two signature lines; the code has 100.

**CertAuthority** assumes that the weak key is none of the authorities', that
`None` is no payload, and what a second and a date are (the named assumptions
of the module); keys, names, extensions, clocks, lifetimes, processes and the number of
certificates are arbitrary. The invariant says that certificates are those that
`IssueCertificate` makes, with different subject keys (`CertInv`, `IdsInv`), that every
line of the file belongs to some certificate (`FileInv`), however the lines
are mixed, that a command is in the middle of its own text
(`CmdInv`), that the file is what a command without a rival has written so far
(`AloneInv`), and that nobody has opened the file since a clean issue
(`CleanInv`). The first three give authenticity: a signature that verifies under
an authority's key occurs only on the signature lines of certificates issued
with it, and it binds every line before it. The last three give
`AckedVerifies`, by way of lemmas that decoding undoes encoding.
`ValidityKept` is arithmetic on top of `CertInv`.

**Cbor.** The invariant is only that the timestamp is a word of eight bytes
(`TimestampIsWord`); the rest is about operators, for all words, where TLC has
the boundaries. `Size` is a recursive function over positions, so that the size
of a concatenation (`SizeConcat`) is shown by least counterexample. A head of any
width that its argument fits reads back as itself (`ReadHeadWritten`), and a string with
exactly one length (`ReadStringWritten`), since sizes of prefixes grow and no two
lengths are written as the same eight bytes (`U64Injective`). For negative
timestamps, adding one to the complement and taking one from the magnitude are
inverse byte by byte, whatever carries (`MinusPlus`, `ComplementTwice`),
`i64::MIN` included. From there each layer of the artifact is taken apart as it
was put together (`DecodeProtectedBytes`, `DecodeClaimsBytes`,
`DecodeArtifact`), concatenations being reassociated by `Cat`. `OneEncoding`
uses the same lemmas for heads that are longer than need be.

Model-checked only: liveness (`EveryCallReturns`), which the prover does not
reach.

## 5. Findings

* **Two racing appends can leave a directory that no longer opens**
  (`log_racing_appends`). `store.rs` lines 19-20 promise that a racing append
  "loses loudly instead of corrupting". `O_EXCL` does keep the leaves (that is
  `log_concurrent`), but not the state. Process p2 opens the store while p1 is
  inside the write of leaf 0, reads that leaf empty or cut short, and takes it for
  an interrupted append to repair. Both use `state.json.tmp`: p2 opens and
  truncates it after p1 has written it, p1 renames it to `state.json` and reports
  its append, and p2 then writes the root over the partial leaf into what is now
  `state.json`. p2 does fail loudly, at its own rename, but the harm is done: the
  state pins one leaf whose bytes are not those on disk, and no open accepts the
  directory again.
* **A checkpoint during an append can sign a root that the log later
  contradicts** (`log_racing_checkpoint`): it reads the leaf half written,
  repairs, and signs. `docs/REVIEW-23-07.md` line 25 says that "there is no
  path to a wrong-but-signed checkpoint from store corruption", and the comment at
  `store.rs` lines 180-183 that one extra leaf "means the previous append crashed
  between the leaf write and the state write". It may also be one that is being
  written, as here, or one whose append died inside the leaf write: the repair
  then pins torn bytes as an entry of the log. One process alone cannot
  contradict them later, since nobody completes the leaf (`NoEquivocation` and
  `ImplementsAppendOnlyLog` in `log_serial`).
* **A failed `seal` can leave partial outputs** (`seal_partial_outputs`).
  `seal.rs` lines 30-32 say that it "leaves no partial outputs". The envelope is
  removed when the attestation cannot be written, but not when writing the
  envelope itself fails half way, and a half written attestation stays.

* **A failed stat can overwrite a key that was already returned**
  (`identity_failed_stat`). `path.exists()` (`identity.rs` line 143) is false for
  every error of the stat, and `load_or_generate` then generates. That is harmless
  as long as no temporary name leads to the key file: the candidate goes to a file
  of its own, and `hard_link` refuses. But a process that was killed after
  `hard_link` leaves such a name, and a later process with its id and counter draws
  it again and truncates the key through it. `identity.rs` lines 131-134 say that
  "no caller ever holds an identity that differs from the persisted file", and
  lines 324-327 that "the key file never changes once created". `identity_threads`
  and the theorems show both for every other combination of faults.
* **An attestation of tagged bytes makes its signer a sender**
  (`seal_attested_tag`). The context tag is there so that "a signature only ever
  means "this sender sealed this envelope"" (`authenticated.rs` lines 14-17).
  `attest` signs any bytes, and so also the tag followed by an envelope of
  somebody else; `open` then names the attester as the sender. What holds is
  `OpenedWasVouchedFor`: the payload was sealed for this recipient, and the sender
  named signed exactly this envelope under the tag, knowingly or not; attestations
  of bare envelopes and of other bytes never count.
* **A note signed under a name with a control character never verifies.**
  `note.rs` (lines 11-15, 92-93 and 128-130) says that what `sign_note` checks
  guarantees "the emitted note always re-verifies", and line 130 that this "holds
  without exception". The checks look for control characters in the body only
  (line 113), `parse_note` looks for them in the whole note (line 223), and
  `validate_note_name` accepts them in names. `CosignedVerifies` states the
  exception, in `tlog_artifacts` and in the theorem: a signed note verifies if and
  only if its name has no control character. With such an origin a checkpoint is
  refused already when it is signed, since the origin is in the body: `log init`
  creates a log that can be appended to and never signed, and
  `BuildInclusionExact` and `BuildConsistencyExact` say that no artifact is built.

A certificate with a lifetime below a second can be expired when it is issued:
`authority.rs` says "valid for `ttl` from now" (line 53), and both ends are cut
to whole seconds. The command line only knows days. `ValidityKept` states what
does hold.

Three further races are outside the regimes that the runs above grant, and are
kept in mind here. Two concurrent `init`s can both pass the existence check, and
the later one rewrites `log.json` and sets `state.json` back to an empty log,
although `store.rs` line 13 says "written once by init, never rewritten"; the
store is documented as single-writer, and with one command at a time
`ImplementsAppendOnlyLog` says that the name is set once. `log_concurrent` has
such `init`s and shows that the leaves survive them. With two processes of the
same id in different pid namespaces `ReturnedIsPersisted` fails, since the
temporary name is no longer unique; it can be reproduced by changing `PidOf` in a
configuration. And `key generate` can report "generated" for a key it loaded,
since the existence check that the report is based on is made before the race is
decided; the model leaves the report out.

## 6. Not modelled

The command line, error texts and hexadecimal output (no state); JSON, base64,
RFC 3339 and number formatting; CBOR items of indefinite length; permissions;
fsync and loss of power; the postcard leaf encoding, which the log does not use;
the 16 MiB cap of `log verify`, which is far above any artifact.

## 7. Plan

Done: the log directory and its commands (the most important behaviour), the
key file, the Merkle tree, checkpoints and artifacts, attestations down to
their bytes, seals and the certificate authority; the composition of the log
directory with the Merkle tree; a theorem for every safety property, action
property and refinement that a run shows to hold.

Left: the same composition with the artifacts of `Tlog`, so that the notes that
the directory signs carry real signature lines, and artifacts of directories
that were raced over are given to `log verify`. `Tlog` takes its trees as given
and lets them diverge, which covers what such a directory could sign.
