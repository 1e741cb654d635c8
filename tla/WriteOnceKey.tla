---------------------------- MODULE WriteOnceKey ----------------------------
(***************************************************************************)
(* What load_or_generate promises to its callers: a key file that is       *)
(* written once, whole, and never changes, and callers that only ever hold *)
(* the identity of the seed in it (crates/lys-core/src/keys/identity.rs).  *)
(***************************************************************************)
CONSTANTS Seeds,      \* all the seeds that are ever drawn
          NoSeed      \* there is no key file yet

VARIABLES key,        \* the seed in the key file
          held        \* the seeds of the identities returned to callers

Init ==
  /\ key = NoSeed
  /\ held = {}

\* A drawn seed is published, all 32 bytes at once.
Publish ==
  /\ key = NoSeed
  /\ key' \in Seeds
  /\ UNCHANGED held

\* A call returns the identity on disk.
Return ==
  /\ key # NoSeed
  /\ held' = held \cup {key}
  /\ UNCHANGED key

Next == Publish \/ Return

Spec == Init /\ [][Next]_<<key, held>>

=============================================================================
