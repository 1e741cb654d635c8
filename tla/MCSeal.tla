------------------------------- MODULE MCSeal -------------------------------
(* An instance of Seal for TLC. *)
EXTENDS Seal, TLC

Symmetric == Permutations(Party) \cup Permutations(Payload) \cup Permutations(Cmd)

=============================================================================
