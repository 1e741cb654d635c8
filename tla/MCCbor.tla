------------------------------- MODULE MCCbor -------------------------------
(* An instance of Cbor for TLC. *)
EXTENDS Cbor

=============================================================================
