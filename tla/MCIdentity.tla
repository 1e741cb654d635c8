----------------------------- MODULE MCIdentity -----------------------------
(* An instance of Identity for TLC: two threads of one process and a thread  *)
(* of another one, on one host.                                              *)
EXTENDS Identity, TLC

CONSTANTS a1, a2, b1,     \* callers
          A, B,           \* processes
          pid1, pid2      \* process ids

ThreadsOf == (a1 :> A) @@ (a2 :> A) @@ (b1 :> B)

\* Two processes of one host that run at the same time have different ids.
DistinctPids == (A :> pid1) @@ (B :> pid2)

=============================================================================
