------------------------------- MODULE MCTlog -------------------------------
(* An instance of Tlog for TLC: a log, a copy of it that went its own way,   *)
(* and a log of another origin that the same key signs for.                  *)
EXTENDS Tlog

CONSTANTS log, copy, other,   \* logs
          o1, o2,             \* origins
          ctrl,               \* a name with a control character
          k1, k2,             \* keys; nobody signs with k2
          id1, id2            \* key ids: the keys' ids collide

MCLogs == {log, copy, other}
MCOriginOf == (log :> o1) @@ (copy :> o1) @@ (other :> o2)
MCKeyOf == [l \in MCLogs |-> k1]
MCMaxSizeOf == (log :> 5) @@ (copy :> 1) @@ (other :> 1)
MCKeyIdOf == [p \in {o1, o2, ctrl} \X {k1, k2} |-> IF p[1] = o1 THEN id1 ELSE id2]

LeafSymmetry == Permutations(Leaves)

=============================================================================
