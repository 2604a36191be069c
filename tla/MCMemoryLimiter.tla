-------------------------- MODULE MCMemoryLimiter --------------------------
(* Small instances of MemoryLimiter. *)
EXTENDS MemoryLimiter, TLC

CONSTANTS t1, t2, g1, g2, sw

(* Two tenants in one shard. *)
ShardOne == (t1 :> 1) @@ (t2 :> 1)

ShardT1 == t1 :> 1
Symmetry == Permutations({g1, g2}) \cup Permutations({t1, t2})
=============================================================================
