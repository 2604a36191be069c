--------------------------- MODULE MCPolicyFence ---------------------------
(* Small instances of PolicyFence. *)
EXTENDS PolicyFence, TLC

CONSTANTS n1, n2, r1, r2

(* One handler on each of two nodes. *)
HomeApart == (r1 :> n1) @@ (r2 :> n2)
(* Two handlers of one node, sharing its cache and its fetch. *)
HomeTogether == (r1 :> n1) @@ (r2 :> n1)
(* The two are interchangeable there; the runs that use this check no liveness. *)
Handlers == Permutations({r1, r2})
(* One handler alone. *)
HomeAlone == (r1 :> n1)
=============================================================================
