------------------------------ MODULE MCServing ------------------------------
(* Small instances of Serving. *)
EXTENDS Serving, TLC

CONSTANTS closed, open, r1

(* With one point a node the tenants are node 2's, with two they are       *)
(* node 1's: nodes that disagree on the points send them both ways.        *)
Points123 == (<<1, 0>> :> 2) @@ (<<1, 1>> :> 0) @@ (<<2, 0>> :> 1)
             @@ (<<2, 1>> :> 3) @@ (<<3, 0>> :> 2) @@ (<<3, 1>> :> 2)
TenantAtZero == [t \in Tenant |-> 0]
=============================================================================
