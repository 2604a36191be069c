--------------------------- MODULE MCPolicyStore ---------------------------
(* Small instances of PolicyStore for TLC.                                 *)
EXTENDS PolicyStore

CONSTANTS a1, a2, p1, p2, t1, k1, k2, x, y, upper

(* Two storable records with nothing in common, one that leaves the mode   *)
(* out, one whose second limit the table's pattern refuses, and one that   *)
(* Validate refuses.                                                       *)
Bodies ==
    {[mode |-> "closed", limits |-> <<x>>],
     [mode |-> "open", limits |-> <<y>>],
     [mode |-> "", limits |-> <<x>>],
     [mode |-> "closed", limits |-> <<x, upper>>],
     [mode |-> "closed", limits |-> <<>>]}

DemoRows == [policy |-> p1, tenant |-> t1,
             body |-> [mode |-> "closed", limits |-> <<x>>]]

OnePrefix == [k \in Key |-> x]
=============================================================================
