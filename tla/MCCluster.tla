----------------------------- MODULE MCCluster -----------------------------
(* Small instances of Cluster. *)
EXTENDS Cluster, TLC

CONSTANTS n1, n2, a1, a2

(* The first node's file names both; the second's was written before the
   first joined. *)
FileStale == (n1 :> ((n1 :> a1) @@ (n2 :> a2))) @@ (n2 :> ((n1 :> NoAddr) @@ (n2 :> a2)))
=============================================================================
