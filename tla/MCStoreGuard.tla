---------------------------- MODULE MCStoreGuard ----------------------------
(* Small instances of StoreGuard. *)
EXTENDS StoreGuard

CONSTANTS n1, n2, t1
=============================================================================
