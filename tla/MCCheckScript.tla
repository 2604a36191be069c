--------------------------- MODULE MCCheckScript ---------------------------
(* Small instances of CheckScript. *)
EXTENDS CheckScript
=============================================================================
