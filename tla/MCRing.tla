------------------------------- MODULE MCRing -------------------------------
(* A small instance of the ring; its constants are in the configuration. *)
EXTENDS Succession, TLC
=============================================================================
