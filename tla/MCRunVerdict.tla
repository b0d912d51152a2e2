---------------------------- MODULE MCRunVerdict ----------------------------
(* A small instance of RunVerdict for TLC: RunVerdict.cfg. *)
EXTENDS RunVerdict
=============================================================================
