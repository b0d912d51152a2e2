------------------------------ MODULE MCVMMStop ------------------------------
(* The instance of VMMStop for TLC: VMMStop.cfg. *)
EXTENDS VMMStop
=============================================================================
