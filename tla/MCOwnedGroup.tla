---------------------------- MODULE MCOwnedGroup ----------------------------
(* A small instance of OwnedGroup for TLC: OwnedGroup.cfg. *)
EXTENDS OwnedGroup
=============================================================================
