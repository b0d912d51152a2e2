--------------------------- MODULE MCGuestSession ---------------------------
(* Small instances of GuestSession for TLC: GuestSession.cfg, LostDial.cfg. *)
EXTENDS GuestSession
=============================================================================
