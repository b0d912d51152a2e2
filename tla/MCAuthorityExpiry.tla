------------------------- MODULE MCAuthorityExpiry -------------------------
(* A small instance of AuthorityExpiry for TLC: AuthorityExpiry.cfg. *)
EXTENDS AuthorityExpiry

Base == [resource |-> "w1", notBefore |-> 1, expiresAt |-> 2, defects |-> {}]

\* Two resources, two intervals, a failing check, an empty interval.
MCRequest ==
  { Base,
    [Base EXCEPT !.resource = "w2", !.notBefore = 0],
    [Base EXCEPT !.defects = {"capability"}],
    [Base EXCEPT !.notBefore = 2] }
=============================================================================
