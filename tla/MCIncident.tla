----------------------------- MODULE MCIncident -----------------------------
(***************************************************************************)
(* The instance of Incident for TLC (Incident.cfg).  Two authorities are   *)
(* good for worker 1 in overlapping intervals, one is for worker 2 and one *)
(* is not the issuer's.  The two clients hold one token or two.            *)
(***************************************************************************)
EXTENDS Incident

Good(jti, w, nbf, exp) ==
  [jti |-> jti, form |-> "signed", subject |-> TRUE, scope |-> TRUE, resource |-> w,
   nbf |-> nbf, exp |-> exp]

MCTokens == {Good("a", 1, 0, 2), Good("b", 1, 1, 2), Good("c", 2, 0, 2),
             [Good("d", 1, 0, 2) EXCEPT !.form = "forged"]}
=============================================================================
