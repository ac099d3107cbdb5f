---------------------------- MODULE MCShadowAudit ----------------------------
(* A window of two slots lapped twice by two or three recorders.  The       *)
(* policy accepts from one observation on and tolerates no mismatch.        *)
EXTENDS ShadowAudit

NoMismatch == [num |-> 0, den |-> 1]
Half == [num |-> 1, den |-> 2]

=============================================================================
