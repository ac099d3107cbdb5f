----------------------------- MODULE AuditPolicy -----------------------------
(***************************************************************************)
(* decide_audit of shadow_audit.cpp.  Rates are fractions; the code's      *)
(* comparison of mismatches / observed with a policy rate (a double) is    *)
(* the comparison of the cross products, and the mismatch rate of an empty *)
(* window is zero.                                                         *)
(***************************************************************************)
EXTENDS Naturals

CONSTANTS
    ShadowMinObservations,
    ActivationMaxMismatchRate,  \* [num, den]
    LiveMinObservations,
    ReopenMinMismatches,
    ReopenMismatchRate          \* [num, den]

\* mismatches / observed <= rate, and >= rate; 0 / 0 counts as 0.
RateAtMost(snapshot, rate) ==
    snapshot.mismatches * rate.den <= rate.num * snapshot.observed

RateAtLeast(snapshot, rate) ==
    snapshot.mismatches * rate.den >= rate.num * snapshot.observed

DecideShadow(snapshot) ==
    IF snapshot.observed < ShadowMinObservations THEN "insufficient_data"
    ELSE IF RateAtMost(snapshot, ActivationMaxMismatchRate)
    THEN "activate"
    ELSE "reject"

DecideLive(snapshot) ==
    IF snapshot.observed < LiveMinObservations THEN "insufficient_data"
    ELSE IF /\ snapshot.mismatches >= ReopenMinMismatches
            /\ RateAtLeast(snapshot, ReopenMismatchRate)
    THEN "reopen"
    ELSE "healthy"

=============================================================================
