----------------------------- MODULE MCThrottle -----------------------------
(***************************************************************************)
(* Instances of the throttling core for TLC.                               *)
(***************************************************************************)
EXTENDS ThrottleRefinement

CONSTANTS t1, t2, a1, a2

TwoThreads == {t1, t2}
OneAdmin == {a1}
TwoAdmins == {a1, a2}
OneSignalled == {t1}
MaxRequests == {-1, 0, 1, 2}
MaxZeroOrOne == {0, 1}
=============================================================================
