------------------------- MODULE MCHealthChecker -------------------------
(* Small instances of HealthChecker. *)
EXTENDS HealthChecker, TLC

CONSTANTS n1, n2, u1, u2, g1, g2, g3
=============================================================================
