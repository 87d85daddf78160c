-------------------------- MODULE MCAvailabilityCache -------------------------
(***************************************************************************)
(* Instances of AvailabilityCache for TLC: two readers, one change, two    *)
(* keys, so that a SCAN can take more than one batch.                      *)
(***************************************************************************)
EXTENDS AvailabilityCache

CONSTANTS c1, u1, u2, k1, k2

===============================================================================
