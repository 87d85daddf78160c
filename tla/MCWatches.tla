------------------------------- MODULE MCWatches ------------------------------
(***************************************************************************)
(* Instances of Watches for TLC: two watches at one dealership for two     *)
(* services, so that one cancellation opens slots for both and triggers a  *)
(* check of one.                                                           *)
(***************************************************************************)
EXTENDS Watches

CONSTANTS w1, w2, d1, oil, tyre

MCTarget ==
  [w \in Watches |-> [dealership |-> d1, service |-> IF w = w1 THEN oil ELSE tyre]]

===============================================================================
