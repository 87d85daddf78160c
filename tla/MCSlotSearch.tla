------------------------------ MODULE MCSlotSearch ----------------------------
(***************************************************************************)
(* Instances of SlotSearch for TLC: one dealership with two bays and two   *)
(* technicians and one with nobody; a two-minute service anyone can do and *)
(* a three-minute one that needs bay 2 and technician 2.  A day has eight  *)
(* minutes of two ticks.                                                   *)
(***************************************************************************)
EXTENDS SlotSearch

CONSTANTS d1, d2, a1, a2, a3

MCServices == {"oil", "tyre"}
MCServiceRow ==
  [s \in MCServices |->
     IF s = "oil"
     THEN [minutes |-> 2, capabilities |-> {}, skills |-> {}]
     ELSE [minutes |-> 3, capabilities |-> {"lift"}, skills |-> {"tyres"}]]

MCBayRow ==
  [b \in 1..2 |-> [dealership |-> d1, capabilities |-> IF b = 2 THEN {"lift"} ELSE {}]]

(* Overlapping shifts: minutes 0 to 5 and 2 to 7. *)
MCTechRow ==
  [k \in 1..2 |->
     IF k = 1
     THEN [dealership |-> d1, skills |-> {}, shiftStart |-> 0, shiftEnd |-> 5]
     ELSE [dealership |-> d1, skills |-> {"tyres"}, shiftStart |-> 2, shiftEnd |-> 7]]

(* A shift until midnight. *)
LateTechRow ==
  [k \in 1..2 |->
     [dealership |-> d1, skills |-> {"tyres"}, shiftStart |-> 4, shiftEnd |-> 8]]

===============================================================================
