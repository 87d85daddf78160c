------------------------------- MODULE MCBooking ------------------------------
(***************************************************************************)
(* Instances of Booking for TLC: two dealerships, d1 with bays 2 and 3 and *)
(* technicians 1 and 2, d2 with bay 1 and nobody.  An oil change takes two *)
(* minutes and can use either bay and either technician; a tyre change     *)
(* takes one minute and needs the lift of bay 3 and the skill of           *)
(* technician 2.  A day has eight minutes, of two ticks each; the shift of *)
(* technician 1 ends with minute 2, and that of technician 2 with 6.       *)
(***************************************************************************)
EXTENDS BookingProofs, TLC

CONSTANTS c1, c2, r1, r2, r3, d1, d2

MCRequests == {r1, r2, r3}
MCCustomers == {c1, c2}   \* c2 has no vehicle, and no appointment to act on
MCVehicles == {"car"}
MCVehicleOwner == [v \in {"car"} |-> c1]

MCServices == {"oil", "tyre"}
MCServiceRow ==
  [s \in MCServices |->
     IF s = "oil"
     THEN [minutes |-> 2, capabilities |-> {"pit"}, skills |-> {"engines"}]
     ELSE [minutes |-> 1, capabilities |-> {"lift"}, skills |-> {"tyres"}]]

MCBayRow ==
  [b \in 1..3 |->
     [dealership |-> IF b = 1 THEN d2 ELSE d1,
      capabilities |-> IF b = 3 THEN {"pit", "lift"} ELSE {"pit"}]]

MCTechRow ==
  [t \in 1..2 |->
     [dealership |-> d1, skills |-> IF t = 2 THEN {"engines", "tyres"} ELSE {"engines"},
      shiftStart |-> 0, shiftEnd |-> IF t = 2 THEN 6 ELSE 2]]

Symmetry == Permutations(MCRequests)

===============================================================================
