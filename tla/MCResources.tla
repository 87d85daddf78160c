------------------------------ MODULE MCResources -----------------------------
(***************************************************************************)
(* Instances of Resources for TLC: two dealerships, the first with the     *)
(* bays 1 and 2 and the technicians 1 and 2, the second with bay 3.  The   *)
(* oil change (1) asks for capability 1, which all bays have, and the tyre *)
(* change (2) for capability 2, which bay 2 alone has; both ask for        *)
(* skill 1, which both technicians have.                                   *)
(***************************************************************************)
EXTENDS Resources, TLC

MCRows ==
  [dealership   |-> [i \in 1..2 |-> [name |-> "old"]],
   capabilities |-> [i \in 1..2 |-> [name |-> "old"]],
   skills       |-> [i \in 1..1 |-> [name |-> "old"]],
   service      |-> [i \in 1..2 |-> [name |-> "old", minutes |-> 2, capabilities |-> {i}, skills |-> {1}]],
   bay          |-> [i \in 1..3 |-> [name |-> "old", dealership |-> IF i = 3 THEN 2 ELSE 1,
                                     capabilities |-> IF i = 2 THEN {1, 2} ELSE {1}]],
   tech         |-> [i \in 1..2 |-> [name |-> "old", dealership |-> 1, skills |-> {1},
                                     shiftStart |-> 0, shiftEnd |-> 6]]]

BookAt(s, start) == [op |-> "book", dealership |-> 1, service |-> s, start |-> start]
DeleteOf(t, i) == [op |-> "delete", table |-> t, id |-> i]
UpdateOf(t, i, body) == [op |-> "update", table |-> t, id |-> i, set |-> body]
CreateOf(t, body) == [op |-> "create", table |-> t, set |-> body]

Body == [name |-> "new"]

(* Edits that change what a booking sees, or that another edit refers to. *)
Edits ==
  { DeleteOf("dealership", 1), DeleteOf("bay", 1), DeleteOf("tech", 1),
    DeleteOf("service", 1), DeleteOf("capabilities", 1), DeleteOf("skills", 1),
    UpdateOf("dealership", 1, Body),
    UpdateOf("bay", 1, Body),
    UpdateOf("bay", 1, [capabilities |-> {2}]),
    UpdateOf("tech", 1, [shiftEnd |-> 2]),
    UpdateOf("tech", 2, [skills |-> {}]),
    UpdateOf("service", 1, [minutes |-> 1, capabilities |-> {2}, skills |-> {}]),
    CreateOf("bay", [dealership |-> 1, capabilities |-> {2}] @@ Body),
    CreateOf("service", [minutes |-> 1, capabilities |-> {1}, skills |-> {1}] @@ Body) }

(* The other ones. *)
MoreEdits ==
  { UpdateOf("capabilities", 1, Body), UpdateOf("skills", 1, Body),
    CreateOf("dealership", Body), CreateOf("capabilities", Body), CreateOf("skills", Body),
    CreateOf("tech", [dealership |-> 1, skills |-> {1}] @@ Body) }

MCSends ==
  (11 :> Edits \cup MoreEdits) @@ (12 :> Edits \cup {BookAt(1, 1)}) @@ (13 :> {BookAt(1, 2)})

MCShift == [shiftStart |-> 0, shiftEnd |-> 6]

(* The bay for tyres is deleted, edited at the same time and booked twice. *)
RevivedSends ==
  (11 :> {DeleteOf("bay", 2)}) @@ (12 :> {UpdateOf("bay", 2, [name |-> "new"])})
  @@ (13 :> {BookAt(2, 1)}) @@ (14 :> {BookAt(2, 2)})

===============================================================================
