------------------------------ MODULE MCAccounts ------------------------------
(***************************************************************************)
(* Instances of Accounts for TLC.  Administrator 1 is in group 1, which    *)
(* may do everything; administrator 2 is in group 2, which manages bays,   *)
(* and group 3 has neither members nor privileges.  Privilege 3 is in no   *)
(* group.                                                                  *)
(***************************************************************************)
EXTENDS Accounts, TLC

Account(email) == [email |-> email, password |-> "old"]

MCRows ==
  [privileges |-> (1 :> [code |-> "MANAGE_ADMINS"]) @@ (2 :> [code |-> "MANAGE_BAYS"])
                  @@ (3 :> [code |-> "VIEW_APPOINTMENTS"]),
   group      |-> (1 :> [name |-> "all", privileges |-> {1, 2}])
                  @@ (2 :> [name |-> "bays", privileges |-> {2}])
                  @@ (3 :> [name |-> "none", privileges |-> {}]),
   admin      |-> [i \in 1..2 |-> [group |-> i] @@ Account(IF i = 1 THEN "a1" ELSE "a2")],
   customer   |-> << >>]

Super == <<"ADMIN", 1>>
Bayer == <<"ADMIN", 2>>

By(p, on, op)            == [on |-> on, op |-> op, by |-> p]
Delete(on, id)           == [id |-> id] @@ By(Super, on, "delete")
Update(on, id, body)     == [id |-> id, set |-> body] @@ By(Super, on, "update")
Create(on, body)         == [set |-> body] @@ By(Super, on, "create")
Public(on, op, body)     == [set |-> body] @@ By(<<"NONE", 0>>, on, op)

(* Changes of accounts. *)
Edits ==
  { Update("group", 2, [privileges |-> {}]), Update("group", 2, [privileges |-> {2, 3}]),
    Update("group", 2, [name |-> "new"]), Update("admin", 2, [group |-> 3]),
    Update("admin", 2, [email |-> "a1"]),
    Delete("group", 3), Delete("group", 2), Delete("admin", 2), Delete("privileges", 3),
    Create("privileges", [code |-> "MANAGE_SKILLS"]),
    Create("group", [name |-> "new", privileges |-> {3}]),
    Create("admin", [group |-> 3] @@ Account("a3")),
    Public("customer", "register", Account("c")) }

(* What administrator 2 and the customer who registers with request 21 try. *)
Probes ==
  { By(Bayer, "bay", "create"), By(Bayer, "admin", "list"), By(Bayer, "privileges", "delete") @@ [id |-> 3],
    By(Bayer, "appointments", "list"), By(<<"CUSTOMER", 21>>, "bay", "create"),
    By(<<"CUSTOMER", 21>>, "appointments", "list"),
    Public("customer", "login", Account("c")), Public("admin", "login", Account("a2")) }

MCSends == (21 :> Edits) @@ (22 :> Edits \cup {By(Bayer, "bay", "create")}) @@ (23 :> Probes)

===============================================================================
