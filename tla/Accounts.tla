-------------------------------- MODULE Accounts -------------------------------
(***************************************************************************)
(* Customers, administrators, their groups and the privileges of a group;  *)
(* the guards of the routes, which take an administrator's privileges from *)
(* a cache; registration, login and the CRUD services of AdminsService,    *)
(* AdminGroupsService and AdminPrivilegesService.  No handler but that of  *)
(* `register` has a transaction of its own.  The other handlers are in     *)
(* Resources, Booking and Watches: here they answer.                       *)
(*                                                                         *)
(* The row that a request inserts has the request for id.                  *)
(***************************************************************************)
EXTENDS Integers, Routes

CONSTANTS
  Requests,     \* the HTTP requests, naturals
  Sends,        \* request -> what its client may send
  InitialRows,  \* table -> (id -> row)
  NoOrder,      \* a request that has not arrived, or is answered
  NoRow         \* no row was found

Tables == {"privileges", "group", "admin", "customer"}

(* The columns of the tables, whose ids are the domain, and their types.   *)
Privilege  == {"code"}
AdminGroup == {"name", "privileges"}
Admin      == {"email", "password", "group"}
Customer   == {"email", "password"}

Columns ==
  [privileges |-> Privilege, group |-> AdminGroup, admin |-> Admin, customer |-> Customer]

ColumnType ==
  [code |-> STRING, name |-> STRING, email |-> STRING, password |-> STRING,
   group |-> Nat, privileges |-> SUBSET Nat]

INSTANCE Repository WITH SetFields <- {"privileges"}, IdFields <- {"group"}

ASSUME IdsAssumption ==
  /\ Requests \subseteq Nat
  /\ \A t \in Tables : DOMAIN InitialRows[t] \subseteq Nat \ Requests
  /\ \A r \in Requests : NoOrder \notin Sends[r]

(* What the columns, the foreign keys and the unique index of the          *)
(* customers are built on.                                                 *)
ASSUME InitialAssumption ==
  /\ DOMAIN InitialRows = Tables
  /\ \A t \in Tables : \A i \in DOMAIN InitialRows[t] :
       IsRow(t, InitialRows[t][i]) /\ RefersTo(InitialRows, InitialRows[t][i])
  /\ \A c, d \in DOMAIN InitialRows.customer :
       InitialRows.customer[c].email = InitialRows.customer[d].email => c = d

(* A request is sent to one of the routes, and its body is validated       *)
(* before the handler runs: those that create a row have its columns.      *)
ASSUME BodiesAssumption ==
  \A r \in Requests : \A o \in Sends[r] :
    /\ \E x \in AllRoutes : x.on = o.on /\ x.op = o.op
    /\ o.on \in Tables /\ o.op \in {"create", "register"} => IsRow(o.on, o.set)
    /\ o.on \in Tables /\ o.op = "update" => DOMAIN o.set \subseteq Columns[o.on] /\ Typed(o.set)

VARIABLES
  db,       \* table -> (id -> row): what is committed
  cache,    \* administrator -> the codes under its key `privileges:`
  tokens,   \* the principals <<kind, id>> that a token was signed for
  at,       \* where each request is in its handler, or its answer
  order,    \* what each request asks for
  mem,      \* what its handler has in memory
  raced,    \* history: what its sender may do changed since it arrived
  excused   \* history: administrators whose key may be stale until it expires

vars == <<db, cache, tokens, at, order, mem, raced, excused>>

Answers == {"ok", "unauthorized", "forbidden", "notFound", "conflict", "error"}
Idle    == {"new"} \cup Answers

(* row: what is created or edited; found: what `save` has read of it;      *)
(* codes: privileges loaded; keys: cache keys that are still to be dropped *)
NoMemory == [row |-> NoRow, found |-> NoRow, codes |-> {}, keys |-> {}]

(* Definitions with a name that finds fault are variants of the next one.  *)

(* What the rows say an administrator may do: the loader of                *)
(* effectivePrivileges.                                                    *)
Effective(rs, a) ==
  IF a \notin DOMAIN rs.admin THEN {}
  ELSE {rs.privileges[p].code : p \in rs.group[rs.admin[a].group].privileges}

Goto(r, s) == at' = [at EXCEPT ![r] = s]

Answer(r, a) ==
  /\ Goto(r, a)
  /\ order' = [order EXCEPT ![r] = NoOrder]
  /\ mem' = [mem EXCEPT ![r] = NoMemory]

Respond(r, a) ==
  /\ Answer(r, a)
  /\ raced' = [raced EXCEPT ![r] = FALSE]
  /\ UNCHANGED <<db, cache, tokens, excused>>

Step(r, s, m) ==
  /\ Goto(r, s)
  /\ mem' = [mem EXCEPT ![r] = m]
  /\ UNCHANGED <<db, cache, tokens, order, raced, excused>>

-----------------------------------------------------------------------------
(* Guards                                                                  *)

RouteOf(o) == CHOOSE x \in AllRoutes : x.on = o.on /\ x.op = o.op

(* Tables of accounts, for the two kinds of principals. *)
AccountOf(p) == IF p[1] = "ADMIN" THEN "admin" ELSE "customer"

(* JwtStrategy looks the account of the token up. *)
Known(p) == p[2] \in DOMAIN db[AccountOf(p)]

AdminAuthGuard(p)    == p[1] = "ADMIN"
CustomerAuthGuard(p) == p[1] \in {"ADMIN", "CUSTOMER"}

Passes(guard, p) ==
  CASE guard = "admin"    -> AdminAuthGuard(p)
    [] guard = "customer" -> CustomerAuthGuard(p)
    [] OTHER              -> TRUE

Enter(r, o, s) ==
  /\ Goto(r, s)
  /\ order' = [order EXCEPT ![r] = o]
  /\ UNCHANGED <<db, cache, tokens, mem, raced, excused>>

(* A request arrives with a token, or at a route that needs none.          *)
Arrive(r) ==
  /\ at[r] = "new"
  /\ \E o \in Sends[r] :
       LET route == RouteOf(o)
       IN  IF route.guard = "none" THEN Enter(r, o, "handler")
           ELSE /\ o.by \in tokens
                /\ IF ~Known(o.by) THEN Respond(r, "unauthorized")
                   ELSE IF ~Passes(route.guard, o.by) THEN Respond(r, "forbidden")
                   ELSE IF route.needs = {} \/ o.by[1] # "ADMIN" THEN Enter(r, o, "handler")
                   ELSE Enter(r, o, "guard")

Sender(r) == order[r].by[2]

(* PrivilegesGuard, with what effectivePrivileges returns. *)
Decide(r, codes) ==
  IF RouteOf(order[r]).needs \subseteq codes
  THEN /\ Goto(r, "handler")
       /\ mem' = [mem EXCEPT ![r] = NoMemory]
       /\ UNCHANGED <<order, raced>>
  ELSE /\ Answer(r, "forbidden")
       /\ raced' = [raced EXCEPT ![r] = FALSE]

CacheHit(r) ==
  /\ at[r] = "guard"
  /\ Sender(r) \in DOMAIN cache
  /\ Decide(r, cache[Sender(r)])
  /\ UNCHANGED <<db, cache, tokens, excused>>

(* No value, or Redis fails. *)
CacheMiss(r) == at[r] = "guard" /\ Step(r, "load", mem[r])

Load(r) ==
  /\ at[r] = "load"
  /\ Step(r, "store", [mem[r] EXCEPT !.codes = Effective(db, Sender(r))])

(* The value is stored, unless Redis fails, and the guard goes on. *)
Store(r) ==
  /\ at[r] = "store"
  /\ \/ /\ cache' = [a \in DOMAIN cache \cup {Sender(r)} |->
                      IF a = Sender(r) THEN mem[r].codes ELSE cache[a]]
        /\ excused' = IF raced[r] THEN excused \cup {Sender(r)} ELSE excused \ {Sender(r)}
     \/ UNCHANGED <<cache, excused>>
  /\ Decide(r, mem[r].codes)
  /\ UNCHANGED <<db, tokens>>

Forget(keys) ==
  /\ cache' = [a \in DOMAIN cache \ keys |-> cache[a]]
  /\ excused' = excused \ keys

(* The 60 seconds of a key are over. *)
Expire(a) ==
  /\ a \in DOMAIN cache
  /\ Forget({a})
  /\ UNCHANGED <<db, tokens, at, order, mem, raced>>

-----------------------------------------------------------------------------
(* Statements                                                              *)

Exists(o) == o.id \in DOMAIN db[o.on]

UniqueColumn ==
  [privileges |-> "code", group |-> "name", admin |-> "email", customer |-> "email"]

TakenByAdmin(t, id, row) ==
  t = "admin" /\ \E i \in DOMAIN db[t] \ {id} : db[t][i][UniqueColumn[t]] = row[UniqueColumn[t]]

(* The unique index refuses the row. *)
Taken(t, id, row) ==
  \E i \in DOMAIN db[t] \ {id} : db[t][i][UniqueColumn[t]] = row[UniqueColumn[t]]

(* Requests of those whose privileges the statement changes are raced.     *)
RacedBy(rows) ==
  [q \in Requests |->
     \/ raced[q]
     \/ /\ at[q] \notin Idle
        /\ order[q].by[1] = "ADMIN"
        /\ Effective(rows, Sender(q)) # Effective(db, Sender(q))]

AnsweredAtOnce(o) == IF o.on = "admin" /\ o.op = "update" THEN "drop" ELSE "ok"

(* What follows a change: the invalidation of the privileges of all        *)
(* administrators, or of the one that was changed, or the answer.          *)
AfterSave(o) ==
  IF <<o.on, o.op>> \in {<<"group", "update">>, <<"privileges", "delete">>} THEN "scan"
  ELSE IF o.on = "admin" /\ o.op = "update" THEN "drop"
  ELSE "ok"

Commit(r, rows) ==
  /\ db' = rows
  /\ IF AfterSave(order[r]) = "ok"
     THEN /\ Answer(r, "ok")
          /\ raced' = [RacedBy(rows) EXCEPT ![r] = FALSE]
     ELSE /\ Goto(r, AfterSave(order[r]))
          /\ mem' = [mem EXCEPT ![r] = [NoMemory EXCEPT !.keys = {order[r].id}]]
          /\ raced' = RacedBy(rows)
          /\ UNCHANGED order
  /\ UNCHANGED <<cache, excused>>

(* The token of a new customer is signed once the row is committed. *)
Signed(r) == IF order[r].op = "register" THEN {<<"CUSTOMER", r>>} ELSE {}

(* INSERT, of a new row or of one that `save` did not find any more. *)
Insert(r) ==
  /\ at[r] = "insert"
  /\ LET t == order[r].on
         id == IF order[r].op = "update" THEN order[r].id ELSE r
     IN  IF id \in DOMAIN db[t] \/ Taken(t, id, mem[r].row) \/ ~RefersTo(db, mem[r].row)
         THEN Respond(r, "error")
         ELSE /\ Commit(r, Inserted(db, t, id, mem[r].row))
              /\ tokens' = tokens \cup Signed(r)

Find(r) ==
  /\ at[r] = "find"
  /\ IF Exists(order[r])
     THEN Step(r, "write", [mem[r] EXCEPT !.found = db[order[r].on][order[r].id]])
     ELSE Step(r, "insert", mem[r])

Write(r) ==
  /\ at[r] = "write"
  /\ LET t == order[r].on
         id == order[r].id
         rows == Saved(db, t, id, mem[r].row, mem[r].found)
     IN  IF \/ ~MayAdd(db, t, id, mem[r].row, mem[r].found)
            \/ /\ id \in DOMAIN db[t]
               /\ Taken(t, id, rows[t][id]) \/ ~RefersTo(rows, rows[t][id])
         THEN Respond(r, "error")
         ELSE Commit(r, rows) /\ UNCHANGED tokens

Members(id) == {a \in DOMAIN db.admin : db.admin[a].group = id}

NoForeignKey(o) == FALSE

(* The foreign key of the administrators refuses to delete their group. *)
Refused(o) == o.on = "group" /\ Members(o.id) # {}

Remove(r) ==
  /\ at[r] = "remove"
  /\ IF Refused(order[r]) THEN Respond(r, "error")
     ELSE /\ Commit(r, Kept(db, {<<order[r].on, order[r].id>>}, order[r].on, order[r].id))
          /\ UNCHANGED tokens

(* invalidateAllPrivileges looks for the keys first. *)
Scan(r) == at[r] = "scan" /\ Step(r, "drop", [mem[r] EXCEPT !.keys = DOMAIN cache])

(* DEL of one key, and the answer after the last one. *)
DropKey(r) ==
  /\ at[r] = "drop"
  /\ \E a \in mem[r].keys :
       /\ Forget({a})
       /\ mem' = [mem EXCEPT ![r].keys = @ \ {a}]
       /\ UNCHANGED <<db, tokens, at, order, raced>>

Dropped(r) == at[r] = "drop" /\ mem[r].keys = {} /\ Respond(r, "ok")

-----------------------------------------------------------------------------
(* Handlers: what they do until the first statement that writes            *)

Handles(r, on, op) == at[r] = "handler" /\ order[r].on = on /\ order[r].op = op

Register(r) ==
  /\ Handles(r, "customer", "register")
  /\ IF \E c \in DOMAIN db.customer : db.customer[c].email = order[r].set.email
     THEN Respond(r, "conflict")
     ELSE Step(r, "insert", [NoMemory EXCEPT !.row = order[r].set])

Login(r, kind) ==
  LET who == {i \in DOMAIN db[order[r].on] :
                /\ db[order[r].on][i].email = order[r].set.email
                /\ db[order[r].on][i].password = order[r].set.password}
  IN  IF who = {} THEN Respond(r, "unauthorized")
      ELSE /\ Answer(r, "ok")
           /\ tokens' = tokens \cup {<<kind, i>> : i \in who}
           /\ raced' = [raced EXCEPT ![r] = FALSE]
           /\ UNCHANGED <<db, cache, excused>>

LoginCustomer(r) == Handles(r, "customer", "login") /\ Login(r, "CUSTOMER")
LoginAdmin(r)    == Handles(r, "admin", "login") /\ Login(r, "ADMIN")

CreatePrivilege(r) ==
  /\ Handles(r, "privileges", "create")
  /\ IF \E p \in DOMAIN db.privileges : db.privileges[p].code = order[r].set.code
     THEN Respond(r, "conflict")
     ELSE Step(r, "insert", [NoMemory EXCEPT !.row = order[r].set])

GroupsWith(p) == {g \in DOMAIN db.group : p \in db.group[g].privileges}

DeletePrivilege(r) ==
  /\ Handles(r, "privileges", "delete")
  /\ IF ~Exists(order[r]) THEN Respond(r, "notFound")
     ELSE IF GroupsWith(order[r].id) # {} THEN Respond(r, "conflict")
     ELSE Step(r, "remove", NoMemory)

CreateGroupUnresolved(r) ==
  /\ Handles(r, "group", "create")
  /\ Step(r, "insert", [NoMemory EXCEPT !.row = [name |-> order[r].set.name]])

CreateGroup(r) ==
  /\ Handles(r, "group", "create")
  /\ IF order[r].set.privileges \subseteq DOMAIN db.privileges
     THEN Step(r, "insert", [NoMemory EXCEPT !.row = order[r].set])
     ELSE Respond(r, "notFound")

(* requireOne, and then the lookup of what the body refers to. *)
UpdateGroup(r) ==
  /\ Handles(r, "group", "update")
  /\ IF ~Exists(order[r]) THEN Respond(r, "notFound")
     ELSE Step(r, IF "privileges" \in DOMAIN order[r].set THEN "resolve" ELSE "find",
               [NoMemory EXCEPT !.row = Patched(db.group[order[r].id], order[r].set)])

DeleteGroup(r) ==
  /\ Handles(r, "group", "delete")
  /\ IF Exists(order[r]) THEN Step(r, "count", NoMemory) ELSE Respond(r, "notFound")

CountMembers(r) ==
  /\ at[r] = "count"
  /\ IF Members(order[r].id) # {} THEN Respond(r, "conflict") ELSE Step(r, "remove", NoMemory)

CreateAdmin(r) ==
  /\ Handles(r, "admin", "create")
  /\ IF RefersTo(db, order[r].set)
     THEN Step(r, "insert", [NoMemory EXCEPT !.row = order[r].set])
     ELSE Respond(r, "notFound")

(* requireOne has loaded the relation `group` too; whether `save` takes    *)
(* the id from it or from the column that was set is TypeORM's choice.     *)
UpdateAdmin(r) ==
  /\ Handles(r, "admin", "update")
  /\ IF ~Exists(order[r]) THEN Respond(r, "notFound")
     ELSE \E fields \in {DOMAIN order[r].set, DOMAIN order[r].set \ {"group"}} :
            Step(r, IF "group" \in DOMAIN order[r].set THEN "resolve" ELSE "find",
                 [NoMemory EXCEPT !.row =
                    Patched(db.admin[order[r].id], [f \in fields |-> order[r].set[f]])])

DeleteAdmin(r) ==
  /\ Handles(r, "admin", "delete")
  /\ IF Exists(order[r]) THEN Step(r, "remove", NoMemory) ELSE Respond(r, "notFound")

(* resolvePrivileges of an update, or requireOne of the group in its body. *)
Resolve(r) ==
  /\ at[r] = "resolve"
  /\ IF RefersTo(db, order[r].set) THEN Step(r, "find", mem[r]) ELSE Respond(r, "notFound")

(* A handler that changes no accounts. *)
Elsewhere(r) ==
  /\ at[r] = "handler"
  /\ order[r].on \notin Tables \/ order[r].op \in Reads \cup {"me", "vehicles"}
  /\ Respond(r, "ok")

-----------------------------------------------------------------------------
(* The database fails, or the process ends; an invalidation that fails is  *)
(* logged only, and leaves its keys.                                       *)
Fail(r) ==
  /\ at[r] \notin Idle
  /\ \E a \in {"error"} \cup (IF at[r] \in {"scan", "drop"} THEN {"ok"} ELSE {}) : Answer(r, a)
  /\ raced' = [raced EXCEPT ![r] = FALSE]
  /\ excused' = excused \cup (IF at[r] = "scan" THEN DOMAIN cache
                              ELSE IF at[r] = "drop" THEN mem[r].keys \cap DOMAIN cache ELSE {})
  /\ UNCHANGED <<db, cache, tokens>>

Proceed(r) ==
  \/ CacheHit(r) \/ CacheMiss(r) \/ Load(r) \/ Store(r)
  \/ Register(r) \/ LoginCustomer(r) \/ LoginAdmin(r)
  \/ CreatePrivilege(r) \/ DeletePrivilege(r)
  \/ CreateGroup(r) \/ UpdateGroup(r) \/ DeleteGroup(r) \/ CountMembers(r)
  \/ CreateAdmin(r) \/ UpdateAdmin(r) \/ DeleteAdmin(r)
  \/ Resolve(r) \/ Find(r) \/ Write(r) \/ Insert(r) \/ Remove(r)
  \/ Scan(r) \/ DropKey(r) \/ Dropped(r) \/ Elsewhere(r)

Init ==
  /\ db = InitialRows
  /\ cache = << >>
  /\ tokens = ({"ADMIN"} \X DOMAIN db.admin) \cup ({"CUSTOMER"} \X DOMAIN db.customer)
  /\ at = [r \in Requests |-> "new"]
  /\ order = [r \in Requests |-> NoOrder]
  /\ mem = [r \in Requests |-> NoMemory]
  /\ raced = [r \in Requests |-> FALSE]
  /\ excused = {}

Next ==
  \/ \E r \in Requests : Arrive(r) \/ Proceed(r) \/ Fail(r)
  \/ \E a \in DOMAIN cache : Expire(a)

Spec == Init /\ [][Next]_vars

-----------------------------------------------------------------------------
(* Properties                                                              *)

(* Rows keep the columns of their table, and keys of the cache hold codes. *)
AccountsTypeOK ==
  /\ \A t \in Tables :
       DOMAIN db[t] \subseteq Nat /\ \A i \in DOMAIN db[t] : IsRow(t, db[t][i])
  /\ \A a \in DOMAIN cache : cache[a] \subseteq STRING
  /\ tokens \subseteq {"ADMIN", "CUSTOMER"} \X Nat
  /\ at \in [Requests -> Idle \cup {"guard", "load", "store", "handler", "resolve", "find",
                                    "write", "insert", "count", "remove", "scan", "drop"}]
  /\ \A r \in Requests : order[r] = NoOrder <=> at[r] \in Idle
  /\ excused \subseteq DOMAIN cache

(* Every administrator has a group and every privilege of a group is       *)
(* there, although a group can gain a member after its members were        *)
(* counted, and a privilege be deleted while a group is given it.          *)
NothingDangles == \A t \in Tables : \A i \in DOMAIN db[t] : RefersTo(db, db[t][i])

(* Two registrations of one email, which both find it free, do not both    *)
(* succeed: a token is signed for no customer but that of the one row.     *)
OneAccountPerEmail ==
  /\ \A c, d \in DOMAIN db.customer : db.customer[c].email = db.customer[d].email => c = d
  /\ \A p \in tokens : p[1] = "CUSTOMER" => p[2] \in DOMAIN db.customer

(* The privilege that the table of the system design asks for.             *)
Documented(o) ==
  CASE o.on = "appointments" /\ o.op = "list"     -> {"VIEW_APPOINTMENTS"}
    [] o.on = "capabilities" /\ o.op \in Writes   -> {"MANAGE_CAPABILITIES"}
    [] o.on = "skills" /\ o.op \in Writes         -> {"MANAGE_SKILLS"}
    [] o.on = "dealership" /\ o.op \in Writes     -> {"MANAGE_DEALERSHIPS"}
    [] o.on = "service" /\ o.op \in Writes        -> {"MANAGE_SERVICE_TYPES"}
    [] o.on = "bay" /\ o.op \in Writes            -> {"MANAGE_BAYS"}
    [] o.on = "tech" /\ o.op \in Writes           -> {"MANAGE_TECHNICIANS"}
    [] o.on \in {"admin", "group", "privileges"} /\ o.op # "login" -> {"MANAGE_ADMINS"}
    [] OTHER -> {}

Pending(a) ==
  \E q \in Requests : at[q] = "scan" \/ (at[q] = "drop" /\ a \in mem[q].keys)

(* The guard lets an administrator through if and only if the rows of now  *)
(* grant the privilege, whatever changes of groups, privileges and         *)
(* administrators went before, except while an invalidation is pending or  *)
(* has failed, and except for what was loaded when the change was made.    *)
Exact(r) ==
  \/ Pending(Sender(r))
  \/ Sender(r) \in excused
  \/ raced[r] /\ (at[r] = "store" \/ Sender(r) \notin DOMAIN db.admin)
  \/ at'[r] = "handler" <=> Documented(order[r]) \subseteq Effective(db, Sender(r))

GuardFollowsTheRows ==
  [][\A r \in Requests :
       /\ at[r] \in {"guard", "store"} /\ at'[r] \in {"handler", "forbidden"} => Exact(r)
       /\ at[r] = "new" /\ at'[r] = "handler" /\ order'[r].by[1] = "ADMIN" =>
            Documented(order'[r]) = {}]_vars

===============================================================================
