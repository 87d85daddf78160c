------------------------------ MODULE Repository ------------------------------
(***************************************************************************)
(* What TypeORM's `save` and the foreign keys of MySQL do to rows, for the *)
(* modules of the administrators' CRUD services.  The database is a record *)
(* of tables and a table a function from ids to rows; a row is a record    *)
(* whose fields that refer to a table have the name of that table.         *)
(***************************************************************************)
CONSTANTS
  Columns,     \* table -> the names of its columns
  ColumnType,  \* name of a column -> its values
  SetFields,   \* columns with a set of ids: the many-to-many relations
  IdFields     \* columns with the id of one row, which must be there

(* A definition with a name that finds fault is a variant of the next one. *)

Typed(row)    == \A f \in DOMAIN row : row[f] \in ColumnType[f]
IsRow(t, row) == DOMAIN row = Columns[t] /\ Typed(row)

Sets(row) == SetFields \cap DOMAIN row

(* The fields of a body are set in a row. *)
Patched(row, body) ==
  [f \in DOMAIN row \cup DOMAIN body |-> IF f \in DOMAIN body THEN body[f] ELSE row[f]]

RefersTo(rs, row) ==
  /\ \A f \in IdFields \cap DOMAIN row : row[f] \in DOMAIN rs[f]
  /\ \A f \in Sets(row) : row[f] \subseteq DOMAIN rs[f]

(* `save` sends what makes row, the entity in memory, differ from found,   *)
(* the row it has just read: the columns, and each id of a relation.       *)
Changed(row, found) == {f \in DOMAIN row \ SetFields : row[f] # found[f]}

Added(row, found) == [f \in Sets(row) |-> row[f] \ found[f]]

AnyAdded(row, found) == \E f \in Sets(row) : Added(row, found)[f] # {}

(* New ids of a relation need the rows at both of its ends. *)
MayAdd(rs, t, id, row, found) ==
  /\ RefersTo(rs, Added(row, found))
  /\ AnyAdded(row, found) => id \in DOMAIN rs[t]

Merged(row, found, now) ==
  [f \in DOMAIN now |->
     IF f \in SetFields THEN (now[f] \cup (row[f] \ found[f])) \ (found[f] \ row[f])
     ELSE IF f \in Changed(row, found) THEN row[f] ELSE now[f]]

Saved(rs, t, id, row, found) ==
  IF id \in DOMAIN rs[t] THEN [rs EXCEPT ![t][id] = Merged(row, found, @)] ELSE rs

Inserted(rs, t, id, row) ==
  [rs EXCEPT ![t] = [i \in DOMAIN @ \cup {id} |-> IF i = id THEN row ELSE @[i]]]

KeptUntagged(rs, gone, t, id) ==
  [u \in DOMAIN rs |->
     [i \in {j \in DOMAIN rs[u] : <<u, j>> \notin gone} |->
        IF t \in Sets(rs[u][i]) /\ id \in rs[u][i][t]
        THEN [rs[u][i] EXCEPT ![t] = {}] ELSE rs[u][i]]]

(* DELETE of the row id of t takes the rows gone along, and id out of all  *)
(* relations it was in: the rows of a join table go with either end.       *)
Kept(rs, gone, t, id) ==
  [u \in DOMAIN rs |->
     [i \in {j \in DOMAIN rs[u] : <<u, j>> \notin gone} |->
        IF t \in Sets(rs[u][i]) THEN [rs[u][i] EXCEPT ![t] = @ \ {id}] ELSE rs[u][i]]]

===============================================================================
