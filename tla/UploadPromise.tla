--------------------------- MODULE UploadPromise ---------------------------
(***************************************************************************)
(* What an upload task promises, seen through its status and the asset's   *)
(* file records: it ends once, by completion, cancellation or expiry; a    *)
(* completed task has put all its files into the catalogue in one step, at *)
(* paths and with contents that were not there before; nothing else ever   *)
(* changes the catalogue.                                                  *)
(***************************************************************************)
EXTENDS Naturals

CONSTANTS Tasks, Paths, Contents, Nothing

VARIABLES
    task,       \* task[t]: status of the task
    catalogue   \* catalogue[p]: content and originating task of the file at p

vars == <<task, catalogue>>

Absent == [content |-> Nothing, by |-> Nothing]

Init == /\ task = [t \in Tasks |-> "none"]
        /\ catalogue = [p \in Paths |-> Absent]

Create(t) == /\ task[t] = "none"
             /\ task' = [task EXCEPT ![t] = "active"]
             /\ UNCHANGED catalogue

Cancel(t) == /\ task[t] = "active"
             /\ task' = [task EXCEPT ![t] = "cancelled"]
             /\ UNCHANGED catalogue

\* The row of an expired task is removed; what it imported stays.
Expire(t) == /\ task[t] \in {"active", "completed", "cancelled"}
             /\ task' = [task EXCEPT ![t] = "deleted"]
             /\ UNCHANGED catalogue

\* The catalogue's contents, without the entries that are absent
Known == {catalogue[p].content: p \in Paths} \ {Nothing}

Import(t) ==
    /\ task[t] = "active"
    /\ task' = [task EXCEPT ![t] = "completed"]
    /\ \E new \in (SUBSET {p \in Paths: catalogue[p] = Absent}) \ {{}}:
         \E files \in [new -> Contents \ Known]:
           /\ \A p, q \in new: files[p] = files[q] => p = q
           /\ catalogue' = [p \in Paths |-> IF p \in new THEN [content |-> files[p], by |-> t]
                                                        ELSE catalogue[p]]

Next == \E t \in Tasks: Create(t) \/ Cancel(t) \/ Expire(t) \/ Import(t)

Spec == Init /\ [][Next]_vars

=============================================================================
