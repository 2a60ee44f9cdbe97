--------------------------- MODULE OwnershipTable ---------------------------
(***************************************************************************)
(* The ownership table (_fallback/ownership.py): for every task submitted  *)
(* its lineage and its status.  One lock makes each method one step.       *)
(*                                                                         *)
(* Owners, descriptions, reference counts and the locations of objects are *)
(* never read or changed after register_task, and no task ever has one of  *)
(* the statuses WAITING_FOR_DEPENDENCIES and RUNNING.                      *)
(***************************************************************************)
EXTENDS TaskFunctions, Sequences

VARIABLES submitted,   \* the keys of _tasks, and of _objects
          args,        \* the ObjectRefs in serialized_args, the dependencies
          status       \* READY, FINISHED or FAILED

tableVars == <<submitted, args, status>>

TableInit ==
    /\ submitted = {}
    /\ args = [t \in Task |-> <<>>]
    /\ status = [t \in Task |-> "READY"]

register_task(t, a) ==
    /\ submitted' = submitted \cup {t}
    /\ args' = [args EXCEPT ![t] = a]
    /\ status' = [status EXCEPT ![t] = "READY"]

\* task_finished and task_failed, which ignore a task that is not registered.
\* Mutant: they get the id of the object, the next one.
RecordObjectId(t, s) ==
    /\ status' = IF t + 1 \in submitted THEN [status EXCEPT ![t + 1] = s] ELSE status
    /\ UNCHANGED <<submitted, args>>

Record(t, s) ==
    /\ status' = IF t \in submitted THEN [status EXCEPT ![t] = s] ELSE status
    /\ UNCHANGED <<submitted, args>>

(***************************************************************************)
(* The table follows the store, where get finds the result or the error: a *)
(* status is final only after the value is there, it says the same as the  *)
(* value, and it is late only while somebody is about to record it         *)
(* (driver.py:346-357).                                                    *)
(***************************************************************************)
Follows(value, none, Recording(_)) ==
    \A t \in submitted :
        IF value[t] = none THEN status[t] = "READY"
        ELSE \/ status[t] = (IF Raised(value[t]) THEN "FAILED" ELSE "FINISHED")
             \/ status[t] = "READY" /\ Recording(t)
=============================================================================
