--------------------------- MODULE TaskFunctions ---------------------------
(***************************************************************************)
(* The functions users submit, as far as the runtime can tell: a function  *)
(* is deterministic, and it returns or it raises.  Its outcome records the *)
(* call it comes from, so that a value computed from the wrong arguments   *)
(* differs from the right one.                                             *)
(***************************************************************************)
EXTENDS Naturals

CONSTANTS MaxTasks,  \* bound: the number of tasks ever submitted
          Fails      \* the tasks whose function raises

ASSUME TaskAssumption == MaxTasks \in Nat /\ Fails \subseteq 1 .. MaxTasks

\* A task and the object it produces have ids of their own in the code; here
\* the n-th task and its result are both n.
Task == 1 .. MaxTasks

\* What worker_loop puts in the store: the result, or for a function that
\* raised a _TaskError, which knows its task.
Outcome(t, vals) ==
    IF t \in Fails THEN [error |-> t] ELSE [result |-> t, from |-> vals]

Raised(v) == "error" \in DOMAIN v

\* Where there is no value yet, or no longer: no function returns it.
Absent == [absent |-> TRUE]
=============================================================================
