-------------------------- MODULE SchedulerCallers --------------------------
(***************************************************************************)
(* The scheduler under any sequence of calls: tasks are submitted with any *)
(* dependencies, objects are announced in any order, more than once (the   *)
(* result collector and every submit_task announce), before or after the   *)
(* tasks that wait for them are submitted, and ready tasks are popped.     *)
(* The driver and the head node are two such callers.                      *)
(***************************************************************************)
EXTENDS Scheduler

CONSTANT Deps   \* the lists of dependencies a task may be submitted with

ASSUME SchedulerAssumption == IsFiniteSet(Task) /\ Deps \subseteq Seq(Object)

VARIABLES
    submitted,   \* the tasks submitted so far
    deps,        \* the list each was submitted with
    announced,   \* the objects announced since a task was submitted
    handed       \* the tasks popped from the ready queue

vars == <<schedVars, submitted, deps, announced, handed>>

Init ==
    /\ SchedInit
    /\ submitted = {}
    /\ deps = [t \in Task |-> <<>>]
    /\ announced = [t \in Task |-> {}]
    /\ handed = {}

Submit(t, d) ==
    /\ t \notin submitted
    /\ SchedSubmit(t, d)
    /\ submitted' = submitted \cup {t}
    /\ deps' = [deps EXCEPT ![t] = d]
    /\ UNCHANGED <<announced, handed>>

Announce(o) ==
    /\ OnObjectReady(o)
    /\ announced' = [t \in Task |->
           IF t \in submitted THEN announced[t] \cup {o} ELSE announced[t]]
    /\ UNCHANGED <<submitted, deps, handed>>

Pop ==
    /\ PopReady
    /\ handed' = handed \cup {Head(ready)}
    /\ UNCHANGED <<submitted, deps, announced>>

Next ==
    \/ \E t \in Task, d \in Deps : Submit(t, d)
    \/ \E o \in Object : Announce(o)
    \/ Pop

Spec == Init /\ [][Next]_vars /\ WF_vars(Pop)
-----------------------------------------------------------------------------
TypeOK ==
    /\ pending \subseteq Task
    /\ unresolved \in [Task -> SUBSET Object]
    /\ waitingOn \in [Object -> Seq(Task)]
    /\ ready \in Seq(Task)
    /\ submitted \subseteq Task
    /\ deps \in [Task -> Seq(Object)]
    /\ announced \in [Task -> SUBSET Object]
    /\ handed \subseteq Task

(***************************************************************************)
(* A task is never lost and never queued twice, although an object's list  *)
(* may name it twice and an object may be announced twice: a submitted     *)
(* task is in exactly one of _pending_tasks, the ready queue (once) and    *)
(* the hands of whoever popped it.                                         *)
(***************************************************************************)
OnePlace ==
    /\ ToSet(ready) \cup pending \cup handed = submitted
    /\ ToSet(ready) \cap (pending \cup handed) = {}
    /\ pending \cap handed = {}
    /\ IsInjective(ready)

(***************************************************************************)
(* "Dependencies resolved -> task moves to ready queue" (scheduler.rs:7):  *)
(* a task is pending exactly as long as one of its dependencies has not    *)
(* been announced since it was submitted, so it is neither released early  *)
(* nor kept once its last dependency is announced.                         *)
(***************************************************************************)
Missing(t) == ToSet(deps[t]) \ announced[t]

PendingIffMissing == \A t \in submitted : t \in pending <=> Missing(t) # {}

(***************************************************************************)
(* The reverse index is complete: the announcement a pending task still    *)
(* lacks finds it.                                                         *)
(***************************************************************************)
IndexComplete ==
    \A t \in pending : /\ unresolved[t] = Missing(t)
                       /\ \A o \in unresolved[t] : t \in ToSet(waitingOn[o])

(***************************************************************************)
(* Somebody who keeps popping has in the end got every task whose          *)
(* dependencies were all announced.                                        *)
(***************************************************************************)
CompleteTasksAreHanded ==
    <>[](\A t \in submitted : Missing(t) = {} => t \in handed)
=============================================================================
