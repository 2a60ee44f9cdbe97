----------------------------- MODULE Scheduler -----------------------------
(***************************************************************************)
(* The task scheduler (python/nano_ray/_fallback/scheduler.py): a FIFO of  *)
(* ready tasks, the tasks that wait for arguments, and the index from an   *)
(* object to the tasks that wait for it.  Every operation is one critical  *)
(* section of _lock, or one operation of the thread-safe _ready_queue,     *)
(* which the pops and the submits without dependencies do without _lock.   *)
(* on_object_ready puts task after task: as nobody reads the queue by      *)
(* another way than get, which of them are in it when another thread puts  *)
(* or gets makes a difference to the order of unrelated tasks only.        *)
(*                                                                         *)
(* A task names an argument once per use: the list of dependencies, and so *)
(* the index, may hold duplicates.  A task spec is its task id.            *)
(***************************************************************************)
EXTENDS Naturals, Sequences, SequencesExt, FiniteSets

CONSTANTS Task, Object

VARIABLES
    pending,      \* the keys of _pending_tasks
    unresolved,   \* _pending_tasks[t]["unresolved"], {} when t is not pending
    waitingOn,    \* _object_to_waiting: the list of tasks of each object
    ready         \* _ready_queue

schedVars == <<pending, unresolved, waitingOn, ready>>

SchedInit ==
    /\ pending = {}
    /\ unresolved = [t \in Task |-> {}]
    /\ waitingOn = [o \in Object |-> <<>>]
    /\ ready = <<>>

\* submit: the list of an object gets the task once for every use.
Uses(deps, o) == {i \in DOMAIN deps : deps[i] = o}

\* Mutant: only the first dependency is indexed.
IndexedFirstOnly(t, deps) == [waitingOn EXCEPT ![deps[1]] = Append(@, t)]

Indexed(t, deps) ==
    [o \in Object |-> waitingOn[o] \o [i \in 1 .. Cardinality(Uses(deps, o)) |-> t]]

SchedSubmit(t, deps) ==
    IF deps = <<>>
    THEN /\ ready' = Append(ready, t)
         /\ UNCHANGED <<pending, unresolved, waitingOn>>
    ELSE /\ pending' = pending \cup {t}
         /\ unresolved' = [unresolved EXCEPT ![t] = ToSet(deps)]
         /\ waitingOn' = Indexed(t, deps)
         /\ UNCHANGED ready

(***************************************************************************)
(* on_object_ready: the tasks of the object's list, in the order of their  *)
(* first entry; a later entry of a released task finds it no longer        *)
(* pending, and one of a task still pending removes o from a set that no   *)
(* longer has it.                                                          *)
(***************************************************************************)
Waiters(o) == ToSet(waitingOn[o]) \cap pending

\* Mutant: the first announcement releases a task.
ReleasedByAny(o) == Waiters(o)

Released(o) == {t \in Waiters(o) : unresolved[t] \subseteq {o}}

FirstEntry(t, s) == CHOOSE i \in DOMAIN s : /\ s[i] = t
                                            /\ \A j \in DOMAIN s : s[j] = t => i <= j

InOrderOfFirstEntry(r, s) ==
    \A i, j \in DOMAIN r : i < j => FirstEntry(r[i], s) < FirstEntry(r[j], s)

OnObjectReady(o) ==
    /\ pending' = pending \ Released(o)
    /\ unresolved' = [t \in Task |->
           IF t \in Waiters(o) THEN unresolved[t] \ {o} ELSE unresolved[t]]
    /\ waitingOn' = [waitingOn EXCEPT ![o] = <<>>]
    /\ \E r \in SetToSeqs(Released(o)) :
          /\ InOrderOfFirstEntry(r, waitingOn[o])
          /\ ready' = ready \o r

\* Mutant: the task is looked at and not taken.
PopReadyPeeks == ready # <<>> /\ UNCHANGED schedVars

\* pop_ready_task(timeout=0) when it finds a task: it returns Head(ready).
PopReady ==
    /\ ready # <<>>
    /\ ready' = Tail(ready)
    /\ UNCHANGED <<pending, unresolved, waitingOn>>
=============================================================================
