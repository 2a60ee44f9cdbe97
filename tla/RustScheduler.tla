--------------------------- MODULE RustScheduler ---------------------------
(***************************************************************************)
(* The Rust scheduler (rust/nano_ray_core/src/scheduler.rs): the callers   *)
(* of the Python one, with operations and a state of its own.  It has no   *)
(* lock across its containers: every access to pending_tasks, to           *)
(* object_to_waiting or to ready_queue is a step of a call, and steps of   *)
(* two calls interleave.  (A Python thread that calls it holds the GIL,    *)
(* which rules most of these interleavings out; what is shown here does    *)
(* not need it.)                                                           *)
(***************************************************************************)
EXTENDS SchedulerCallers

CONSTANTS RustTask, \* the tasks submitted to it
          Caller,   \* the threads that submit tasks and announce objects
          Nothing

VARIABLES
    pending_tasks,       \* the tasks waiting for objects
    rustUnresolved,      \* the objects the entry of each still lists
    object_to_waiting,   \* reverse index: tasks waiting for each object
    ready_queue,         \* tasks ready to run, first in first out
    call,                \* the call each caller is in, and how far
    rustSubmitted,       \* history: the tasks submitted so far,
    rustDeps,            \* the list each was submitted with,
    rustAnnounced,       \* the objects announced since its submit returned,
    heard,               \* the objects announced since its submit began,
    rustHanded           \* and the tasks popped

containers == <<pending_tasks, rustUnresolved, object_to_waiting, ready_queue>>
history == <<rustSubmitted, rustDeps, rustAnnounced, heard, rustHanded>>
rustVars == <<containers, call, history>>

\* In a call: the task submitted or the object announced, and what is left of
\* its list of dependencies or of waiting tasks.
InCall(at, arg, todo) == [at |-> at, arg |-> arg, todo |-> todo]
NoCall == InCall("none", Nothing, <<>>)
Loop(at, arg, todo) == IF todo = <<>> THEN NoCall ELSE InCall(at, arg, todo)

At(c, label) == call[c].at = label
Goto(c, next) == call' = [call EXCEPT ![c] = next]
Arg(c) == call[c].arg
Next1(c) == Head(call[c].todo)
Rest(c) == Tail(call[c].todo)
Now(c, label) == InCall(label, Arg(c), call[c].todo)

Submitting(t) == \E c \in Caller : At(c, "index") /\ Arg(c) = t

RustInit ==
    /\ pending_tasks = {} /\ ready_queue = <<>>
    /\ rustUnresolved = [t \in RustTask |-> {}]
    /\ object_to_waiting = [o \in Object |-> <<>>]
    /\ call = [c \in Caller |-> NoCall]
    /\ rustSubmitted = {} /\ rustHanded = {}
    /\ rustDeps = [t \in RustTask |-> <<>>]
    /\ rustAnnounced = [t \in RustTask |-> {}]
    /\ heard = [t \in RustTask |-> {}]
-----------------------------------------------------------------------------
(***************************************************************************)
(* submit: a task without dependencies is ready; another is inserted with  *)
(* what it lacks, and then indexed under one dependency after the other.   *)
(***************************************************************************)
RustSubmit(c, t, d) ==
    /\ At(c, "none") /\ t \notin rustSubmitted
    /\ IF d = <<>>
       THEN /\ ready_queue' = Append(ready_queue, t)
            /\ UNCHANGED <<pending_tasks, rustUnresolved>>
       ELSE /\ pending_tasks' = pending_tasks \cup {t}
            /\ rustUnresolved' = [rustUnresolved EXCEPT ![t] = ToSet(d)]
            /\ UNCHANGED ready_queue
    /\ Goto(c, Loop("index", t, d))
    /\ rustSubmitted' = rustSubmitted \cup {t}
    /\ rustDeps' = [rustDeps EXCEPT ![t] = d]
    /\ UNCHANGED <<object_to_waiting, rustAnnounced, heard, rustHanded>>

\* Mutant: only the first dependency is indexed.
IndexFirst(c) ==
    /\ At(c, "index")
    /\ object_to_waiting' = [object_to_waiting EXCEPT ![Next1(c)] = Append(@, Arg(c))]
    /\ Goto(c, NoCall)
    /\ UNCHANGED <<pending_tasks, rustUnresolved, ready_queue, history>>

Index(c) ==
    /\ At(c, "index")
    /\ object_to_waiting' = [object_to_waiting EXCEPT ![Next1(c)] = Append(@, Arg(c))]
    /\ Goto(c, Loop("index", Arg(c), Rest(c)))
    /\ UNCHANGED <<pending_tasks, rustUnresolved, ready_queue, history>>

(***************************************************************************)
(* on_object_ready: the list is removed, then each of its tasks is looked  *)
(* at, under the lock of its entry, and removed and queued when it lacks   *)
(* nothing any more.                                                       *)
(***************************************************************************)
RustAnnounce(c, o) ==
    /\ At(c, "none")
    /\ object_to_waiting' = [object_to_waiting EXCEPT ![o] = <<>>]
    /\ Goto(c, Loop("look", o, object_to_waiting[o]))
    /\ heard' = [t \in RustTask |->
           IF t \in rustSubmitted THEN heard[t] \cup {o} ELSE heard[t]]
    /\ rustAnnounced' = [t \in RustTask |->
           IF t \in rustSubmitted /\ ~ Submitting(t)
           THEN rustAnnounced[t] \cup {o} ELSE rustAnnounced[t]]
    /\ UNCHANGED <<pending_tasks, rustUnresolved, ready_queue>>
    /\ UNCHANGED <<rustSubmitted, rustDeps, rustHanded>>

Look(c) ==
    LET t == Next1(c)  lacks == rustUnresolved[t] \ {Arg(c)} IN
    /\ At(c, "look")
    /\ rustUnresolved' = [rustUnresolved EXCEPT ![t] = lacks]
    /\ Goto(c, IF t \in pending_tasks /\ lacks = {}
               THEN Now(c, "take") ELSE Loop("look", Arg(c), Rest(c)))
    /\ UNCHANGED <<pending_tasks, object_to_waiting, ready_queue, history>>

\* Mutant: the task is queued whether or not it was still there.
TakeAnyway(c) ==
    /\ At(c, "take")
    /\ pending_tasks' = pending_tasks \ {Next1(c)}
    /\ Goto(c, Now(c, "push"))
    /\ UNCHANGED <<rustUnresolved, object_to_waiting, ready_queue, history>>

\* pending_tasks.remove gives the task to one of the threads that saw it lack
\* nothing.
Take(c) ==
    /\ At(c, "take")
    /\ pending_tasks' = pending_tasks \ {Next1(c)}
    /\ Goto(c, IF Next1(c) \in pending_tasks THEN Now(c, "push")
                                             ELSE Loop("look", Arg(c), Rest(c)))
    /\ UNCHANGED <<rustUnresolved, object_to_waiting, ready_queue, history>>

Push(c) ==
    /\ At(c, "push")
    /\ ready_queue' = Append(ready_queue, Next1(c))
    /\ Goto(c, Loop("look", Arg(c), Rest(c)))
    /\ UNCHANGED <<pending_tasks, rustUnresolved, object_to_waiting, history>>

\* pop_ready_task when it finds a task.
RustPop ==
    /\ ready_queue # <<>>
    /\ ready_queue' = Tail(ready_queue)
    /\ rustHanded' = rustHanded \cup {Head(ready_queue)}
    /\ UNCHANGED <<pending_tasks, rustUnresolved, object_to_waiting, call>>
    /\ UNCHANGED <<rustSubmitted, rustDeps, rustAnnounced, heard>>
-----------------------------------------------------------------------------
Continue(c) == Index(c) \/ Look(c) \/ Take(c) \/ Push(c)

RustNext ==
    \/ \E c \in Caller : \/ \E t \in RustTask, d \in Deps : RustSubmit(c, t, d)
                         \/ \E o \in Object : RustAnnounce(c, o)
                         \/ Continue(c)
    \/ RustPop

RustSpec == RustInit /\ [][RustNext]_rustVars
-----------------------------------------------------------------------------
(***************************************************************************)
(* No task is lost and none is queued twice, although an object's list may *)
(* name it twice and two announcements may both find that it lacks         *)
(* nothing: it is pending, in the hands of one announcer, in the ready     *)
(* queue once, or popped.                                                  *)
(***************************************************************************)
Pushers == {c \in Caller : At(c, "push")}
InHand == {Next1(c) : c \in Pushers}

RustOnePlace ==
    /\ pending_tasks \cup InHand \cup ToSet(ready_queue) \cup rustHanded = rustSubmitted
    /\ pending_tasks \cap (InHand \cup ToSet(ready_queue) \cup rustHanded) = {}
    /\ InHand \cap (ToSet(ready_queue) \cup rustHanded) = {}
    /\ ToSet(ready_queue) \cap rustHanded = {}
    /\ \A b, c \in Pushers : Next1(b) = Next1(c) => b = c
    /\ IsInjective(ready_queue)

(***************************************************************************)
(* "Dependencies resolved -> task moves to ready queue" (scheduler.rs:7),  *)
(* for announcements that may be in progress while the task is submitted:  *)
(* it is not released before each dependency was announced after its       *)
(* submit began, and it is not kept once each was announced after its      *)
(* submit returned and these announcements returned too.                   *)
(***************************************************************************)
BeingTold(t, o) ==
    \E c \in Caller : /\ call[c].at \in {"look", "take", "push"}
                      /\ Arg(c) = o /\ t \in ToSet(call[c].todo)

RustReleasedOnTime ==
    \A t \in rustSubmitted :
        /\ t \notin pending_tasks => ToSet(rustDeps[t]) \subseteq heard[t]
        /\ t \in pending_tasks => \/ Submitting(t) \/ \E o \in Object : BeingTold(t, o)
                                  \/ ~ ToSet(rustDeps[t]) \subseteq rustAnnounced[t]
=============================================================================
