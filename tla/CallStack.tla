----------------------------- MODULE CallStack -----------------------------
(***************************************************************************)
(* The calls in progress of the threads of a nano-ray process, and the     *)
(* parts of them that the single-node runtime (driver.py) and the head     *)
(* node (head.py) have in common.                                          *)
(*                                                                         *)
(* A thread is a stack of frames, the innermost call first.  In a frame,   *)
(* "at" is where the call is, "task" the task or object it is about,       *)
(* "todo" what is left of a loop over its ObjectRefs, and "vals" the       *)
(* values resolved so far.                                                 *)
(***************************************************************************)
EXTENDS TaskFunctions, Sequences, SequencesExt

VARIABLE stack

Frame(at, t, todo) == [at |-> at, task |-> t, todo |-> todo, vals |-> <<>>]

Top(th) == stack[th][1]
At(th, label) == stack[th] # <<>> /\ Top(th).at = label

Goto(th, frame) == stack' = [stack EXCEPT ![th] = <<frame>> \o Tail(@)]
Call(th, frame, after) == stack' = [stack EXCEPT ![th] = <<frame, after>> \o Tail(@)]
Return(th) == stack' = [stack EXCEPT ![th] = Tail(@)]
Enter(th, frames) == stack[th] = <<>> /\ stack' = [stack EXCEPT ![th] = frames]

NextArg(th) == Head(Top(th).todo)
-----------------------------------------------------------------------------
\* resolve_args replaces the next ObjectRef of frame f by its value.
\* Mutant: the values end up in the opposite order.
ResolvedPrepends(f, v) == [f EXCEPT !.todo = Tail(@), !.vals = <<v>> \o @]

Resolved(f, v) == [f EXCEPT !.todo = Tail(@), !.vals = Append(@, v)]

\* submit_task: the loop that re-triggers the dependencies already available,
\* and _flush_ready_tasks after it.
\* Mutant: dependencies already available are not re-triggered.
SubmittingNoRecheck(t, todo) == Frame("flush", t, todo)

Submitting(t, todo) == Frame(IF todo = <<>> THEN "flush" ELSE "recheck", t, todo)

\* What follows the put of a result: unless the task raised, its object is
\* announced and the ready tasks are flushed.
\* Mutant: nothing is announced.
AfterPutSilent(t, v) == <<Frame("failed", t, <<>>)>>

AfterPut(t, v) ==
    <<IF Raised(v) THEN Frame("failed", t, <<>>) ELSE Frame("finished", t, <<t>>)>>

Records(th, t) == (At(th, "finished") \/ At(th, "failed")) /\ Top(th).task = t

\* Thread th is about to announce object o to task t: as the thread that
\* submits t, or as the one that stored o.
WillAnnounce(th, t, o) ==
    \E i \in DOMAIN stack[th] :
        LET f == stack[th][i] IN
        /\ f.at \in {"recheck", "finished", "announce"}
        /\ o \in ToSet(f.todo)
        /\ f.task \in {t, o}
=============================================================================
