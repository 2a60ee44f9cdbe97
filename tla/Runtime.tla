------------------------------ MODULE Runtime ------------------------------
(***************************************************************************)
(* The single-node runtime (python/nano_ray/driver.py): user threads that  *)
(* submit tasks, get, evict and reconstruct objects, the result collector  *)
(* thread, and the worker processes, around one object store, one          *)
(* scheduler and one ownership table.                                      *)
(*                                                                         *)
(* Two steps of a thread (its calls: CallStack) are separate where another *)
(* thread can run in between and see or change something: every access to  *)
(* the store, to the scheduler or to a queue is a step.                    *)
(*                                                                         *)
(* Simplifications.  Arguments are flat lists of ObjectRefs (what is       *)
(* inside a list or a dictionary is found in the same order: Dag).  A      *)
(* worker does not die by itself, and a queue between processes is FIFO.   *)
(* The bounds are MaxTasks, MaxArgs and MaxEvicts.                         *)
(***************************************************************************)
EXTENDS CallStack, FiniteSets

CONSTANTS User,        \* the threads that call the API
          Worker,      \* the worker processes
          Collector,   \* the result collector thread
          MaxArgs,     \* bound: the number of arguments of a task
          MaxEvicts,   \* bound: the number of evictions
          Waits,       \* the calls of wait: <<ObjectRefs, num_returns>>
          Timeouts,    \* whether get is called with a timeout
          MayShutdown, \* whether the program calls shutdown
          Nothing

ASSUME RuntimeAssumption ==
    /\ IsFiniteSet(Worker) /\ MaxArgs \in Nat /\ MaxEvicts \in Nat
    /\ Waits \subseteq Seq(Task) \X (Nat \ {0})
    /\ Timeouts \in BOOLEAN /\ MayShutdown \in BOOLEAN
    /\ Collector \notin User
    /\ Nothing \notin Task

Thread == User \cup {Collector}

VARIABLES
    store, waiting, blocked, signalling, woken,   \* object_store
    pending, unresolved, waitingOn, ready,        \* scheduler
    submitted, args, status,                      \* ownership
    refs,         \* the ObjectRefs submit_task has returned
    taskQueue,    \* _task_queue: <<task, resolved arguments>>, or Sentinel
    running,      \* what each worker executes, or Nothing
    resultQueue,  \* _result_queue: <<task, outcome>>
    isRunning,    \* _running
    isInit,       \* api._runtime is not None
    gone,         \* the worker processes that ended, the collector if it did
    produced,     \* history: the last value stored for each object
    evicts        \* the number of evictions so far

Store == INSTANCE ObjectStore WITH Object <- Task
Sched == INSTANCE Scheduler WITH Object <- Task
Table == INSTANCE OwnershipTable

osVars == <<store, waiting, blocked, signalling, woken>>
schedVars == <<pending, unresolved, waitingOn, ready>>
ipcVars == <<taskQueue, running, resultQueue>>
lifeVars == <<isRunning, isInit, gone>>
tableVars == <<submitted, args, status>>
histVars == <<produced, evicts>>
restVars == <<tableVars, refs, ipcVars, lifeVars, histVars>>
vars == <<osVars, schedVars, stack, restVars>>

Sentinel == <<Nothing, <<>>>>

Init ==
    /\ Store!OSInit
    /\ Sched!SchedInit
    /\ Table!TableInit
    /\ refs = {}
    /\ stack = [th \in Thread |-> <<>>]
    /\ taskQueue = <<>> /\ resultQueue = <<>>
    /\ running = [w \in Worker |-> Nothing]
    /\ isRunning = TRUE /\ isInit = TRUE
    /\ gone = {}
    /\ produced = [t \in Task |-> Absent]
    /\ evicts = 0
-----------------------------------------------------------------------------
\* resolve_args of task t.
\* Mutant: the id of the task is taken for that of its object, the next one.
ResolvingNextId(at, t) == Frame(at, t + 1, args[t])

Resolving(at, t) == Frame(at, t, args[t])

\* reconstruct_object: the loop over the dependencies, then resolve_args.
\* Mutant: the loop has used the arguments up.
RebuildingConsumed(t, todo) ==
    Frame(IF todo = <<>> THEN "resolveRebuild" ELSE "rebuild", t, todo)

Rebuilding(t, todo) ==
    IF todo = <<>> THEN Resolving("resolveRebuild", t) ELSE Frame("rebuild", t, todo)
-----------------------------------------------------------------------------
(***************************************************************************)
(* get_or_wait, called by a thread for object o: it is found at once, or   *)
(* the thread sleeps and finds it when it is woken.  A woken thread that   *)
(* does not find it raises KeyError, out of every call in progress: that   *)
(* ends the collector thread.                                              *)
(***************************************************************************)
Got(th, o) ==
    /\ Store!contains(o)
    /\ \/ blocked[th] = Nothing /\ UNCHANGED osVars
       \/ Store!EndWait(th)

Awaited(th) ==
    CASE Top(th).at \in {"resolveFlush", "resolveRebuild"} /\ Top(th).todo # <<>>
            -> NextArg(th)
      [] Top(th).at \in {"awaitRebuilt", "read"} -> Top(th).task
      [] OTHER -> Nothing

Block(th) ==
    /\ stack[th] # <<>>
    /\ Awaited(th) # Nothing
    /\ blocked[th] = Nothing
    /\ Store!StartWait(th, Awaited(th))
    /\ UNCHANGED <<schedVars, stack, restVars>>

RaiseKeyError(th) ==
    /\ Store!EndWait(th)
    /\ ~ Store!contains(blocked[th])
    /\ stack' = [stack EXCEPT ![th] = <<>>]
    /\ gone' = gone \cup ({th} \cap {Collector})
    /\ UNCHANGED <<schedVars, tableVars, refs, ipcVars, isRunning, isInit, histVars>>

\* resolve_args replaces the next ObjectRef by its value.
ResolveArg(th) ==
    /\ At(th, "resolveFlush") \/ At(th, "resolveRebuild")
    /\ Top(th).todo # <<>>
    /\ Got(th, NextArg(th))
    /\ Goto(th, Resolved(Top(th), store[NextArg(th)]))
    /\ UNCHANGED <<schedVars, restVars>>

\* The task goes to the workers.  A flush goes on, a rebuild waits for the result.
SendTask(th) ==
    /\ At(th, "resolveFlush") \/ At(th, "resolveRebuild")
    /\ Top(th).todo = <<>>
    /\ taskQueue' = Append(taskQueue, <<Top(th).task, Top(th).vals>>)
    /\ IF At(th, "resolveFlush")
       THEN Return(th)
       ELSE Goto(th, Frame("awaitRebuilt", Top(th).task, <<>>))
    /\ UNCHANGED <<osVars, schedVars, tableVars, refs, running, resultQueue, lifeVars, histVars>>
-----------------------------------------------------------------------------
(***************************************************************************)
(* submit_task.  Ids, registration and scheduler.submit are one step: no   *)
(* other thread has a reference to the task before.                        *)
(***************************************************************************)
SubmitTask(u, a) ==
    LET t == Cardinality(submitted) + 1 IN
    /\ isInit
    /\ t \in Task
    /\ Table!register_task(t, a)
    /\ Sched!SchedSubmit(t, a)
    /\ Enter(u, <<Submitting(t, a)>>)
    /\ UNCHANGED <<osVars, refs, ipcVars, lifeVars, histVars>>

\* Mutant: every dependency is announced, available or not.
RecheckAlways(th) ==
    /\ At(th, "recheck")
    /\ Goto(th, [Top(th) EXCEPT !.at = "announce"])
    /\ UNCHANGED <<osVars, schedVars, restVars>>

\* `if self.object_store.contains(did)`; the announcement is the next step.
Recheck(th) ==
    /\ At(th, "recheck")
    /\ Goto(th, IF Store!contains(NextArg(th))
                THEN [Top(th) EXCEPT !.at = "announce"]
                ELSE Submitting(Top(th).task, Tail(Top(th).todo)))
    /\ UNCHANGED <<osVars, schedVars, restVars>>

\* scheduler.on_object_ready.
Announce(th) ==
    /\ At(th, "announce")
    /\ Sched!OnObjectReady(NextArg(th))
    /\ Goto(th, Submitting(Top(th).task, Tail(Top(th).todo)))
    /\ UNCHANGED <<osVars, restVars>>

\* _flush_ready_tasks: the next ready task, whoever submitted it.
FlushNext(th) ==
    /\ At(th, "flush")
    /\ Sched!PopReady
    /\ stack' = [stack EXCEPT ![th] = <<Resolving("resolveFlush", Head(ready))>> \o @]
    /\ UNCHANGED <<osVars, restVars>>

\* The ready queue is empty: submit_task returns the ObjectRef, or the
\* collector goes back to its queue.
FlushDone(th) ==
    /\ At(th, "flush")
    /\ ready = <<>>
    /\ refs' = IF th \in User THEN refs \cup {Top(th).task} ELSE refs
    /\ Return(th)
    /\ UNCHANGED <<osVars, schedVars, tableVars, ipcVars, lifeVars, histVars>>
-----------------------------------------------------------------------------
(***************************************************************************)
(* get_object and reconstruct_object.  get_object looks for the object,    *)
(* and if it is missing calls reconstruct_object, which looks again: one   *)
(* look, as a result that arrives in between ends both.  Every ObjectRef   *)
(* has a producer and a lineage.  api.reconstruct is a rebuild, then get.  *)
(***************************************************************************)
Getting(o) ==
    IF Store!contains(o) THEN <<Frame("read", o, <<>>)>>
                         ELSE <<Rebuilding(o, args[o]), Frame("read", o, <<>>)>>

GetObject(u, o) ==
    /\ isInit
    /\ Enter(u, Getting(o))
    /\ UNCHANGED <<osVars, schedVars, restVars>>

GetRebuilt(u) ==
    /\ At(u, "get")
    /\ stack' = [stack EXCEPT ![u] = Getting(Top(u).task)]
    /\ UNCHANGED <<osVars, schedVars, restVars>>

Reconstruct(u, o) ==
    /\ isInit
    /\ ~ Store!contains(o)
    /\ Enter(u, <<Rebuilding(o, args[o]), Frame("get", o, <<>>)>>)
    /\ UNCHANGED <<osVars, schedVars, restVars>>

\* `if not self.object_store.contains(dep_id): self.reconstruct_object(dep_id)`
\* Mutant: the dependencies are taken to be there.
RebuildDepNever(u) ==
    /\ At(u, "rebuild")
    /\ Goto(u, Rebuilding(Top(u).task, Tail(Top(u).todo)))
    /\ UNCHANGED <<osVars, schedVars, restVars>>

RebuildDep(u) ==
    /\ At(u, "rebuild")
    /\ LET d == NextArg(u)  rest == Rebuilding(Top(u).task, Tail(Top(u).todo)) IN
       IF Store!contains(d) THEN Goto(u, rest)
                            ELSE Call(u, Rebuilding(d, args[d]), rest)
    /\ UNCHANGED <<osVars, schedVars, restVars>>

\* A rebuild has its object, or get has its value.
EndCall(u) ==
    /\ At(u, "awaitRebuilt") \/ At(u, "read")
    /\ Got(u, Top(u).task)
    /\ Return(u)
    /\ UNCHANGED <<schedVars, restVars>>

\* Only the last wait of get_object has the timeout of the caller.
TimeoutRead(u) ==
    /\ Timeouts
    /\ At(u, "read")
    /\ Store!TimeoutWait(u)
    /\ Return(u)
    /\ UNCHANGED <<schedVars, restVars>>

-----------------------------------------------------------------------------
(***************************************************************************)
(* api.wait looks for every ObjectRef in list s that it has not found yet, *)
(* round after round, until it has found k or the deadline has passed,     *)
(* which without a timeout never happens.  It reconstructs nothing.        *)
(***************************************************************************)
Wait(u, s, k) ==
    /\ isInit
    /\ Enter(u, <<[at |-> "wait", of |-> s, num_returns |-> k, expired |-> FALSE,
                   todo |-> s, ready |-> <<>>, remaining |-> <<>>]>>)
    /\ UNCHANGED <<osVars, schedVars, restVars>>

Looked(f) ==
    IF f.todo = <<>> THEN f
    ELSE IF Store!contains(Head(f.todo))
         THEN [f EXCEPT !.todo = Tail(@), !.ready = Append(@, Head(f.todo))]
         ELSE [f EXCEPT !.todo = Tail(@), !.remaining = Append(@, Head(f.todo))]

\* Mutant: the next round looks at every ObjectRef again.
NextRoundAll(f) == [f EXCEPT !.todo = f.of, !.remaining = <<>>]

NextRound(f) == [f EXCEPT !.todo = f.remaining, !.remaining = <<>>]

Enough(f) == Len(f.ready) >= f.num_returns \/ f.expired

\* `if _runtime.object_store.contains(ref.object_id)`, and the end of the round
\* after the last one.
WaitLook(u) ==
    /\ At(u, "wait")
    /\ LET f == Looked(Top(u)) IN
       CASE f.todo # <<>> -> Goto(u, f)
         [] f.todo = <<>> /\ Enough(f) -> Return(u)
         [] OTHER -> Goto(u, NextRound(f))
    /\ UNCHANGED <<osVars, schedVars, restVars>>

DeadlinePasses(u) ==
    /\ At(u, "wait")
    /\ Goto(u, [Top(u) EXCEPT !.expired = TRUE])
    /\ UNCHANGED <<osVars, schedVars, restVars>>
-----------------------------------------------------------------------------
EvictObject(u, o) ==
    /\ isInit
    /\ stack[u] = <<>>
    /\ evicts < MaxEvicts
    /\ evicts' = evicts + 1
    /\ Store!Delete(o)
    /\ UNCHANGED <<schedVars, tableVars, refs, stack, ipcVars, lifeVars, produced>>
-----------------------------------------------------------------------------
(***************************************************************************)
(* _worker_loop, in the worker processes.                                  *)
(***************************************************************************)
TakeTask(w) ==
    /\ w \notin gone
    /\ running[w] = Nothing
    /\ taskQueue # <<>>
    /\ taskQueue' = Tail(taskQueue)
    /\ IF Head(taskQueue) = Sentinel
       THEN gone' = gone \cup {w} /\ UNCHANGED running
       ELSE running' = [running EXCEPT ![w] = Head(taskQueue)] /\ UNCHANGED gone
    /\ UNCHANGED <<osVars, schedVars, tableVars, refs, stack, resultQueue, isRunning, isInit, histVars>>

ReportResult(w) ==
    /\ w \notin gone
    /\ running[w] # Nothing
    /\ LET t == running[w][1]  vals == running[w][2] IN
       resultQueue' = Append(resultQueue, <<t, Outcome(t, vals)>>)
    /\ running' = [running EXCEPT ![w] = Nothing]
    /\ UNCHANGED <<osVars, schedVars, tableVars, refs, stack, taskQueue, lifeVars, histVars>>

(***************************************************************************)
(* _collect_results.  A result is stored, its waiters are woken, the       *)
(* status is recorded, and, if the task did not raise, the object is       *)
(* announced and the ready tasks are flushed.                              *)
(***************************************************************************)
CollectResult ==
    /\ Collector \notin gone
    /\ Store!PutDone(Collector)
    /\ resultQueue # <<>>
    /\ resultQueue' = Tail(resultQueue)
    /\ LET t == Head(resultQueue)[1]  v == Head(resultQueue)[2] IN
       /\ Store!PutStore(Collector, t, v)
       /\ produced' = [produced EXCEPT ![t] = v]
       /\ Enter(Collector, AfterPut(t, v))
    /\ UNCHANGED <<schedVars, tableVars, refs, taskQueue, running, lifeVars, evicts>>

\* The event of the put is set: ownership.task_finished and on_object_ready.
\* Nobody reads a status, so the two are one step.
Finished(th) ==
    /\ At(th, "finished")
    /\ Store!PutDone(th)
    /\ Table!Record(Top(th).task, "FINISHED")
    /\ Sched!OnObjectReady(Top(th).task)
    /\ Goto(th, Frame("flush", Top(th).task, <<>>))
    /\ UNCHANGED <<osVars, refs, ipcVars, lifeVars, histVars>>

\* ownership.task_failed; nothing is announced.
Failed(th) ==
    /\ At(th, "failed")
    /\ Store!PutDone(th)
    /\ Table!Record(Top(th).task, "FAILED")
    /\ Return(th)
    /\ UNCHANGED <<osVars, schedVars, refs, ipcVars, lifeVars, histVars>>

SetEvent ==
    /\ Store!PutSignal(Collector)
    /\ UNCHANGED <<schedVars, stack, restVars>>

\* `while self._running or not self._result_queue.empty()`
CollectorExit ==
    /\ ~ isRunning
    /\ Collector \notin gone
    /\ stack[Collector] = <<>> /\ Store!PutDone(Collector)
    /\ resultQueue = <<>>
    /\ gone' = gone \cup {Collector}
    /\ UNCHANGED <<osVars, schedVars, tableVars, refs, stack, ipcVars, isRunning, isInit, histVars>>
-----------------------------------------------------------------------------
(***************************************************************************)
(* shutdown: a sentinel for every worker; join each worker for a while and *)
(* terminate it if it is still alive; join the collector for a while.      *)
(***************************************************************************)
Shutdown(u) ==
    /\ MayShutdown /\ isInit /\ isRunning
    /\ isRunning' = FALSE
    /\ taskQueue' = taskQueue \o [i \in 1 .. Cardinality(Worker) |-> Sentinel]
    /\ Enter(u, <<Frame("join", Nothing, <<>>)>>)
    /\ UNCHANGED <<osVars, schedVars, tableVars, refs, running, resultQueue, isInit, gone, histVars>>

Terminate(u, w) ==
    /\ At(u, "join")
    /\ w \notin gone
    /\ gone' = gone \cup {w}
    /\ running' = [running EXCEPT ![w] = Nothing]
    /\ UNCHANGED <<osVars, schedVars, tableVars, refs, stack, taskQueue, resultQueue, isRunning, isInit, histVars>>

\* The join of the collector may time out.
ShutdownReturn(u) ==
    /\ At(u, "join")
    /\ Worker \subseteq gone
    /\ isInit' = FALSE
    /\ Return(u)
    /\ UNCHANGED <<osVars, schedVars, tableVars, refs, ipcVars, isRunning, gone, histVars>>
-----------------------------------------------------------------------------
\* A step of a call in progress, of a user thread or of the collector.
Advance(th) ==
    \/ Block(th) \/ RaiseKeyError(th) \/ ResolveArg(th) \/ SendTask(th)
    \/ Recheck(th) \/ Announce(th) \/ FlushNext(th) \/ FlushDone(th)
    \/ GetRebuilt(th) \/ RebuildDep(th) \/ EndCall(th) \/ Finished(th) \/ Failed(th)
    \/ WaitLook(th)

\* The calls a user thread may make when it is in none.
UserCall(u) ==
    \/ \E a \in SeqOf(refs, MaxArgs) : SubmitTask(u, a)
    \/ \E o \in refs : GetObject(u, o) \/ Reconstruct(u, o) \/ EvictObject(u, o)
    \/ \E w \in Waits : ToSet(w[1]) \subseteq refs /\ Wait(u, w[1], w[2])
    \/ Shutdown(u)

Collect == CollectResult \/ SetEvent \/ CollectorExit

Next ==
    \/ \E th \in Thread : Advance(th)
    \/ \E u \in User : \/ UserCall(u) \/ TimeoutRead(u) \/ DeadlinePasses(u) \/ ShutdownReturn(u)
                       \/ \E w \in Worker : Terminate(u, w)
    \/ \E w \in Worker : TakeTask(w) \/ ReportResult(w)
    \/ Collect

(***************************************************************************)
(* The threads and the processes are scheduled by the operating system, a  *)
(* timeout expires, and a function returns; nobody has to call anything.   *)
(***************************************************************************)
Fairness ==
    /\ \A th \in Thread : WF_vars(Advance(th))
    /\ \A u \in User : WF_vars(TimeoutRead(u)) /\ WF_vars(ShutdownReturn(u))
                        /\ \A w \in Worker : WF_vars(Terminate(u, w))
    /\ \A w \in Worker : WF_vars(TakeTask(w) \/ ReportResult(w))
    /\ WF_vars(Collect)

Spec == Init /\ [][Next]_vars /\ Fairness
-----------------------------------------------------------------------------
Label == {"recheck", "announce", "flush", "resolveFlush", "get", "rebuild",
          "resolveRebuild", "awaitRebuilt", "read", "join", "wait",
          "finished", "failed"}

IsFrame(f) ==
    /\ f.at \in Label
    /\ f.at \notin {"join", "wait"} => f.task \in submitted
    /\ ToSet(f.todo) \subseteq submitted

TypeOK ==
    /\ submitted \subseteq Task /\ refs \subseteq submitted
    /\ args \in [Task -> SeqOf(submitted, MaxArgs)]
    /\ \A th \in Thread : \A i \in DOMAIN stack[th] : IsFrame(stack[th][i])
    /\ blocked \in [Thread -> submitted \cup {Nothing}]
    /\ pending \cup ToSet(ready) \subseteq submitted
    /\ gone \subseteq Worker \cup {Collector}
    /\ evicts \in 0 .. MaxEvicts

(***************************************************************************)
(* Every ObjectRef is a future: a task runs on the values its ObjectRefs   *)
(* have, and however often it runs, for a rebuild or because a get did not *)
(* wait for the first run, its object always gets the same value.          *)
(***************************************************************************)
Fut == INSTANCE Futures WITH
          created <- submitted, inputs <- args, value <- produced, Unresolved <- Absent

FuturesSafety == Fut!FutSafety

\* Without evictions (a task whose argument was evicted before it is submitted
\* stays pending until somebody gets its result), unless the runtime is shut down.
FuturesLive == <>(evicts > 0 \/ ~ isRunning) \/ Fut!FutLive

(***************************************************************************)
(* "By the time a task reaches the ready queue, all its dependencies are   *)
(* guaranteed to be in the ObjectStore, so get_or_wait returns             *)
(* immediately" (driver.py:311-313), when nothing is evicted.              *)
(***************************************************************************)
ReadyArgsInStore == evicts = 0 =>
    /\ \A t \in ToSet(ready) : \A d \in ToSet(args[t]) : Store!contains(d)
    /\ \A th \in Thread : At(th, "resolveFlush") =>
           \A d \in ToSet(Top(th).todo) : Store!contains(d)

(***************************************************************************)
(* No trigger is missed between the submit of a task and the result of a   *)
(* dependency: when a pending task still lacks an object that is in the    *)
(* store, some thread is about to announce it, either the collector that   *)
(* stored it or the thread that submits the task (driver.py:211-220).      *)
(***************************************************************************)
TriggerPending(t, o) == \E th \in Thread : WillAnnounce(th, t, o)

NoMissedTrigger ==
    \A t \in pending, o \in Task \ Fails :
        o \in unresolved[t] /\ Store!contains(o) => TriggerPending(t, o)

(***************************************************************************)
(* The table agrees with the values of the tasks.                          *)
(***************************************************************************)
StatusFollowsValue == Table!Follows(produced, Absent, LAMBDA t : Records(Collector, t))

(***************************************************************************)
(* wait neither loses nor repeats an ObjectRef, although the objects       *)
(* appear while it looks: what it has found, what it has not and what it   *)
(* still has to look at are together what it was given, and what it calls  *)
(* ready has been computed (api.py:240-258).                               *)
(***************************************************************************)
WaitCountsOnce ==
    \A u \in User : At(u, "wait") =>
        LET f == Top(u)
            Count(s, o) == Cardinality({i \in DOMAIN s : s[i] = o})
        IN  \A o \in Task :
                /\ Count(f.of, o) = Count(f.ready \o f.remaining \o f.todo, o)
                /\ o \in ToSet(f.ready) => produced[o] # Absent

(***************************************************************************)
(* What the comments and docstrings claim without the restrictions above.  *)
(***************************************************************************)
\* "Wait for collector to drain remaining results" (driver.py:150).
CollectorDrains ==
    Worker \cup {Collector} \subseteq gone => resultQueue = <<>>
=============================================================================
