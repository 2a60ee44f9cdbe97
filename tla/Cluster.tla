------------------------------ MODULE Cluster ------------------------------
(***************************************************************************)
(* The cluster: a head node (head.py) that keeps the object store and the  *)
(* scheduler, worker nodes (node.py) that poll it for tasks and report     *)
(* their results, and client programs (remote_runtime.py).  The head may   *)
(* have worker processes of its own.                                       *)
(*                                                                         *)
(* A client or node has one TCP connection to the head, which serves it    *)
(* with a handler thread.  Its own threads take turns on the connection:   *)
(* _conn_lock is held from the request until the reply.                    *)
(*                                                                         *)
(* Simplifications.  A message arrives whole and in order (transport.py    *)
(* over TCP), and a client or node is connected from the start.  Arguments *)
(* are flat lists of ObjectRefs.  Connecting, the dashboard and the end of *)
(* the head: HeadService.  The bounds are MaxTasks, MaxArgs and MaxStops.  *)
(***************************************************************************)
EXTENDS CallStack, FiniteSets

CONSTANTS Client,    \* the client programs
          User,      \* the threads of a client
          Node,      \* the worker nodes
          Local,     \* the head's collector of the results of its own workers
          HasLocal,  \* whether the head has workers of its own
          Slots,     \* the worker processes of a node, and of the head
          MaxArgs,   \* bound: the number of arguments of a task
          MaxStops,  \* bound: the number of nodes that stop
          Nothing

ASSUME ClusterAssumption ==
    /\ HasLocal \in BOOLEAN
    /\ Slots \in Nat /\ MaxArgs \in Nat /\ MaxStops \in Nat
    /\ Client \cap Node = {} /\ Local \notin Client \cup Node
    /\ Nothing \notin Task
    /\ "poller" \notin User

Conn == Client \cup Node
Pool == IF HasLocal THEN Node \cup {Local} ELSE Node
Handler == Conn \cup Pool   \* the threads of the head
ThreadsOf(k) == IF k \in Node THEN {"poller", "reporter"} ELSE User

VARIABLES
    store, waiting, blocked, signalling, woken,   \* the head's object_store
    pending, unresolved, waitingOn, ready,        \* the head's scheduler
    submitted, args, status,                      \* the head's ownership table
    wants,       \* the request each thread of a client or node has to make
    sent,        \* the threads that sent theirs and hold _conn_lock
    inbox,       \* the requests on their way to the head, per connection
    outbox,      \* the replies on their way back
    refs,        \* the ObjectRefs each client has
    asked,       \* the number of calls of submit_task so far
    taskQueue,   \* _task_queue of each pool: <<task, resolved arguments>>
    executing,   \* what the worker processes of each pool execute
    results,     \* _result_queue of each pool: <<task, outcome>>
    up           \* the nodes that have not stopped

Store == INSTANCE ObjectStore WITH Object <- Task, Thread <- Handler
Sched == INSTANCE Scheduler WITH Object <- Task
Table == INSTANCE OwnershipTable

osVars == <<store, waiting, blocked, signalling, woken>>
schedVars == <<pending, unresolved, waitingOn, ready>>
tableVars == <<submitted, args, status>>
connVars == <<wants, sent, inbox, outbox, up>>
clientVars == <<refs, asked>>
poolVars == <<taskQueue, executing, results>>
headVars == <<osVars, schedVars, tableVars, stack>>
vars == <<headVars, connVars, clientVars, poolVars>>

\* A request or a reply: what it is, the task or object, and what else.  The
\* reply to a get or a contains does not name its object; here it does, for
\* CallersGetTheirReply.
Msg(cmd, t, data) == [cmd |-> cmd, task |-> t, data |-> data]
Poll == Msg("poll_task", Nothing, Nothing)
NoRequest == Msg("none", Nothing, Nothing)

Idle(k) == [c \in ThreadsOf(k) |-> IF c = "poller" THEN Poll ELSE NoRequest]

Init ==
    /\ Store!OSInit
    /\ Sched!SchedInit
    /\ Table!TableInit
    /\ stack = [h \in Handler |-> <<>>]
    /\ wants = [k \in Conn |-> Idle(k)]
    /\ sent = [k \in Conn |-> {}]
    /\ inbox = [k \in Conn |-> <<>>] /\ outbox = [k \in Conn |-> <<>>]
    /\ refs = [k \in Client |-> {}]
    /\ asked = 0
    /\ taskQueue = [p \in Pool |-> <<>>] /\ results = [p \in Pool |-> <<>>]
    /\ executing = [p \in Pool |-> {}]
    /\ up = Node
-----------------------------------------------------------------------------
(***************************************************************************)
(* The connection, seen from its client or node: _send_recv,               *)
(* _send_to_head.                                                          *)
(***************************************************************************)
\* Mutant: the connection is used without its lock.
SendUnlocked(k, c) ==
    /\ wants[k][c] # NoRequest /\ c \notin sent[k]
    /\ sent' = [sent EXCEPT ![k] = @ \cup {c}]
    /\ inbox' = [inbox EXCEPT ![k] = Append(@, wants[k][c])]
    /\ UNCHANGED <<headVars, wants, outbox, up, clientVars, poolVars>>

Send(k, c) ==
    /\ wants[k][c] # NoRequest /\ sent[k] = {}
    /\ sent' = [sent EXCEPT ![k] = @ \cup {c}]
    /\ inbox' = [inbox EXCEPT ![k] = Append(@, wants[k][c])]
    /\ UNCHANGED <<headVars, wants, outbox, up, clientVars, poolVars>>

\* The reply c receives, when there is one, ends its call.
Reply(k) == Head(outbox[k])

Receive(k, c) ==
    /\ c \in sent[k] /\ outbox[k] # <<>>
    /\ sent' = [sent EXCEPT ![k] = @ \ {c}]
    /\ outbox' = [outbox EXCEPT ![k] = Tail(@)]
    /\ wants' = [wants EXCEPT ![k][c] = Idle(k)[c]]
    /\ UNCHANGED <<headVars, inbox, up, asked, executing, results>>

\* submit_task, get_object and _contains_object of the remote runtime.
UserCall(k, u, msg) ==
    /\ wants[k][u] = NoRequest
    /\ wants' = [wants EXCEPT ![k][u] = msg]
    /\ asked' = IF msg.cmd = "submit_task" THEN asked + 1 ELSE asked
    /\ UNCHANGED <<headVars, sent, inbox, outbox, up, refs, poolVars>>

UserCalls(k, u) ==
    \/ /\ asked < MaxTasks
       /\ \E a \in SeqOf(refs[k], MaxArgs) : UserCall(k, u, Msg("submit_task", Nothing, a))
    \/ \E o \in refs[k], cmd \in {"get_object", "contains_object"} :
          UserCall(k, u, Msg(cmd, o, Nothing))

UserReturn(k, u) ==
    /\ Receive(k, u)
    /\ refs' = IF Reply(k).cmd = "object_id"
               THEN [refs EXCEPT ![k] = @ \cup {Reply(k).task}] ELSE refs
    /\ UNCHANGED taskQueue

(***************************************************************************)
(* _poll_loop: a task goes to the node's queue and the node polls again;   *)
(* when there is none it first sleeps.                                     *)
(***************************************************************************)
PollReturn(n) ==
    /\ Receive(n, "poller")
    /\ taskQueue' = IF Reply(n).cmd = "task"
                    THEN [taskQueue EXCEPT ![n] = Append(@, <<Reply(n).task, Reply(n).data>>)]
                    ELSE taskQueue
    /\ UNCHANGED refs

\* _report_loop: the reporter has a result, and reports it.
TakeResult(n) ==
    /\ n \in up
    /\ results[n] # <<>>
    /\ wants[n]["reporter"] = NoRequest
    /\ LET r == Head(results[n]) IN
       wants' = [wants EXCEPT ![n]["reporter"] = Msg("task_result", r[1], r[2])]
    /\ results' = [results EXCEPT ![n] = Tail(@)]
    /\ UNCHANGED <<headVars, sent, inbox, outbox, up, clientVars, taskQueue, executing>>

ReportReturn(n) == Receive(n, "reporter") /\ UNCHANGED <<refs, taskQueue>>

\* _worker_process_loop (driver.py: _worker_loop for the head's own workers).
StartTask(p) ==
    /\ taskQueue[p] # <<>> /\ Cardinality(executing[p]) < Slots
    /\ executing' = [executing EXCEPT ![p] = @ \cup {Head(taskQueue[p])}]
    /\ taskQueue' = [taskQueue EXCEPT ![p] = Tail(@)]
    /\ UNCHANGED <<headVars, connVars, clientVars, results>>

FinishTask(p, e) ==
    /\ e \in executing[p]
    /\ executing' = [executing EXCEPT ![p] = @ \ {e}]
    /\ results' = [results EXCEPT ![p] = Append(@, <<e[1], Outcome(e[1], e[2])>>)]
    /\ UNCHANGED <<headVars, connVars, clientVars, taskQueue>>

(***************************************************************************)
(* A node is shut down or dies.  What it has is gone: shutdown lets the    *)
(* workers finish what is queued, but the reporter has stopped.  A request *)
(* already on the wire may still be read by the head.                      *)
(***************************************************************************)
Stop(n) ==
    /\ n \in up
    /\ Cardinality(Node \ up) < MaxStops
    /\ up' = up \ {n}
    /\ taskQueue' = [taskQueue EXCEPT ![n] = <<>>]
    /\ executing' = [executing EXCEPT ![n] = {}]
    /\ results' = [results EXCEPT ![n] = <<>>]
    /\ wants' = [wants EXCEPT ![n] = [c \in ThreadsOf(n) |-> NoRequest]]
    /\ sent' = [sent EXCEPT ![n] = {}]
    /\ outbox' = [outbox EXCEPT ![n] = <<>>]
    /\ \E received \in {inbox[n], <<>>} : inbox' = [inbox EXCEPT ![n] = received]
    /\ UNCHANGED <<headVars, clientVars>>
-----------------------------------------------------------------------------
(***************************************************************************)
(* The head: _handle_connection and _dispatch.  A handler thread receives  *)
(* a request when it is done with the one before; its last frame says what *)
(* it replies in the end.                                                  *)
(***************************************************************************)
Receiving(h, cmd) ==
    /\ h \in Conn /\ stack[h] = <<>>
    /\ inbox[h] # <<>> /\ Head(inbox[h]).cmd = cmd
    /\ inbox' = [inbox EXCEPT ![h] = Tail(@)]
    /\ UNCHANGED <<wants, sent, up>>

\* A reply to a node that has stopped goes nowhere.
Answer(h, msg) ==
    outbox' = IF h \in Node \ up THEN outbox ELSE [outbox EXCEPT ![h] = Append(@, msg)]

ReplyFrame(cmd, t) == Frame(cmd, t, <<>>)

\* resolve_args of task t, in _prepare_task_payload.
\* Mutant: the id of the task is taken for that of its object, the next one.
ResolvingNextId(at, t) == Frame(at, t + 1, args[t])

Resolving(at, t) == Frame(at, t, args[t])

\* _submit_task up to scheduler.submit: nobody has a reference to the task.
OnSubmitTask(h) ==
    LET t == Cardinality(submitted) + 1  a == Head(inbox[h]).data IN
    /\ Receiving(h, "submit_task")
    /\ Table!register_task(t, a)
    /\ Sched!SchedSubmit(t, a)
    /\ Enter(h, <<Submitting(t, a), ReplyFrame("object_id", t)>>)
    /\ UNCHANGED <<osVars, outbox, clientVars, poolVars>>

OnGetObject(h) ==
    /\ Receiving(h, "get_object")
    /\ Enter(h, <<Frame("get", Head(inbox[h]).task, <<>>)>>)
    /\ UNCHANGED <<osVars, schedVars, tableVars, outbox, clientVars, poolVars>>

OnContainsObject(h) ==
    LET o == Head(inbox[h]).task IN
    /\ Receiving(h, "contains_object")
    /\ Answer(h, Msg("contains", o, Store!contains(o)))
    /\ UNCHANGED <<headVars, clientVars, poolVars>>

OnPollEmpty(h) ==
    /\ Receiving(h, "poll_task")
    /\ ready = <<>>
    /\ Answer(h, Msg("no_task", Nothing, Nothing))
    /\ UNCHANGED <<headVars, clientVars, poolVars>>

OnPollTask(h) ==
    /\ Receiving(h, "poll_task")
    /\ Sched!PopReady
    /\ Enter(h, <<Resolving("resolveReply", Head(ready))>>)
    /\ UNCHANGED <<osVars, tableVars, outbox, clientVars, poolVars>>

\* _handle_task_result, first step: the result is stored.
OnTaskResult(h) ==
    LET t == Head(inbox[h]).task  v == Head(inbox[h]).data IN
    /\ Receiving(h, "task_result")
    /\ Store!PutStore(h, t, v)
    /\ Enter(h, AfterPut(t, v) \o <<ReplyFrame("ack", t)>>)
    /\ UNCHANGED <<schedVars, tableVars, outbox, clientVars, poolVars>>

\* _collect_local_results, for the head's own workers.
CollectLocal ==
    /\ HasLocal
    /\ results[Local] # <<>> /\ Store!PutDone(Local)
    /\ LET t == Head(results[Local])[1]  v == Head(results[Local])[2] IN
       Store!PutStore(Local, t, v) /\ Enter(Local, AfterPut(t, v))
    /\ results' = [results EXCEPT ![Local] = Tail(@)]
    /\ UNCHANGED <<schedVars, tableVars, connVars, clientVars, taskQueue, executing>>

\* The event of the put is set: ownership.task_finished and on_object_ready.
\* Nobody reads a status, so the two are one step.
Finished(h) ==
    /\ At(h, "finished")
    /\ Store!PutDone(h)
    /\ Table!Record(Top(h).task, "FINISHED")
    /\ Sched!OnObjectReady(Top(h).task)
    /\ Goto(h, Frame("flush", Top(h).task, <<>>))
    /\ UNCHANGED <<osVars, connVars, clientVars, poolVars>>

\* ownership.task_failed; nothing is announced.
Failed(h) ==
    /\ At(h, "failed")
    /\ Store!PutDone(h)
    /\ Table!Record(Top(h).task, "FAILED")
    /\ Return(h)
    /\ UNCHANGED <<osVars, schedVars, connVars, clientVars, poolVars>>

SetEvent(h) ==
    /\ Store!PutSignal(h)
    /\ UNCHANGED <<schedVars, tableVars, stack, connVars, clientVars, poolVars>>
-----------------------------------------------------------------------------
(***************************************************************************)
(* The calls in progress at the head, as in Runtime; nothing is evicted    *)
(* here, so a thread that is woken finds its object.                       *)
(***************************************************************************)
restVars == <<tableVars, connVars, clientVars, poolVars>>

\* Mutant: every dependency is announced, available or not.
RecheckAlways(h) ==
    /\ At(h, "recheck")
    /\ Goto(h, [Top(h) EXCEPT !.at = "announce"])
    /\ UNCHANGED <<osVars, schedVars, restVars>>

Recheck(h) ==
    /\ At(h, "recheck")
    /\ Goto(h, IF Store!contains(NextArg(h))
               THEN [Top(h) EXCEPT !.at = "announce"]
               ELSE Submitting(Top(h).task, Tail(Top(h).todo)))
    /\ UNCHANGED <<osVars, schedVars, restVars>>

Announce(h) ==
    /\ At(h, "announce")
    /\ Sched!OnObjectReady(NextArg(h))
    /\ Goto(h, Submitting(Top(h).task, Tail(Top(h).todo)))
    /\ UNCHANGED <<osVars, restVars>>

\* _flush_ready_tasks: nothing without workers of its own, else the next task.
FlushNext(h) ==
    /\ At(h, "flush") /\ HasLocal
    /\ Sched!PopReady
    /\ stack' = [stack EXCEPT ![h] = <<Resolving("resolveLocal", Head(ready))>> \o @]
    /\ UNCHANGED <<osVars, restVars>>

FlushDone(h) ==
    /\ At(h, "flush")
    /\ ~ HasLocal \/ ready = <<>>
    /\ Return(h)
    /\ UNCHANGED <<osVars, schedVars, restVars>>

Resolves(h) == At(h, "resolveLocal") \/ At(h, "resolveReply")

Awaited(h) ==
    CASE Resolves(h) /\ Top(h).todo # <<>> -> NextArg(h)
      [] At(h, "get") -> Top(h).task
      [] OTHER -> Nothing

\* get_or_wait: the thread sleeps, or has the object.
Block(h) ==
    /\ Awaited(h) # Nothing /\ blocked[h] = Nothing
    /\ Store!StartWait(h, Awaited(h))
    /\ UNCHANGED <<schedVars, stack, restVars>>

Got(h, o) ==
    /\ Store!contains(o)
    /\ \/ blocked[h] = Nothing /\ UNCHANGED osVars
       \/ Store!EndWait(h)

ResolveArg(h) ==
    /\ Resolves(h) /\ Top(h).todo # <<>>
    /\ Got(h, NextArg(h))
    /\ Goto(h, Resolved(Top(h), store[NextArg(h)]))
    /\ UNCHANGED <<schedVars, restVars>>

QueueLocal(h) ==
    /\ At(h, "resolveLocal") /\ Top(h).todo = <<>>
    /\ taskQueue' = [taskQueue EXCEPT ![Local] = Append(@, <<Top(h).task, Top(h).vals>>)]
    /\ Return(h)
    /\ UNCHANGED <<osVars, schedVars, tableVars, connVars, clientVars, executing, results>>

(***************************************************************************)
(* The replies that are not sent at once.                                  *)
(***************************************************************************)
SendReply(h, msg) ==
    /\ Answer(h, msg)
    /\ Return(h)
    /\ UNCHANGED <<schedVars, tableVars, wants, sent, inbox, up, clientVars, poolVars>>

ReplyTask(h) ==
    /\ At(h, "resolveReply") /\ Top(h).todo = <<>>
    /\ SendReply(h, Msg("task", Top(h).task, Top(h).vals))
    /\ UNCHANGED osVars

ReplyValue(h) ==
    /\ At(h, "get")
    /\ Got(h, Top(h).task)
    /\ SendReply(h, Msg("value", Top(h).task, store[Top(h).task]))

ReplyDone(h) ==
    /\ \E cmd \in {"object_id", "ack"} :
          At(h, cmd) /\ SendReply(h, Msg(cmd, Top(h).task, Nothing))
    /\ UNCHANGED osVars
-----------------------------------------------------------------------------
Dispatch(h) ==
    \/ OnSubmitTask(h) \/ OnGetObject(h) \/ OnContainsObject(h)
    \/ OnPollEmpty(h) \/ OnPollTask(h) \/ OnTaskResult(h)

HeadStep(h) ==
    \/ Dispatch(h) \/ SetEvent(h) \/ Finished(h) \/ Failed(h) \/ Recheck(h) \/ Announce(h)
    \/ FlushNext(h) \/ FlushDone(h) \/ Block(h) \/ ResolveArg(h)
    \/ QueueLocal(h) \/ ReplyTask(h) \/ ReplyValue(h) \/ ReplyDone(h)

NodeReturn(n) == PollReturn(n) \/ ReportReturn(n)

PoolStep(p) == StartTask(p) \/ \E e \in executing[p] : FinishTask(p, e)

Next ==
    \/ \E h \in Handler : HeadStep(h)
    \/ CollectLocal
    \/ \E k \in Conn : \E c \in ThreadsOf(k) : Send(k, c)
    \/ \E k \in Client, u \in User : UserCalls(k, u) \/ UserReturn(k, u)
    \/ \E n \in Node : NodeReturn(n) \/ TakeResult(n) \/ Stop(n)
    \/ \E p \in Pool : PoolStep(p)

(***************************************************************************)
(* Threads and processes are scheduled, messages arrive and functions      *)
(* return.  A thread that waits for _conn_lock gets it, as the poller      *)
(* sleeps without it after a poll that found no task, and the threads of a *)
(* client do not call for ever without a pause (strong fairness).          *)
(***************************************************************************)
Fairness ==
    /\ \A h \in Handler : WF_vars(HeadStep(h))
    /\ WF_vars(CollectLocal)
    /\ \A k \in Conn : \A c \in ThreadsOf(k) : SF_vars(Send(k, c))
    /\ \A k \in Client, u \in User : WF_vars(UserReturn(k, u))
    /\ \A n \in Node : WF_vars(NodeReturn(n)) /\ WF_vars(TakeResult(n))
    /\ \A p \in Pool : WF_vars(PoolStep(p))

Spec == Init /\ [][Next]_vars /\ Fairness
-----------------------------------------------------------------------------
TypeOK ==
    /\ submitted \subseteq Task
    /\ args \in [Task -> SeqOf(submitted, MaxArgs)]
    /\ \A h \in Handler : \A i \in DOMAIN stack[h] :
          stack[h][i].task \in submitted /\ ToSet(stack[h][i].todo) \subseteq submitted
    /\ \A k \in Conn : sent[k] \subseteq ThreadsOf(k)
    /\ \A k \in Client : refs[k] \subseteq submitted
    /\ \A p \in Pool : \A e \in ToSet(taskQueue[p]) \cup executing[p] : e[1] \in submitted
    /\ pending \cup ToSet(ready) \subseteq submitted
    /\ up \subseteq Node

(***************************************************************************)
(* Every ObjectRef is a future, wherever its task runs.                    *)
(***************************************************************************)
Fut == INSTANCE Futures WITH
          created <- submitted, inputs <- args, value <- store, Unresolved <- Absent

FuturesSafety == Fut!FutSafety
FuturesLive == Fut!FutLive

(***************************************************************************)
(* The threads that share a connection each get the reply to their own     *)
(* request, and a get returns the value of its object                      *)
(* (remote_runtime.py:79-83, node.py:127-131).                             *)
(***************************************************************************)
RepliesTo(cmd) ==
    CASE cmd = "submit_task" -> {"object_id"}
      [] cmd = "get_object" -> {"value"}
      [] cmd = "contains_object" -> {"contains"}
      [] cmd = "poll_task" -> {"task", "no_task"}
      [] cmd = "task_result" -> {"ack"}

CallersGetTheirReply ==
    \A k \in Conn : \A c \in sent[k] :
        outbox[k] # <<>> =>
            /\ Reply(k).cmd \in RepliesTo(wants[k][c].cmd)
            /\ wants[k][c].task # Nothing => Reply(k).task = wants[k][c].task
            /\ Reply(k).cmd = "value" => Reply(k).data = store[Reply(k).task]

(***************************************************************************)
(* A task is neither lost nor executed twice: it is in one place at a      *)
(* time, from scheduler.submit until its result is stored.  Only a node    *)
(* that stops can lose it.                                                 *)
(***************************************************************************)
Held(q, t) == {i \in DOMAIN q : q[i][1] = t}
OnWire(q, cmd, t) == {i \in DOMAIN q : q[i].cmd = cmd /\ q[i].task = t}

WirePlaces(place, wire, cmd, t) ==
    UNION {{place} \X {n} \X OnWire(wire[n], cmd, t) : n \in Node}

PoolPlaces(place, copies) == UNION {{place} \X {p} \X copies[p] : p \in Pool}

Places(t) ==
    {"scheduler"} \X {i \in pending : i = t}
    \cup {"ready"} \X {i \in DOMAIN ready : ready[i] = t}
    \cup {"head"} \X {h \in Handler : Resolves(h) /\ Top(h).task = t}
    \cup {"store"} \X {o \in {t} : Store!contains(o)}
    \cup WirePlaces("polled", outbox, "task", t)
    \cup WirePlaces("reported", inbox, "task_result", t)
    \cup {"reporter"} \X {n \in Node : /\ wants[n]["reporter"] # NoRequest
                                       /\ wants[n]["reporter"].task = t
                                       /\ "reporter" \notin sent[n]}
    \cup PoolPlaces("queue", [p \in Pool |-> Held(taskQueue[p], t)])
    \cup PoolPlaces("worker", [p \in Pool |-> {e \in executing[p] : e[1] = t}])
    \cup PoolPlaces("result", [p \in Pool |-> Held(results[p], t)])

OneCopy ==
    \A t \in submitted :
        /\ Cardinality(Places(t)) <= 1
        /\ up = Node => Places(t) # {}

(***************************************************************************)
(* A task reaches the ready queue with its arguments in the store, so that *)
(* a poll, which holds the connection its results need, is answered at     *)
(* once (head.py:240-247).                                                 *)
(***************************************************************************)
ReadyArgsInStore ==
    /\ \A t \in ToSet(ready) : \A d \in ToSet(args[t]) : Store!contains(d)
    /\ \A h \in Handler : Resolves(h) => \A d \in ToSet(Top(h).todo) : Store!contains(d)

(***************************************************************************)
(* No trigger is missed between the submit of a task by one handler thread *)
(* and the result of a dependency in another (head.py:290-294).            *)
(***************************************************************************)
NoMissedTrigger ==
    \A t \in pending, o \in Task \ Fails :
        o \in unresolved[t] /\ Store!contains(o) =>
            \E h \in Handler : WillAnnounce(h, t, o)

\* A call of a client returns.
CallsReturn ==
    \A k \in Client, u \in User : (wants[k][u] # NoRequest) ~> (wants[k][u] = NoRequest)
=============================================================================
