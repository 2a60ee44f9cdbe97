---------------------------- MODULE HeadService ----------------------------
(***************************************************************************)
(* The life of the head node (head.py): it accepts the connections of      *)
(* worker nodes and clients, serves each with a handler thread, counts     *)
(* what they do for the dashboard, and shuts down while they are at work.  *)
(*                                                                         *)
(* Every request is here, with the metrics it updates; when a task becomes *)
(* ready, what it computes and the head's own workers are in Cluster.      *)
(* get_object is the one request whose handler may wait, for the object: a *)
(* poll resolves the arguments of a task that is ready, and these are in   *)
(* the store, from which the head deletes nothing (ReadyArgsInStore there).*)
(* A step is an access to something threads share.  The bounds are         *)
(* MaxTasks and MaxLeaves.                                                 *)
(***************************************************************************)
EXTENDS DashboardMetrics

CONSTANTS Node, Client,
          MaxTasks,   \* bound: the number of tasks submitted
          Fails,      \* the tasks that raise
          MaxLeaves,  \* bound: the number of peers that leave or die
          Nothing

ASSUME HeadAssumption ==
    /\ MaxTasks \in Nat /\ MaxLeaves \in Nat
    /\ Fails \subseteq 1 .. MaxTasks
    /\ Node \cap Client = {}
    /\ Nothing \notin {"register_worker", "submit_task", "get_object", "contains_object",
                       "poll_task", "task_result", "ok", "done"}

Peer == Node \cup Client
Task == 1 .. MaxTasks

VARIABLES
    running,       \* _running
    listening,     \* the server socket is open
    accepting,     \* the accept loop is in accept()
    shutting,      \* where shutdown is
    worker_conns,  \* _worker_conns
    at,            \* what the head does with each connection; the handler thread
    task,          \* the task the handler is busy with
    count,         \* the length or size it has read
    closed,        \* the connections the head has closed
    inbox, outbox, \* the request and the reply on their way
    waiting,       \* what each peer has asked and not been told
    joined,        \* the nodes whose register_worker was answered
    left,          \* the peers that have left
    submitted,     \* the tasks the scheduler has been given
    taken,         \* those it has handed out
    held,          \* those each node was handed and has not reported
    stored,        \* those in the object store
    late,          \* history: the requests each handler took after shutdown began
    overtaken      \* history: the tasks that ended before they were counted

listenVars == <<running, listening, accepting, shutting>>
handlerVars == <<at, task, count>>
wireVars == <<inbox, outbox, waiting, joined, left>>
taskVars == <<submitted, taken, held, stored>>
histVars == <<late, overtaken>>
vars == <<listenVars, worker_conns, handlerVars, closed, wireVars, taskVars, histVars, metricsVars>>

Init ==
    /\ running = TRUE /\ listening = TRUE /\ accepting = TRUE /\ shutting = "no"
    /\ worker_conns = {} /\ closed = {}
    /\ at = [p \in Peer |-> "unconnected"]
    /\ task = [p \in Peer |-> Nothing] /\ count = [p \in Peer |-> 0]
    /\ inbox = [p \in Peer |-> Nothing] /\ outbox = [p \in Peer |-> Nothing]
    /\ waiting = [p \in Peer |-> Nothing]
    /\ joined = {} /\ left = {}
    /\ submitted = {} /\ taken = {} /\ stored = {}
    /\ held = [p \in Peer |-> {}]
    /\ late = [p \in Peer |-> 0] /\ overtaken = {}
    /\ MetricsInit(0)

Goto(p, label) == at' = [at EXCEPT ![p] = label]
-----------------------------------------------------------------------------
(***************************************************************************)
(* The peers.  A node registers, polls for tasks and reports what it has   *)
(* executed; a client submits tasks, looks for their results and gets      *)
(* them.  A request at a time, as in Cluster.                              *)
(***************************************************************************)
Connect(p) ==
    /\ at[p] = "unconnected" /\ p \notin left
    /\ listening
    /\ Goto(p, "backlog")
    /\ UNCHANGED <<listenVars, worker_conns, task, count, closed, wireVars, taskVars, histVars, metricsVars>>

Ask(p, cmd, t) ==
    /\ at[p] # "unconnected" /\ p \notin left
    /\ waiting[p] = Nothing
    /\ waiting' = [waiting EXCEPT ![p] = cmd]
    /\ inbox' = [inbox EXCEPT ![p] = [cmd |-> cmd, task |-> t]]
    /\ UNCHANGED <<listenVars, worker_conns, handlerVars, closed, outbox, joined, left,
                   submitted, taken, stored, histVars, metricsVars>>

Register(n) == n \notin joined /\ Ask(n, "register_worker", Nothing) /\ UNCHANGED held

Poll(n) == n \in joined /\ Ask(n, "poll_task", Nothing) /\ UNCHANGED held

\* The reply to the poll has arrived, as the node waits for none.
Report(n, t) ==
    /\ t \in held[n]
    /\ held' = [held EXCEPT ![n] = @ \ {t}]
    /\ Ask(n, "task_result", t)

Submissions == {c \in Client : inbox[c] # Nothing /\ inbox[c].cmd = "submit_task"}

SubmitTask(c) ==
    /\ Cardinality(submitted) + Cardinality(Submissions) < MaxTasks
    /\ Ask(c, "submit_task", Nothing)
    /\ UNCHANGED held

LookUp(c, t) ==
    /\ t \in submitted
    /\ Ask(c, "get_object", t) \/ Ask(c, "contains_object", t)
    /\ UNCHANGED held

Told(p) ==
    /\ outbox[p] # Nothing
    /\ outbox' = [outbox EXCEPT ![p] = Nothing]
    /\ joined' = IF outbox[p] = "ok" THEN joined \cup {p} ELSE joined
    /\ waiting' = [waiting EXCEPT ![p] = Nothing]
    /\ UNCHANGED <<listenVars, worker_conns, handlerVars, closed, inbox, left, taskVars, histVars, metricsVars>>

\* recv_msg returns None, or the connection is reset.
Disconnected(p) ==
    /\ waiting[p] # Nothing /\ outbox[p] = Nothing
    /\ at[p] \in {"reset", "ended"} /\ p \in closed
    /\ left' = left \cup {p}
    /\ waiting' = [waiting EXCEPT ![p] = Nothing]
    /\ UNCHANGED <<listenVars, worker_conns, handlerVars, closed, inbox, outbox, joined, taskVars, histVars, metricsVars>>

\* A node shuts down, a client disconnects, or either dies.
Leave(p) ==
    /\ p \notin left /\ Cardinality(left) < MaxLeaves
    /\ left' = left \cup {p}
    /\ waiting' = [waiting EXCEPT ![p] = Nothing]
    /\ outbox' = [outbox EXCEPT ![p] = Nothing]
    /\ \E arrives \in {inbox[p], Nothing} : inbox' = [inbox EXCEPT ![p] = arrives]
    /\ UNCHANGED <<listenVars, worker_conns, handlerVars, closed, joined, taskVars, histVars, metricsVars>>
-----------------------------------------------------------------------------
(***************************************************************************)
(* _accept_loop.  It looks at _running between two calls of accept(), each *)
(* of which ends within a second: a connection may still be accepted after *)
(* shutdown has begun.                                                     *)
(***************************************************************************)
Accept(p) ==
    /\ accepting /\ listening
    /\ at[p] = "backlog"
    /\ Goto(p, "loop")
    /\ accepting' = running
    /\ UNCHANGED <<running, listening, shutting, worker_conns, task, count, closed, wireVars, taskVars, histVars, metricsVars>>

\* Mutant: an error of accept() is taken for a timeout.
AcceptEndsIgnoringErrors ==
    /\ accepting /\ listening /\ ~ running
    /\ accepting' = FALSE
    /\ UNCHANGED <<running, listening, shutting, worker_conns, handlerVars, closed, wireVars, taskVars, histVars, metricsVars>>

\* After a timeout, or with an error as the socket is closed.
AcceptEnds ==
    /\ accepting /\ ~ (running /\ listening)
    /\ accepting' = FALSE
    /\ UNCHANGED <<running, listening, shutting, worker_conns, handlerVars, closed, wireVars, taskVars, histVars, metricsVars>>

(***************************************************************************)
(* _handle_connection.                                                     *)
(***************************************************************************)
\* The finally clause.
\* Mutant: the connection stays in the list.
EndStaysListed(p) ==
    /\ Goto(p, "ended")
    /\ closed' = closed \cup {p}
    /\ UNCHANGED worker_conns

\* Mutant: the connection is not closed.
EndOpen(p) ==
    /\ Goto(p, "ended")
    /\ worker_conns' = worker_conns \ {p}
    /\ UNCHANGED closed

End(p) ==
    /\ Goto(p, "ended")
    /\ worker_conns' = worker_conns \ {p}
    /\ closed' = closed \cup {p}

\* `while self._running`.  Mutant: a request whatever happens.
LoopForEver(p) ==
    /\ at[p] = "loop"
    /\ Goto(p, "recv")
    /\ UNCHANGED <<worker_conns, closed>>
    /\ UNCHANGED <<listenVars, task, count, wireVars, taskVars, histVars, metricsVars>>

Loop(p) ==
    /\ at[p] = "loop"
    /\ IF running THEN Goto(p, "recv") /\ UNCHANGED <<worker_conns, closed>>
                  ELSE End(p)
    /\ UNCHANGED <<listenVars, task, count, wireVars, taskVars, histVars, metricsVars>>

\* The peer has left, or shutdown has closed the connection: the next recv()
\* fails, but one that waits is woken by a request only.
RecvEnds(p) ==
    /\ at[p] = "recv"
    /\ p \in closed \/ (p \in left /\ inbox[p] = Nothing)
    /\ End(p)
    /\ UNCHANGED <<listenVars, task, count, wireVars, taskVars, histVars, metricsVars>>

\* A request, and the first shared state its handler reads or changes: the list
\* of connections, the scheduler or the store.
Recv(p, cmd, label) ==
    /\ at[p] = "recv" /\ p \notin closed
    /\ inbox[p] # Nothing /\ inbox[p].cmd = cmd
    /\ inbox' = [inbox EXCEPT ![p] = Nothing]
    /\ Goto(p, label)
    /\ late' = IF running THEN late ELSE [late EXCEPT ![p] = @ + 1]
    /\ UNCHANGED <<listenVars, count, closed, outbox, waiting, joined, left, overtaken, metricsVars>>

RecvRegister(p) ==
    /\ Recv(p, "register_worker", "listed")
    /\ worker_conns' = worker_conns \cup {p}
    /\ UNCHANGED <<task, taskVars>>

RecvSubmit(p) ==
    LET t == Cardinality(submitted) + 1 IN
    /\ Recv(p, "submit_task", "flushed")
    /\ submitted' = submitted \cup {t}
    /\ task' = [task EXCEPT ![p] = t]
    /\ UNCHANGED <<worker_conns, taken, held, stored>>

\* The scheduler may have a task that is ready, or none.
RecvPoll(p) ==
    /\ Recv(p, "poll_task", "reply")
    /\ \E popped \in {{}} \cup {{t} : t \in submitted \ taken} :
          /\ taken' = taken \cup popped
          /\ held' = [held EXCEPT ![p] = @ \cup popped]
    /\ UNCHANGED <<worker_conns, task, submitted, stored>>

RecvResult(p) ==
    /\ Recv(p, "task_result", "put")
    /\ stored' = stored \cup {inbox[p].task}
    /\ task' = [task EXCEPT ![p] = inbox[p].task]
    /\ UNCHANGED <<worker_conns, submitted, taken, held>>

RecvContains(p) ==
    /\ Recv(p, "contains_object", "reply")
    /\ UNCHANGED <<worker_conns, task, taskVars>>

RecvGet(p) ==
    /\ Recv(p, "get_object", "get")
    /\ task' = [task EXCEPT ![p] = inbox[p].task]
    /\ UNCHANGED <<worker_conns, taskVars>>

\* get_or_wait without a timeout.  _running is not read here, so a shutdown
\* does not end the wait.
Waits(p) == at[p] = "get" /\ task[p] \notin stored

Get(p) ==
    /\ at[p] = "get" /\ ~ Waits(p)
    /\ Goto(p, "reply")
    /\ task' = [task EXCEPT ![p] = Nothing]
    /\ UNCHANGED <<listenVars, worker_conns, count, closed, wireVars, taskVars, histVars, metricsVars>>

\* What the handler reads without a lock for the dashboard, and writes later.
Measure(p, before, after, n) ==
    /\ at[p] = before
    /\ Goto(p, after)
    /\ count' = [count EXCEPT ![p] = n]
    /\ UNCHANGED <<listenVars, worker_conns, task, closed, wireVars, taskVars, histVars, metricsVars>>

Publish(p, before, after) ==
    /\ at[p] = before
    /\ Goto(p, after)
    /\ task' = [task EXCEPT ![p] = Nothing]
    /\ count' = [count EXCEPT ![p] = 0]
    /\ UNCHANGED <<listenVars, worker_conns, closed, wireVars, taskVars, late>>

CountWorkers(p) ==
    \/ Measure(p, "listed", "workersCounted", Cardinality(worker_conns))
    \/ Publish(p, "workersCounted", "reply") /\ set_worker_count(count[p]) /\ UNCHANGED overtaken

CountSubmitted(p) ==
    Publish(p, "flushed", "reply") /\ on_task_submitted(task[p]) /\ UNCHANGED overtaken

CountEnded(p) ==
    LET t == task[p] IN
    /\ overtaken' = IF t \in submit_times THEN overtaken ELSE overtaken \cup {t}
    /\ \/ t \notin Fails /\ Publish(p, "put", "completed") /\ on_task_completed(t)
       \/ t \in Fails /\ Publish(p, "put", "reply") /\ on_task_failed(t)

CountObjects(p) ==
    \/ Measure(p, "completed", "objectsCounted", Cardinality(stored))
    \/ Publish(p, "objectsCounted", "reply") /\ set_objects_stored(count[p]) /\ UNCHANGED overtaken

\* send_msg fails on a connection that shutdown has closed; it may also fail,
\* or not, if the peer has left.
Reply(p) ==
    /\ at[p] = "reply"
    /\ \/ p \notin closed \cup left
          /\ outbox' = [outbox EXCEPT ![p] = IF waiting[p] = "register_worker" THEN "ok" ELSE "done"]
          /\ Goto(p, "loop")
          /\ UNCHANGED <<worker_conns, closed>>
       \/ p \in left \ closed
          /\ Goto(p, "loop")
          /\ UNCHANGED <<worker_conns, closed, outbox>>
       \/ p \in closed \cup left
          /\ End(p)
          /\ UNCHANGED outbox
    /\ UNCHANGED <<listenVars, task, count, inbox, waiting, joined, left, taskVars, histVars, metricsVars>>

Handle(p) ==
    \/ Loop(p) \/ RecvEnds(p) \/ RecvRegister(p) \/ RecvSubmit(p) \/ RecvPoll(p)
    \/ RecvResult(p) \/ RecvContains(p) \/ RecvGet(p) \/ Get(p)
    \/ CountWorkers(p) \/ CountSubmitted(p) \/ CountEnded(p) \/ CountObjects(p) \/ Reply(p)
-----------------------------------------------------------------------------
(***************************************************************************)
(* shutdown.  Its own workers: Cluster.                                    *)
(***************************************************************************)
ShutdownBegins ==
    /\ shutting = "no"
    /\ shutting' = "conns"
    /\ running' = FALSE
    /\ UNCHANGED <<listening, accepting, worker_conns, handlerVars, closed, wireVars, taskVars, histVars, metricsVars>>

CloseWorkers ==
    /\ shutting = "conns"
    /\ shutting' = "socket"
    /\ closed' = closed \cup worker_conns
    /\ worker_conns' = {}
    /\ UNCHANGED <<running, listening, accepting, handlerVars, wireVars, taskVars, histVars, metricsVars>>

\* The connections nobody has accepted are reset.
CloseServer ==
    /\ shutting = "socket"
    /\ shutting' = "done"
    /\ listening' = FALSE
    /\ closed' = closed \cup {p \in Peer : at[p] = "backlog"}
    /\ at' = [p \in Peer |-> IF at[p] = "backlog" THEN "reset" ELSE at[p]]
    /\ UNCHANGED <<running, accepting, worker_conns, task, count, wireVars, taskVars, histVars, metricsVars>>

Hears(p) == Told(p) \/ Disconnected(p)

Next ==
    \/ \E p \in Peer : Connect(p) \/ Hears(p) \/ Leave(p) \/ Accept(p) \/ Handle(p)
    \/ \E n \in Node : Register(n) \/ Poll(n) \/ \E t \in Task : Report(n, t)
    \/ \E c \in Client : SubmitTask(c) \/ \E t \in Task : LookUp(c, t)
    \/ AcceptEnds \/ ShutdownBegins \/ CloseWorkers \/ CloseServer

(***************************************************************************)
(* Threads are scheduled, accept() ends within a second, a message arrives *)
(* and the end of a connection is noticed.  Nobody has to connect, to ask, *)
(* to leave or to begin a shutdown, and closing a connection need not wake *)
(* the thread that waits for a request on it.                              *)
(***************************************************************************)
Woken(p) == (p \in left \/ inbox[p] # Nothing \/ at[p] # "recv") /\ Handle(p)

Fairness ==
    /\ \A p \in Peer : WF_vars(Woken(p)) /\ WF_vars(Accept(p)) /\ WF_vars(Hears(p))
    /\ WF_vars(AcceptEnds) /\ WF_vars(CloseWorkers) /\ WF_vars(CloseServer)

Spec == Init /\ [][Next]_vars /\ Fairness
-----------------------------------------------------------------------------
(***************************************************************************)
(* Only connections with a handler are listed, and until shutdown clears   *)
(* the list it has every node that was told ok and still has its handler   *)
(* (the list is what shutdown closes, head.py:217 and 377-383).            *)
(***************************************************************************)
RegisteredAreListed ==
    /\ \A p \in worker_conns : at[p] \notin {"unconnected", "backlog", "reset", "ended"}
    /\ \A n \in joined :
          (at[n] # "ended" /\ shutting \in {"no", "conns"}) => n \in worker_conns

(***************************************************************************)
(* A task whose end is counted before its submission (head.py:298-299 runs *)
(* after the flush) leaves a submit time behind for ever, and no other     *)
(* does; the running tasks are never too few, so that none is ever shown   *)
(* as pending, and too many by those tasks at most (dashboard.py:45-67).   *)
(***************************************************************************)
MetricsAddUp ==
    /\ Cardinality(submit_times) = Unfinished + Cardinality(overtaken)
    /\ tasks_running - Unfinished \in 0 .. Cardinality(overtaken)
    /\ pending = 0

(***************************************************************************)
(* Once shutdown has begun a handler serves one more request at most: it   *)
(* looks at _running before each (head.py:191-198).                        *)
(***************************************************************************)
OneMoreRequest == \A p \in Peer : late[p] <= 1

(***************************************************************************)
(* Whoever asks is answered or sees the connection end, whatever shutdown  *)
(* closes in between (head.py:188-211); but get_object waits as long as    *)
(* the object is not stored (head.py:232), so for ever if the node that    *)
(* was handed the task has left, or is not handed it or not heard any more *)
(* after shutdown: nothing closes the connection of a client then.         *)
(***************************************************************************)
EveryRequestEnds == \A p \in Peer : []<>(waiting[p] = Nothing \/ Waits(p))

(***************************************************************************)
(* After shutdown the accept loop ends and so does every handler, but      *)
(* those that are already waiting for a request (head.py:168-175 and 192)  *)
(* and those that wait for an object (head.py:232).                        *)
(***************************************************************************)
ShutdownStops ==
    <>[](shutting = "done" =>
            /\ ~ accepting
            /\ \A p \in Peer :
                  \/ at[p] \in {"unconnected", "reset", "ended"}
                  \/ (at[p] = "recv" /\ inbox[p] = Nothing /\ p \notin left)
                  \/ Waits(p))
=============================================================================
