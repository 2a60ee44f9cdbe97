# nano-ray in TLA+

TLA+ specifications of nano-ray, a small reimplementation of Ray: a driver (or a
head node with clients and worker nodes) that accepts tasks, waits for the
results they depend on, hands them to worker processes and stores what they
return. The modules here model that program from its source
(`python/nano_ray/`, `rust/nano_ray_core/`), TLC checks them on small instances,
and TLAPS proves theorems about ten of them for every instance: the two object
stores, the two schedulers, the arguments of tasks, the runtime, the cluster, the actors, the
head's connections and the transport. Every safety property that a run checks, of states or of
steps, is proved, and so are the safety halves of the refinements.

1. [The system](#1-the-system)
2. [The modules](#2-the-modules)
3. [What is checked](#3-what-is-checked)
4. [Where the code and its documents disagree](#4-where-the-code-and-its-documents-disagree)
5. [Fairness](#5-fairness)
6. [What is proved](#6-what-is-proved)
7. [What is not modelled](#7-what-is-not-modelled)
8. [Plan](#8-plan)
9. [Running it](#9-running-it)

## 1. The system

| Component | State | Operations | Talks to |
|---|---|---|---|
| **Object store**, Python (`_fallback/object_store.py`) | `_store`, `_events` (an event per object somebody waits for), a lock | `put`, `get_or_wait`, `get`, `contains`, `delete`, `size` | every thread of the driver or the head |
| **Object store**, Rust (`object_store.rs`) | a concurrent map of objects and one of `Notify` records, a flag and a condition variable each | the same | the same; waits without the GIL |
| **Task scheduler**, Python (`_fallback/scheduler.py`) | `_pending`, `_unresolved`, `_waiting_on` (reverse index), `_ready`, a lock | `submit`, `on_object_ready`, `pop_ready_task` | submitters and collectors |
| **Task scheduler**, Rust (`scheduler.rs`) | the same in concurrent containers | the same | the same |
| **Ownership table** (`_fallback/ownership.py`, `ownership.rs`) | per task: status, lineage; per object: producer, reference count | `register_task`, `task_finished`, `task_failed`, `get_producer_task`, `get_task_lineage`, ... | written by submit and by the collector, read by reconstruct |
| **Single-node runtime** (`driver.py`, `api.py`) | the three above, a task queue and a result queue between processes, `_running` | `submit_task`, `get_object`, `reconstruct_object`, `evict_object`, `shutdown`, the collector thread, the worker loop | user threads, worker processes |
| **DAG utilities** (`dag.py`) | none | `extract_dependencies`, `resolve_args` | runtime, head |
| **Head node** (`head.py`) | store, scheduler, table, connections, `_worker_conns`, `_running`, optional local workers | the accept loop; one handler thread per connection: `register_worker`, `submit_task`, `get_object`, `contains_object`, `poll_task`, `task_result`; `shutdown` | clients, nodes, dashboard |
| **Worker node** (`node.py`) | a connection with a lock, a task and a result queue | `_poll_loop`, `_report_loop`, worker processes, `shutdown` | head |
| **Client** (`remote_runtime.py`) | a connection with a lock | `submit_task`, `get_object`, `contains_object` | head |
| **Transport** (`transport.py`) | a TCP stream | `send_msg`, `recv_msg` | everything remote |
| **Actors** (`actor.py`) | the handle's `_last_ref`, `_call_lock` | `remote`, `ActorMethod.remote` | the runtime |
| **wait** (`api.py`) | none | a polling loop with a deadline | the store |
| **Dashboard** (`dashboard.py`) | counters | `on_*`, an HTTP server | head |

What is hard in it, and what makes each part correct:

* **Object stores.** `put` stores an object under the lock and sets the event of
  its waiters after releasing it; `get_or_wait` waits outside the lock and reads
  the dictionary without it; `delete` may come at any moment, with an event other
  threads sleep on. The Rust store takes no lock across its maps and relies on a
  second look after it has registered. Correct means: a map with an atomic put and a
  blocking get, in which nobody sleeps for an object that is there.
* **Schedulers.** A dependency may be named twice by a task, become available
  before the submit, and be announced many times, by the collector and by every
  later submit. Correct means: each task is released exactly once, when its last
  missing dependency has been announced.
* **Runtime and head.** A dependency may arrive between the extraction of the
  dependencies, `scheduler.submit`, the re-check and the collector's
  announcement; every submit, and the collector, flushes the one ready queue; a
  `get` of a missing object executes its task itself. Correct means: no trigger is
  missed, calls return unless what they need is evicted meanwhile, and every ObjectRef is a
  future, with a single value that is its function applied to the values of its arguments,
  however often it runs.
* **Cluster.** Threads share a connection from request to reply; polls and the
  flush for local workers compete for tasks; the reply to a poll is computed
  while the connection that would report results is busy; a node may stop with
  tasks at any stage. Correct means: a task has one copy somewhere until its
  result is stored, and replies go to the threads that asked.
  While the head shuts down, peers are still connecting, asking and leaving.
  Correct means: whoever asks is told something, or that the connection ended, and every
  thread of the head ends, except where the code waits for an object without a limit.
* **Transport.** A stream delivers bytes in pieces of any size and may end anywhere.
  Correct means: whole messages, in order, and an end that is noticed.
* **Actors.** An actor is a chain of state tasks built by threads that call its
  methods. Correct means: the calls run one at a time on the state the previous
  one left, in the order of their submission, whatever the order in which
  their arguments arrive.

`PROJECT.json` lists all these hazards at their lines, with the properties that
cover each, or the reason why none does.

## 2. The modules

```
TaskFunctions        what a task computes from the values of its arguments
  Futures            abstract: every ObjectRef resolves once, to the right value
  OwnershipTable     the lineage and the status of every task
  CallStack          the frames of a thread inside submit, flush, get, reconstruct

BlockingMap          abstract: a map with a blocking get
  ^ ObjectStore, ObjectStoreThreads        the Python store, and threads that use it
  ^ RustObjectStore                        the Rust store

Scheduler, SchedulerCallers                the Python scheduler, and callers that use it
RustScheduler                              the Rust scheduler and its callers, with the
                                           constants of SchedulerCallers
Dag                                        dependencies and resolution of nested arguments

Futures ^ Runtime    = CallStack + ObjectStore + Scheduler + OwnershipTable
                       + collector + workers + api.wait
  RuntimeCalls       Runtime with the history of what was evicted during each call
Futures ^ Cluster    = CallStack + ObjectStore + Scheduler + OwnershipTable
                       + head + nodes + clients
SequentialObject ^ Actor

HeadService          = DashboardMetrics + connections of the head, and its shutdown
Channel ^ Transport    bytes on a connection, and the whole messages they are

ObjectStoreProofs, RustObjectStoreProofs, RuntimeProofs, ClusterProofs, ActorProofs
                                           theorems about the module of that name
HeadServiceProofs                          theorems about HeadService and Transport
SchedulerProofs                            theorems about both schedulers and Dag
SequenceElements                           lemmas: elements and parts of sequences,
                                           induction, functions defined by recursion
```

(`^`: is shown to implement.) `MC*` modules give values to constants; two of them,
`MCScheduler` and `MCHead`, also put several specifications into one run: a behaviour
is one of one of them, chosen at the start (`part`), with the variables
of the others unchanged and the fairness their modules state. `MCRuntimeLive` chooses the number
of tasks at the start, and lets the more threads take part the fewer tasks there are.

### Object store: `ObjectStore`, `ObjectStoreThreads`

| In the code | In the model |
|---|---|
| `_store` | `store` (`Absent`: no entry) |
| `_events[o]`, the event of an object, and the threads waiting on it | `waiting[o]`, the set of threads registered on the present event |
| a thread inside `event.wait` | `blocked[t]`, the object it waits for; `woken` when its event is set |
| an event `put` has looked up and not yet set | `signalling[t]`, the threads on it |
| `put`: the locked part, then `event.set()` | `PutStore`, then `PutSignal` |
| `get_or_wait`: the locked look and registration; the wait; the unlocked read | `StartWait`; `woken`; `EndWait` |
| `event.wait` returning False | `TimeoutWait` |
| `delete` | `Delete` |

`ObjectStore` holds the state and the operations, for any module that has a store;
`ObjectStoreThreads` lets threads call them in any order. Objects that some
thread may delete are separate from those nobody deletes (`Deletable`), as most
of what is promised holds for the latter only; section 4 has what happens to the others.

### Rust object store: `RustObjectStore`

One step per access to one of the two maps: `put` inserts the object (`Put`), then looks
up the `Notify` of the object and sets its flag (`Notify`); `get_or_wait` looks,
gets or creates the `Notify`, looks again, waits until the flag is set or the timeout
expires, and reads (`Look`, `Register`, `Check`, `Wait`, `TimeOut`, `Read`); `delete`
removes the object, then the `Notify`, which its waiters keep (`Delete`, `Drop`). The
GIL is not assumed, so everything may run between two of these steps.

### Scheduler: `Scheduler`, `SchedulerCallers`

`SchedSubmit`, `OnObjectReady` and `PopReady` are whole methods. A submit with dependencies
and `on_object_ready` hold `_lock` from beginning to end; a submit without any and
`pop_ready_task` are one operation of the thread-safe `_ready_queue`, without `_lock`. So one of the latter
may come between two puts of an `on_object_ready` (scheduler.py:54-57), in the model
only before or after all of them. Such a put adds an unrelated task, whose place among those being
released is then another one; such a get finds a task that was put before, as it would after the last put.
Nothing else looks at the queue (`has_ready_tasks` is called by nobody), and no
property is about the order of unrelated tasks. `waitingOn` keeps the duplicates the code keeps.
`SchedulerCallers` submits every task at any time with every list of
dependencies the instance has, announces any object any number of times, pops,
and keeps in `announced` which of its dependencies have been announced since a
task was submitted.

### Rust scheduler: `RustScheduler`

Callers are in the middle of calls (`call`): `submit` inserts the task (`Submit`) and
then appends it to the list of one dependency after the other (`Index`);
`on_object_ready` removes a list (`Announce`) and for each task in it removes the object from what
it lacks (`Look`), removes the task from `pending_tasks` if that was all and it is still
there (`Take`), and queues it (`Push`). Under the GIL most of these interleavings do not
happen; the properties hold with all of them. As an announcement may be
in progress while a task is submitted, "released when its dependencies are announced"
has two sides (`ReleasedOnTime`): not before each was announced since the submit began
(`heard`), and not kept once each was since it returned (`announced`).

### Arguments: `Dag`

A value is a record with one field, an ObjectRef, the value of one, a list, a
dictionary, or an object neither function looks into. `collected` and `resolved` are
`_collect_refs` and `_resolve`, and `nested` is what a program can build of ObjectRefs and
objects with that many containers around one another, so the recursion of both is over
`Value`, the values up to `Depth`. `Extract`, `Resolve`, `Return` are the calls of them for
one task after the other: `Call` is any set of calls, and in the run every value of the bounds
is the argument of one.

### Single-node runtime: `Runtime`

Every user thread and the collector has a stack of frames (`CallStack`), each a
point of `submit_task`, `_flush_ready_tasks`, `resolve_args`, `get_object` or
`reconstruct_object` between two accesses to shared state.

| In the code | In the model |
|---|---|
| `submit_task` up to `scheduler.submit` | `SubmitTask` |
| `for did in dep_ids: if contains(did): on_object_ready(did)` | `Recheck`, `Announce` |
| `_flush_ready_tasks` | `FlushNext`, `ResolveArg` (with `Block` when it must wait), `SendTask`, `FlushDone` |
| `get_object`, `reconstruct_object`, `api.reconstruct` | `GetObject`, `RebuildDep`, `ResolveArg`, `SendTask`, `EndCall`, `Reconstruct`, `GetRebuilt` |
| `evict_object` | `EvictObject` |
| `wait` | `Wait`, `WaitLook` (an object at a time, then the end of the round), `DeadlinePasses` |
| a `KeyError` out of the unlocked read | `RaiseKeyError`, which ends the collector thread |
| `_worker_loop` | `TakeTask`, `ReportResult` |
| `_collect_results` | `CollectResult`, `SetEvent`, `Finished` (status and announcement) and the flush, or `Failed`; `CollectorExit` |
| `shutdown` | `Shutdown`, `Terminate`, `ShutdownReturn` |

A user thread submits tasks whose arguments are any ObjectRefs it has: TLC goes
through every DAG of `MaxTasks` tasks with at most `MaxArgs` arguments each,
duplicates included. `Fails` is the set of tasks whose function raises. A value
is the tree of applications that produced it (`TaskFunctions`), so that a wrong,
missing or swapped argument shows in it.

A thread evicts between its calls, so evictions in the middle of a call are those of other
threads. `RuntimeCalls` adds `lost`, the objects evicted since each thread
began the call it is in, which is what `CallsReturn` has to know: `Stranded` is a thread that sleeps for
an object it lost, or that its flush took for announced, and that nobody is computing, or on an event
that `delete` has dropped (`Forgotten`).

### Cluster: `Cluster`

The head with a handler thread per connection and a pool of local workers, nodes
with a poller, a reporter and a pool of processes each, and clients whose
threads share a connection. A channel is a sequence of whole messages. `Send`
takes `_conn_lock` and sends; the lock is kept until the reply is taken
(`sent[k]` holds the thread that has it). The store and the scheduler of the head are
the ones of `Runtime`, with its threads for users (handlers and the collector of the
local workers); nothing is ever deleted on the head. `Stop(n)` stops a node at any point: its connection
closes, and its queues and processes go with it.

### The head's connections: `HeadService`, `DashboardMetrics`

Where `Cluster` has what requests do to the store and the scheduler, `HeadService` has
what connections go through: `Connect`, `Accept`, then the loop of
`_handle_connection` (`Loop`, a `Recv...` action for each request with the first thing it
reads or changes, what the request tells the dashboard, `Reply`, and `End`, its `finally` clause);
and `shutdown` with the steps that others can see (`ShutdownBegins`, `CloseWorkers`,
`CloseServer`). Peers ask one thing at a time, as `_conn_lock` makes them.
A poll is handed a task or none (`RecvPoll`), and the node reports what it was handed and has not
reported (`held`). `get_object` is the one request whose handler may wait, as it has no timeout and
does not look at `_running`: `Waits(p)` until the object is stored, then `Get`. (A poll also
calls `get_or_wait`, for the arguments of a ready task, but these are in the store:
`ReadyArgsInStore` of `Cluster`.)
`DashboardMetrics` has the methods of that class, one step each. What the handler measures without a
lock, the length of the list and the size of the store, it publishes in a later
step (`Measure`, `Publish`).

Closing a connection from `shutdown` does not wake the handler that is in `recv` on it:
it ends when a request comes, as its next `recv` fails (`RecvEnds`), and until then
its peer is not told either.

### Transport: `Transport`, `Channel`

One direction of a connection. A message is a sequence of bytes, digits to a small
base; `pack` and `unpack` are the header, written and read digit by digit (`packed`,
`unpacked`), and the limit is below the first number too large for it (`places`). `sendall` writes any part, `Chunk` is one `recv` of any part, which
`recv_exact` puts together, and `Break` ends the connection anywhere and loses any end of
what is on the wire. `Channel` is the sequence of whole messages; the messages in flight
are parsed from the bytes received, on the wire and not yet written.

### Actors: `Actor`, `SequentialObject`

`_call_lock` is held while a call reads `_last_ref` (`Acquire`), submits its state task
and stores its ref (`Chain`), and submits the task that extracts the return value
(`Extract`, which releases the lock). The runtime appears as what `Futures` promises
of it: a task runs once its arguments are resolved. `SequentialObject` is an object on
which calls take effect one after the other, in an order fixed while they are
made; a call that raises is followed by calls that fail, and if `__init__` raises (`Create` with
`Error`) they all do.

## 3. What is checked

Bounds are constants in the `.cfg` files. Three threads are enough for a waiter, a
putter and a deleter to meet in the store, and for two waiters to share an event;
three tasks give chains, and with two arguments shared and repeated ones; two
user threads give two submitters that flush each other's tasks, with the
collector as the third, and one that evicts what the other has just looked for: between
`Recheck` and `Announce`, or the check of `RebuildDep` and the wait for its object.

| Run | Instance | Shows |
|---|---|---|
| `object_store` | 3 threads, an object that is deleted and one that is not, two values | `NoLostWakeup`: no put misses a waiter of an object nobody deletes. `AvailableWhenWoken`: its unlocked read finds it. `BlockingMapSafety`, `BlockingMapLive`: the two-step put and the unlocked read implement an atomic blocking map. |
| `rust_object_store` | 3 threads, the same two objects, one value | `NoMissedNotification`: the second look after registering is enough. `BlockingMapSafety`: it implements the same map. |
| `scheduler` | 3 tasks, 2 objects, dependencies with a repetition; for the Rust one 2 tasks and 2 callers; arguments two containers deep, with up to 2 entries each | `OnePlace`: a task is pending, ready or handed out, once. `PendingIffMissing`: pending exactly while a dependency was not announced since its submit. `IndexComplete`: the reverse index finds it. `CompleteTasksAreHanded`. Of the Rust scheduler, with calls in progress: `RustOnePlace`, the same with the hands of callers, and `RustReleasedOnTime`, neither too early nor too late. `ResolvesWhatItExtracts`: resolution asks for exactly the dependencies that were found. |
| `runtime` | 2 user threads, the collector, a worker, 2 tasks with up to 1 argument, an eviction, timeouts; then also a wait, a shutdown, or a third task, which raises, but then no two users are in a call at once (state constraint `Focus`); up to 3 messages in the two queues (`MaxQueued`) | `NoMissedTrigger`; `StatusFollowsValue`: the ownership table says of a task what its value says, and never first; `FuturesSafety`: the runtime implements `Futures`, also when a task is executed again. |
| `runtime_live` | 2 user threads, the collector, a worker, tasks with up to 1 argument, task 2 raises. Three tasks: one thread calls submit, get and reconstruct, with a shutdown or, between its calls, an eviction once every task has its result. Two: it also calls wait, one of the two calls for more than there is, and the other thread evicts at any moment. One: both threads submit, get, reconstruct, and one evicts at any moment | `ReadyArgsInStore` until the eviction, and `FuturesLive` until the eviction or the shutdown: arguments of ready tasks are there, and every task that does not depend on a failure gets its result, though nobody asks for it. `WaitCountsOnce`: wait neither loses nor repeats an ObjectRef. `CallsReturn`, with the eviction too: every submit, get, reconstruct and wait returns, unless it sleeps for what was evicted after it looked (`Stranded`), the collector has ended or sleeps for such an object (`NobodyStores`), or a wait without deadline asks for what nobody computes (`InVain`). |
| `cluster` | a client, a head with a local worker, a node that may stop, all DAGs of 3 tasks with up to 2 arguments, task 2 raises | `OneCopy` (a task is never in two places, and in none only after a stop), `ReadyArgsInStore`, `NoMissedTrigger`, `CallersGetTheirReply`, `FuturesSafety`. Results arrive in any order, from two pools. |
| `cluster_live` | a client with 2 threads, a node, 2 tasks | `FuturesLive`, `CallsReturn`. |
| `actor` | 3 callers, 4 calls, the third raises, `__init__` may | `OneChain`, `ActorIsSequential`: it implements `SequentialObject`. `CallsAnswered`: a call that does not come after a failed one or a failed `__init__` gets its result. |
| `head` | a node and a client, both of which may leave, 2 tasks, the second raises, a shutdown at any time; for the transport 4 messages of 1 to 3 bytes, the limit being 2 | `RegisteredAreListed`: the list that shutdown closes has the live nodes and only them. `MetricsAddUp`: how far the counters can be off. `OneMoreRequest`: a handler serves at most one request after shutdown has begun. `EveryRequestEnds`: who asks is answered or sees the end of the connection, unless it gets an object that is never stored. `ShutdownStops`: the accept loop and the handlers end, but the handlers of such gets and of idle peers. `ImplementsChannel`: the transport implements the channel, its end included. |

Deadlock is checked, except where the system may really stop: a runtime that is
shut down or whose collector an eviction ended, a client that waits for a task a
stopped node took with it, an actor that has made all its calls, a head that is
shut down, a connection that has ended.

In the liveness run two threads call get and reconstruct at the same time only where there is one
task, so whether two rebuilds of a task with arguments both return while something is evicted is
beyond it; that their values are right is checked in `runtime` and proved for any number of threads.

Symmetry is used for threads in two runs without liveness properties
(`runtime`, `rust_object_store`). `runtime` is the only run with a state constraint: it has no
liveness property either.

Each property was also checked to fail for a plausible bug in the code
(`PROJECT.json`, "mutants"; the changed definitions stand in the modules, marked
"Mutant"), such as a missing re-check in `submit_task`, an event that is looked up
and not set, a request sent without the connection lock.

## 4. Where the code and its documents disagree

In three runs TLC finds a behaviour of the code that a comment, a docstring or a test
excludes.

| Run | The claim | What happens |
|---|---|---|
| `store_wakeup` | `put` wakes up "any waiters" (object_store.py:29) | `delete` drops the event other threads sleep on; the next put does not find it. |
| `shutdown_drain` | the collector drains remaining results (driver.py:150) | It ends when it finds its queue empty, though a worker may still be running. |
| `cluster_failed` | errors reach the client (test_cluster.py:82) | Not for a task submitted before its argument failed: nothing announces the failure, and its get never returns. |

Other behaviours the models have and a reader of the documents would not expect:

* The timeout of `get` (api.py:165) bounds its last wait only, not those of the rebuild it
  may start before (driver.py:238): with a function that does not return, neither does get.
* An eviction between the check of a dependency and its announcement
  (driver.py:219-220), or between the collector's put and its announcement, makes a
  task ready whose argument is missing, against driver.py:311-313. The thread that
  flushes it, maybe the collector, waits for an object nobody rebuilds. So
  `ReadyArgsInStore` speaks of the time before the eviction, and `CallsReturn` excepts that
  thread (`Stranded`), and all of them if it is the collector (`NobodyStores`).
* `get` and `reconstruct` execute again what they find missing, but each looks first and
  waits later: for a dependency (driver.py:276, then 288), for the object itself (235, then 240, and
  292, then 295). What another thread evicts in between is not executed again, and
  the wait never ends, although the function is there and the object
  could be computed; `get` with a timeout too hangs in the first case. `CallsReturn` excepts these
  (`Stranded`), and shows that there are no others.
* A task whose argument was evicted before it was submitted stays pending until
  somebody gets it: nothing announces the argument, and only `get` rebuilds
  (`FuturesLive` too speaks of the time before the eviction, and before a shutdown).
* `wait` without a timeout loops for ever if `num_returns` is more than it can get: more than it has,
  or objects that were evicted, which it does not rebuild, or whose task never becomes
  ready because an argument raised (`InVain`).
* A delete between the wake-up and the unlocked read raises `KeyError`
  (object_store.py:57-58), which ends the collector if it is the reader
  (`RaiseKeyError`).
* `get` of an object that is still being computed executes its task again:
  `reconstruct_object` does not tell an evicted object from one not computed yet
  (driver.py:235). `FuturesSafety` shows that the value is the same.
* `_poll_loop` takes every task that is ready, however many it has queued
  (node.py:140), where docs/design.md:299 has workers "self-regulate based on their
  capacity". `Cluster!PollReturn` has no bound either.
* `delete` returns False for a stored `None` (object_store.py:67).
* On the dashboard no task is ever pending: all that are not running count as
  running from their submission (dashboard.py:45-51, `MetricsAddUp`). A task that ends before
  its submission is counted (head.py:298) leaves an entry in `_task_submit_times` for
  ever, and may make `tasks_running` too large for ever. The worker count stays as it is when a node leaves
  (head.py:202-205), and of two handlers that publish a count the slower may publish
  the older one.
* `shutdown` of the head closes the connections of nodes, not those of clients, and a
  handler that waits for a request is not woken: it and its peer notice with the next
  request (`ShutdownStops` excepts idle handlers, `EveryRequestEnds` does not).
* A client in `get_object` may wait for ever (head.py:232): when the node that was handed the task
  has left, and after a shutdown of the head whenever the result is not there yet, as the nodes are
  disconnected, the local workers and their collector end (head.py:165) and nothing wakes the handler or
  closes its connection. The client holds its connection lock meanwhile. `EveryRequestEnds` and
  `ShutdownStops` except this (`Waits`).
* A result larger than the limit of the transport ends the reporter of its node
  (node.py:160-163 does not catch the ValueError of transport.py:42), while the poller
  goes on taking tasks.
* No task ever has the status `WAITING_FOR_DEPENDENCIES` or `RUNNING`.

## 5. Fairness

Nobody has to call anything: submit, get, put, evict, announce and stop carry no
fairness. Weak fairness is assumed of each thread or process that is inside a call or a
loop (the operating system schedules it, a sleeping thread whose event is
set wakes up, a worker whose function returns goes on), of the reception of messages
on an open connection, and of a timeout.
On the head the accept loop runs, and ends with the timeout of its socket; a handler goes on
when there is something to receive or its peer has left. Nobody has to connect, ask, leave
or shut down.

Properties of the form "from some time on, no finished work is still waiting" are written `<>[]`:
what they speak of (tasks submitted, shutdowns begun) is bounded, so this is the
same as an answer to each, and is checked once instead of once for each.

The Rust store is checked for safety only; `NoMissedNotification` is the safety side of
what its sleepers need.

Strong fairness is assumed of two locks for which several threads compete in a loop:
`_conn_lock`, as the poller of a node sleeps 50 ms without it after each poll
that found no task (`node.py:140-150`) and threads of a client do not call back to
back for ever; and `_call_lock` of an actor, held for two submits, of which each thread makes a bounded
number here.

## 6. What is proved

For every set of threads, callers, objects, values, nodes and clients, every finite set
of tasks, every set of lists of dependencies and every number of calls: what is a bound
in a run is none here.

**`ObjectStoreProofs`.** `StoreTypeOK`, `StoreNoLostWakeup`, `StoreAvailableWhenWoken`
and `StoreRefinesBlockingMap` (the run's `BlockingMapSafety`). `NoLostWakeup` is not
inductive by itself: it does not say that a thread registered on an event is one
that sleeps for that very object, nor that an event somebody is about to set is of
an object that is stored. The inductive invariant `StoreInv` adds both
(`WaitersBlocked`, `NotifiedBlocked`) to the type invariant; each action is a step
of the proof that it is preserved, and the three properties follow. The
refinement maps the store to the map and the blocked threads to the waiting
ones; every step of the store is a step of the map or a stutter.

**`RustObjectStoreProofs`.** `RustStoreTypeOK`, `RustNoMissedNotification`,
`RustAvailableWhenNotified` (the read after the flag finds the object) and
`RustStoreRefinesBlockingMap`. Here the interleavings are at single accesses to the
maps, and the inductive invariant `RustInv` says what each holder of a `Notify` may
rely on: one that is no longer in the map is of an object somebody deletes
(`OrphansDeletable`), only such objects are in the second half of a `delete`
(`DropsDeletable`), and a flag is set, or about to be, after the object was stored
(`FlagMeansStored`).

**`SchedulerProofs`.** Of the Python scheduler: `SchedulerOnePlace`, `SchedulerPendingIffMissing` and
`SchedulerIndexComplete`, from one inductive invariant, `SchedInv`: the three of
them, the type invariant, and `FreshUnannounced`, which says that nothing has been
announced to a task not yet submitted.
`PendingIffMissing` needs `IndexComplete` (an
announcement finds the tasks through the reverse index) and `OnePlace` needs the
queue to have no repetition, so the parts are inductive only together.

Of the Rust scheduler: `RustSchedulerOnePlace` and `RustSchedulerReleasedOnTime`. No lock says that somebody
releases a task, so `RustSchedInv` follows each object a pending task lacks: the task is in its
list, or in a list some call is going through, or still to be put there by its
submit (`Findable`). Who removes the last one is about to take the task
(`EmptyIsTaken`), nothing is removed that was not announced (`RemovedWasHeard`), and an
announcement after the submit leaves nothing in the list (`AnnouncedIsGone`). `ReleasedOnTime`
follows from these.

Of `Dag`: `DagResolvesWhatItExtracts`, for arguments of any width and depth. Its
invariant is short (`DagInv`: the arguments of the call in progress are values, and the other
two variables are what the two functions make of them); the work is the lemma that for every value the `get_fn` calls made
while resolving it are the ObjectRefs collected from it, in the same order
(`GivenAreCollected`), by induction on the depth. Before anything can be said of
`nested`, `collected`, `resolved` or `given`, each must be shown to exist: a recursive function
is *some* function that satisfies its equation, if there is one (`NestedDefined`,
`CollectedDefined`, `ResolvedDefined`, `GivenDefined`). `GivenDefined` needs more than the
shape of the recursion: what reads off the calls must also be defined on what resolving
made of containers, so it rests on `ResolvedKinds`: a list stays a list, a dictionary a dictionary.

**`ActorProofs`.** `ActorOneChain` and `ActorImplementsSequentialObject` (`ActorIsSequential`). The
lock shows in `ActorInv` as `HolderHasEnd`: who has read `_last_ref` and not yet chained its
task still has the end of the chain. With `UnderWayUnchained` (its task is not in the chain),
`EndIsLast` and `NoFork` that is inductive. For the refinement, `OrderInv` says that the chain is
the order in which the state tasks were submitted (`order`, a history variable, is the
log of the sequential object), and `StateInv` that what each has resolved to is what the calls up
to it make (`Made`, by `MadeNext` what the one before it made and one call more; nothing is made
before `__init__` ran): so a result that appears is the answer the log gives.

**`HeadServiceProofs`.** `HeadRegisteredAreListed`, `HeadOneMoreRequest` and
`HeadMetricsAddUp`. A node knows that it
is listed from a reply, so `HeadInv` follows a request from the peer to the handler and back
(`OneRequest`, `ListedBeforeTold`), and says of every listed connection that its
handler has not ended (`ListedAreServed`) and of a late request where its handler is (`LateOnce`).
The counters are the sizes of sets of tasks: those counted, those whose end was counted before
their submission, and those still being counted by some handler. `MetricsInv` says which
task is in which (`TaskSets`), that a task that was handed out is held by one node or in its report
(`ReportedOnce`) and that no two handlers count the same task (`CountedOnce`,
which needs `OneRequest`); `MetricsAddUp` is then arithmetic on cardinalities.

Of `Transport`: `TransportImplementsChannel`, the refinement of `Channel` without its liveness
(`ChannelSafety`), for any base, any size of the header, any limit that fits into it, any
messages and any number of sends. The steps, from the numbers up:

* `UnpackedPacked`: the header of any length below `places[HeaderSize]` has `HeaderSize` bytes and
  is read back as that length.
* `Streams`, the sequences of whole messages, is the smallest set with the empty one that is closed
  under one more message (`StreamsExtend`, `StreamInduction`). A stream starts with a
  message and goes on as a stream (`StreamStart`), its messages come before those of what is
  written after it (`StreamThen`), and of a stream that is cut anywhere the first messages are left
  and nothing that looks like another (`StreamPart`, with `PartIsNotWhole`).
* The invariant is `TransportInv`. What is in flight (header and data received in part, the wire,
  the unsent) is a stream as long as the connection is open; after its end it is the beginning
  of one (`Grows`). It is not enough that it parses into messages: the reader must stand where a
  header starts, and the header it has read must be one that was written (`HeaderRight`, so
  that `recv_msg` never raises). Both follow as what was received of a message is part of
  what is in flight until its last byte is read (`MessageRight`).
* Each action then is a step of the channel or changes nothing it shows: a message taken by
  `send_msg` is put, the last byte of one gets it (`TransitGiven`), the end of the connection loses
  the last ones (`TransitCut`), and an end of the stream in a header or in the data is noticed
  with nothing left to get (`TransitEnded`); a message refused as too large, and all other
  pieces of bytes, are stutters.

**`RuntimeProofs`.** `RuntimeTypeOK`, `RuntimeTriggers` (`NoMissedTrigger`), `RuntimeStatus`
(`StatusFollowsValue`), `RuntimeArgsInStore` (`ReadyArgsInStore`), `RuntimeWaitCounts`
(`WaitCountsOnce`) and `RuntimeFutures` (`FuturesSafety`), all from one inductive invariant,
`RuntimeInv`:

* `TaskInv`: the tasks submitted are an initial segment of the ids, and arguments and references are
  of tasks submitted.
* `ValueInv`: what the store has is what was produced; that, and every payload and result in a
  queue or with a worker, comes from the values of the task's arguments, each of which has been produced.
* `StackInv`: what each frame of a user thread or of the collector may rely on, and which calls may
  have others inside them: how far `resolve_args` has come (`Partial`), how the list
  given to `wait` is sorted (`WaitOK`, counted by `Times`), that what a thread announces
  has been produced.
* `SleepInv`: a thread sleeps only for the object its call needs next, and only sleepers are on events.
* `SchedInv`: what a pending task does not lack has been produced, and through what it lacks
  the reverse index finds it; the arguments of a ready task have all been produced.
* `NoMissedTrigger` itself, and `StatusInv`: the status is that of the value, unless the collector
  is just recording it.

Evictions are why these parts speak of `produced`, the history of the values, rather than of
the store: an object may leave the store between any two steps, but what has been
produced stays produced with the same value (`Grows`), so most of each part carries over a
step at once. The store comes back where a property is about it: `ReadyArgsInStore`
follows as without evictions the two are equal, and a trigger is owed only while the
object is there, so that an eviction ends the duty as it takes the object; a thread that a
`KeyError` ends had none, as a sleeping thread owes no announcement. Each action has a lemma; `ThreadMoves` and
`OutsideMoves` have what the steps of one thread, and those of workers, have in common. TLC
checked `RuntimeInv` on instances like those of the runs before it was proved. The one
assumption the proofs added to `RuntimeAssumption` is that there are finitely many workers, which
`shutdown` needs to send each a sentinel.

**`ClusterProofs`.** `ClusterTypeOK`, `ClusterRepliesMatch` (the run's
`CallersGetTheirReply`), `ClusterArgsInStore`, `ClusterTriggers` (`NoMissedTrigger`),
`ClusterFutures` (`FuturesSafety`) and `ClusterOneCopy`. Five of them need the same inductive
invariant, `ClusterInv`, as none of its parts is inductive without the others:

* `TaskInv`: the tasks submitted are an initial segment of the ids, and there is an
  id left for each request to submit one that is still on its way (`Asking`); arguments and
  references are of tasks submitted.
* `ValueInv`: every payload and every result, in the store, in a queue, with a worker or on the
  way, was computed from the values of the task's arguments, all of which are in the
  store, where they stay.
* `StackInv`: what each frame of a handler thread may rely on, and in which order frames
  may lie on each other; `Partial` is how far `resolve_args` has come.
* `WireInv`: the thread that has sent a request owns its connection until the reply, and the
  request is on its way, being served, or answered: exactly one of the three.
* `SchedInv`: a pending task lacks only objects through which the reverse index finds it, and has all others;
  a ready task has all of them.
* `NoMissedTrigger` itself.

Nothing leaves the store of the head and no task changes its arguments (`Grows`), so most of
this carries over a step at once; each action has a lemma for what it does to the
one frame, connection and pool it touches. `FuturesSafety` is a refinement: every step creates a
future with arguments created before, resolves one with the value of its function, or stutters.

`OneCopy` needs a second invariant, `OneInv`, inductive in the presence of `ClusterInv`: the ten
kinds of places a task may be in (`In`), that it is in one of them (`Alone`, and `NoneLost`
while no node has stopped), and there once (`OnceEach`: no repetition in the ready queue, a task
queue, a pool of workers or a result queue). Most steps move no task (`Unmoved`), some take one
from one place to the next (`Moved`), and a stop loses what a node had (`Lost`). `OneCopy` counts places;
that there is at most one follows at the end.

**`SequenceElements`** has the lemmas these proofs rest on: what `Append`, `\o`, `Tail` and
an arrangement of a set do to the elements of a sequence and to its having no repetition; what is left
of two sequences put together when they are cut elsewhere (`LaterCut`); and induction.
The induction theorems of the library have an operator for the predicate, which the provers
cannot instantiate. A set can stand for it: `LeastNumber` and `InductionOnSet` follow
from the well-foundedness of `<`. With them `LinearRecursion` and `NumberRecursion` show that a
function defined by recursion exists and satisfies its equation, when each step goes to something
smaller. So recursive functions can be proved about; RECURSIVE operators cannot, and no module has any.

The proofs assume of the constants only the named assumptions of the modules, which
TLC evaluates in each run.

Only model-checked is what needs fairness, which is beyond the provers (as is ENABLED):
`BlockingMapLive`, `CompleteTasksAreHanded`, `FuturesLive`, `CallsReturn`, `CallsAnswered`,
`EveryRequestEnds`, `ShutdownStops`, and the half of `ImplementsChannel` that says that messages
arrive and the end is noticed (`Chan!Live`). The three runs that show a disagreement with a document
have nothing to prove.

## 7. What is not modelled

* Dictionaries are the sequence of their values, sets and other types opaque objects: so they
  are to `dag.py`.
* The reference counts of the ownership table and its Rust version: nothing in the program calls
  `add_ref`, `remove_ref` or `get_task_status`, and the Rust methods are the Python ones
  with one access each.
* Serialisation, and what a node does after a result above the size limit (section 4).
* The death of a worker process by itself (the code does not notice it), and of the head (its
  state is in memory and nothing reconnects).
* The dashboard's times, histogram, HTTP server and page: they read the counters and
  change nothing.
* The command line, start methods of processes, the Rust serializer and bindings: no
  protocol.

## 8. Plan

Built so far, the most important behaviour first: the object stores, the schedulers and
the proofs about them; the runtime that composes them, with the ownership table and
`wait`, and the cluster, with the proofs of all their safety properties; actors, with the proof that
they are sequential objects; nested arguments; the head's connections, dashboard counters and
shutdown, with the proofs of their invariants; the transport, with the proof that it
implements a channel of whole messages.

Next, modules: results above the size limit in `Cluster`, with a reporter that ends;
the connections of `HeadService` under the requests of `Cluster` in one module, if its instances
stay small enough.

Then theorems about these, on top of `ClusterInv` and `HeadInv`.

## 9. Running it

```
tlc -config MCRuntime.cfg MCRuntime        # any .cfg, with the module of its name or
                                           # the one PROJECT.json names for the run
tlapm ObjectStoreProofs.tla                # and every other *Proofs.tla, SequenceElements.tla
```
