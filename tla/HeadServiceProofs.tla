-------------------------- MODULE HeadServiceProofs --------------------------
(***************************************************************************)
(* Proofs about HeadService, for any sets of nodes and clients and any     *)
(* bounds.  That a node which was told ok is listed needs the whole way of *)
(* its request: it is listed by the handler before the reply is sent and   *)
(* read (ListedBeforeTold), and the reply is to this request and no other  *)
(* (OneRequest).  OneMoreRequest needs to know where the handler is, and   *)
(* MetricsAddUp which tasks the metrics have counted so far.               *)
(*                                                                         *)
(* The second half is about Transport: the bytes under these connections   *)
(* implement a channel of whole messages.                                  *)
(***************************************************************************)
EXTENDS HeadService, Transport, SequenceElements

\* A handler between a request and its reply.
Busy == {"listed", "workersCounted", "flushed", "put", "completed",
         "objectsCounted", "get", "reply"}
Serving == Busy \cup {"loop", "recv"}
Label == Serving \cup {"unconnected", "backlog", "reset", "ended"}
Command == {"register_worker", "submit_task", "get_object", "contains_object",
            "poll_task", "task_result"}

HeadTypes ==
    /\ at \in [Peer -> Label]
    /\ waiting \in [Peer -> Command \cup {Nothing}]
    /\ outbox \in [Peer -> {"ok", "done", Nothing}]
    /\ inbox = [p \in Peer |-> inbox[p]]
    /\ late \in [Peer -> Nat]
    /\ running \in BOOLEAN
    /\ joined \subseteq Peer

\* A peer that waits has its request on the way, at the handler or answered,
\* and one that does not wait has none.
OneRequest ==
    \A p \in Peer :
        /\ p \in left => waiting[p] = Nothing /\ outbox[p] = Nothing
        /\ p \notin left =>
              /\ waiting[p] = Nothing =>
                    inbox[p] = Nothing /\ outbox[p] = Nothing /\ at[p] \notin Busy
              /\ inbox[p] # Nothing =>
                    outbox[p] = Nothing /\ at[p] \notin Busy /\ waiting[p] = inbox[p].cmd
              /\ outbox[p] # Nothing => at[p] \notin Busy

\* The handler lists the node before it replies.
ListedBeforeTold ==
    \A p \in Peer :
        /\ \/ p \in joined \/ outbox[p] = "ok"
           \/ waiting[p] = "register_worker" /\ at[p] \in Busy
        /\ at[p] # "ended" /\ shutting \in {"no", "conns"}
        => p \in worker_conns

ListedAreServed == worker_conns \subseteq {p \in Peer : at[p] \in Serving}

LateOnce ==
    \A p \in Peer :
        late[p] = 0 \/ (~ running /\ late[p] = 1 /\ at[p] \in Busy \cup {"loop", "ended"})

HeadInv == HeadTypes /\ OneRequest /\ ListedBeforeTold /\ ListedAreServed /\ LateOnce

LEMMA HeadInit == Init => HeadInv
BY HeadAssumption
DEF Init, HeadInv, HeadTypes, OneRequest, ListedBeforeTold, ListedAreServed, LateOnce,
    Busy, Serving, Label, Command

LEMMA HeadInvImplies == HeadInv => RegisteredAreListed /\ OneMoreRequest
<1> SUFFICES ASSUME HeadInv PROVE RegisteredAreListed /\ OneMoreRequest
  OBVIOUS
<1>1. RegisteredAreListed
  BY DEF HeadInv, HeadTypes, ListedBeforeTold, ListedAreServed, RegisteredAreListed,
         Busy, Serving
<1>2. OneMoreRequest BY DEF HeadInv, HeadTypes, LateOnce, OneMoreRequest
<1>3. QED BY <1>1, <1>2
-----------------------------------------------------------------------------
(***************************************************************************)
(* The peers.                                                              *)
(***************************************************************************)
LEMMA ConnectInv ==
    ASSUME NEW p \in Peer, HeadInv, Connect(p)
    PROVE  HeadInv'
<1> USE HeadAssumption DEF Connect, Goto, listenVars, wireVars, histVars, HeadInv
<1>1. HeadTypes' BY DEF HeadTypes, Label, Serving
<1>2. OneRequest' BY DEF HeadTypes, OneRequest, Busy
<1>3. ListedBeforeTold' BY DEF HeadTypes, ListedBeforeTold, Busy
<1>4. ListedAreServed' BY DEF HeadTypes, ListedAreServed, Serving, Busy
<1>5. LateOnce' BY DEF HeadTypes, LateOnce, Busy
<1>6. QED BY <1>1, <1>2, <1>3, <1>4, <1>5

LEMMA AskInv ==
    ASSUME NEW p \in Peer, NEW cmd \in Command, NEW t, HeadInv, Ask(p, cmd, t)
    PROVE  HeadInv'
<1> USE HeadAssumption DEF Ask, listenVars, handlerVars, histVars, HeadInv
<1>1. HeadTypes' BY DEF HeadTypes
<1>2. OneRequest' BY DEF HeadTypes, OneRequest, Command
<1>3. ListedBeforeTold' BY DEF HeadTypes, OneRequest, ListedBeforeTold
<1>4. ListedAreServed' BY DEF ListedAreServed
<1>5. LateOnce' BY DEF LateOnce
<1>6. QED BY <1>1, <1>2, <1>3, <1>4, <1>5

LEMMA HearsInv ==
    ASSUME NEW p \in Peer, HeadInv, Hears(p)
    PROVE  HeadInv'
<1> USE HeadAssumption DEF Hears, Told, Disconnected, listenVars, handlerVars, histVars, HeadInv
<1>1. HeadTypes' BY DEF HeadTypes
<1>2. OneRequest' BY DEF HeadTypes, OneRequest
<1>3. ListedBeforeTold' BY DEF HeadTypes, OneRequest, ListedBeforeTold
<1>4. ListedAreServed' BY DEF ListedAreServed
<1>5. LateOnce' BY DEF LateOnce
<1>6. QED BY <1>1, <1>2, <1>3, <1>4, <1>5

LEMMA LeaveInv ==
    ASSUME NEW p \in Peer, HeadInv, Leave(p)
    PROVE  HeadInv'
<1> USE HeadAssumption DEF Leave, listenVars, handlerVars, histVars, HeadInv
<1>1. HeadTypes' BY DEF HeadTypes
<1>2. OneRequest' BY DEF HeadTypes, OneRequest
<1>3. ListedBeforeTold' BY DEF HeadTypes, ListedBeforeTold
<1>4. ListedAreServed' BY DEF ListedAreServed
<1>5. LateOnce' BY DEF LateOnce
<1>6. QED BY <1>1, <1>2, <1>3, <1>4, <1>5
-----------------------------------------------------------------------------
(***************************************************************************)
(* The handlers.                                                           *)
(***************************************************************************)
\* The end of a handler takes its connection off the list.
LEMMA EndInv ==
    ASSUME NEW p \in Peer, HeadInv, End(p), at[p] \in Serving,
           UNCHANGED <<listenVars, wireVars, late>>
    PROVE  HeadInv'
<1> USE HeadAssumption DEF End, Goto, listenVars, wireVars, HeadInv
<1>1. HeadTypes' BY DEF HeadTypes, Label
<1>2. OneRequest' BY DEF HeadTypes, OneRequest, Busy
<1>3. ListedBeforeTold' BY DEF HeadTypes, ListedBeforeTold, Busy
<1>4. ListedAreServed' BY DEF HeadTypes, ListedAreServed
<1>5. LateOnce'
  BY DEF HeadTypes, LateOnce, Busy, Serving
<1>6. QED BY <1>1, <1>2, <1>3, <1>4, <1>5

\* Between a request and its reply a handler moves on.
LEMMA BusyInv ==
    ASSUME NEW p \in Peer, NEW next \in Busy, HeadInv, at[p] \in Busy, Goto(p, next),
           UNCHANGED <<listenVars, wireVars, worker_conns, late>>
    PROVE  HeadInv'
<1> USE HeadAssumption DEF Goto, listenVars, wireVars, HeadInv
<1>1. HeadTypes' BY DEF HeadTypes, Label, Serving
<1>2. OneRequest' BY DEF HeadTypes, OneRequest
<1>3. ListedBeforeTold' BY DEF HeadTypes, ListedBeforeTold, Busy
<1>4. ListedAreServed' BY DEF HeadTypes, ListedAreServed, Serving
<1>5. LateOnce' BY DEF HeadTypes, LateOnce
<1>6. QED BY <1>1, <1>2, <1>3, <1>4, <1>5

LEMMA LoopInv ==
    ASSUME NEW p \in Peer, HeadInv, Loop(p)
    PROVE  HeadInv'
<1>1. CASE ~ running
  BY <1>1, EndInv DEF Loop, Serving, histVars
<1>2. CASE running
  <2> USE <1>2, HeadAssumption DEF Loop, Goto, listenVars, wireVars, histVars, HeadInv
  <2>1. HeadTypes' BY DEF HeadTypes, Label, Serving
  <2>2. OneRequest' BY DEF HeadTypes, OneRequest, Busy
  <2>3. ListedBeforeTold' BY DEF HeadTypes, ListedBeforeTold, Busy
  <2>4. ListedAreServed' BY DEF HeadTypes, ListedAreServed, Serving
  <2>5. LateOnce' BY DEF HeadTypes, LateOnce
  <2>6. QED BY <2>1, <2>2, <2>3, <2>4, <2>5
<1>3. QED BY <1>1, <1>2

\* A handler that takes a request is in recv, where it came when _running was
\* true: this is the first request that can be late.
LEMMA RecvInv ==
    ASSUME NEW p \in Peer, HeadInv,
           \/ RecvRegister(p) \/ RecvSubmit(p) \/ RecvPoll(p)
           \/ RecvResult(p) \/ RecvContains(p) \/ RecvGet(p)
    PROVE  HeadInv'
<1> USE HeadAssumption
    DEF RecvRegister, RecvSubmit, RecvPoll, RecvResult, RecvContains, RecvGet, Recv, Goto,
        listenVars, HeadInv
<1>1. HeadTypes'
  <2>1. at' \in [Peer -> Label] BY DEF HeadTypes, Label, Serving, Busy
  <2>2. late' \in [Peer -> Nat] BY DEF HeadTypes
  <2>3. QED BY <2>1, <2>2 DEF HeadTypes
<1>2. OneRequest' BY DEF HeadTypes, OneRequest
<1>3. ListedBeforeTold'
  <2>1. CASE RecvRegister(p) BY <2>1 DEF HeadTypes, ListedBeforeTold, Busy
  <2>2. CASE ~ RecvRegister(p)
    <3>1. waiting[p] # "register_worker"
      BY <2>2 DEF OneRequest
    <3>2. QED BY <2>2, <3>1 DEF HeadTypes, ListedBeforeTold, Busy
  <2>3. QED BY <2>1, <2>2
<1>4. ListedAreServed' BY DEF HeadTypes, ListedAreServed, Serving, Busy
<1>5. LateOnce'
  <2>1. late[p] = 0 BY DEF LateOnce, Busy
  <2>2. QED BY <2>1 DEF HeadTypes, LateOnce, Busy
<1>6. QED BY <1>1, <1>2, <1>3, <1>4, <1>5

LEMMA CountInv ==
    ASSUME NEW p \in Peer, HeadInv,
           \/ Get(p) \/ CountWorkers(p) \/ CountSubmitted(p)
           \/ CountEnded(p) \/ CountObjects(p)
    PROVE  HeadInv'
BY BusyInv
DEF Get, CountWorkers, CountSubmitted, CountEnded, CountObjects, Measure, Publish, Busy,
    histVars

LEMMA ReplyInv ==
    ASSUME NEW p \in Peer, HeadInv, Reply(p)
    PROVE  HeadInv'
<1>1. CASE End(p)
  <2>1. at'[p] # "loop" BY <1>1 DEF End, Goto, HeadInv, HeadTypes
  <2>2. UNCHANGED outbox
    BY <2>1 DEF Reply, Goto, HeadInv, HeadTypes
  <2>3. QED BY <1>1, <2>2, EndInv DEF Reply, Serving, Busy, wireVars, histVars
<1>2. CASE p \notin closed \cup left /\ Goto(p, "loop") /\ UNCHANGED worker_conns
           /\ outbox' = [outbox EXCEPT ![p] =
                            IF waiting[p] = "register_worker" THEN "ok" ELSE "done"]
  <2> USE <1>2, HeadAssumption DEF Reply, Goto, listenVars, histVars, HeadInv
  <2>1. HeadTypes' BY DEF HeadTypes, Label, Serving
  <2>2. OneRequest' BY DEF HeadTypes, OneRequest, Busy
  <2>3. ListedBeforeTold' BY DEF HeadTypes, ListedBeforeTold, Busy
  <2>4. ListedAreServed' BY DEF HeadTypes, ListedAreServed, Serving
  <2>5. LateOnce' BY DEF HeadTypes, LateOnce, Busy
  <2>6. QED BY <2>1, <2>2, <2>3, <2>4, <2>5
<1>3. CASE p \in left /\ Goto(p, "loop") /\ UNCHANGED <<worker_conns, outbox>>
  <2> USE <1>3, HeadAssumption DEF Reply, Goto, listenVars, histVars, HeadInv
  <2>1. HeadTypes' BY DEF HeadTypes, Label, Serving
  <2>2. OneRequest' BY DEF HeadTypes, OneRequest, Busy
  <2>3. ListedBeforeTold' BY DEF HeadTypes, ListedBeforeTold, Busy
  <2>4. ListedAreServed' BY DEF HeadTypes, ListedAreServed, Serving
  <2>5. LateOnce' BY DEF HeadTypes, LateOnce, Busy
  <2>6. QED BY <2>1, <2>2, <2>3, <2>4, <2>5
<1>4. QED BY <1>1, <1>2, <1>3 DEF Reply
-----------------------------------------------------------------------------
(***************************************************************************)
(* The accept loop and shutdown.                                           *)
(***************************************************************************)
LEMMA ServerInv ==
    ASSUME HeadInv,
           \/ \E p \in Peer : Accept(p)
           \/ AcceptEnds \/ ShutdownBegins \/ CloseWorkers \/ CloseServer
    PROVE  HeadInv'
<1> USE HeadAssumption DEF handlerVars, wireVars, histVars, HeadInv
<1>1. ASSUME NEW p \in Peer, Accept(p) PROVE HeadInv'
  <2> USE <1>1 DEF Accept, Goto
  <2>1. HeadTypes' BY DEF HeadTypes, Label, Serving
  <2>2. OneRequest' BY DEF HeadTypes, OneRequest, Busy
  <2>3. ListedBeforeTold' BY DEF HeadTypes, ListedBeforeTold, Busy
  <2>4. ListedAreServed' BY DEF HeadTypes, ListedAreServed, Serving, Busy
  <2>5. LateOnce' BY DEF HeadTypes, LateOnce, Busy
  <2>6. QED BY <2>1, <2>2, <2>3, <2>4, <2>5
<1>2. CASE AcceptEnds
  BY <1>2 DEF AcceptEnds, HeadTypes, OneRequest, ListedBeforeTold, ListedAreServed, LateOnce
<1>3. CASE ShutdownBegins
  BY <1>3 DEF ShutdownBegins, HeadTypes, OneRequest, ListedBeforeTold, ListedAreServed, LateOnce
<1>4. CASE CloseWorkers
  BY <1>4 DEF CloseWorkers, HeadTypes, OneRequest, ListedBeforeTold, ListedAreServed, LateOnce
<1>5. CASE CloseServer
  <2> USE <1>5 DEF CloseServer
  <2>1. HeadTypes' BY DEF HeadTypes, Label
  <2>2. OneRequest' BY DEF HeadTypes, OneRequest, Busy
  <2>3. ListedBeforeTold' BY DEF HeadTypes, ListedBeforeTold
  <2>4. ListedAreServed' BY DEF HeadTypes, ListedAreServed, Serving, Busy
  <2>5. LateOnce' BY DEF HeadTypes, LateOnce, Busy
  <2>6. QED BY <2>1, <2>2, <2>3, <2>4, <2>5
<1>6. QED BY <1>1, <1>2, <1>3, <1>4, <1>5

LEMMA HeadNext == HeadInv /\ [Next]_vars => HeadInv'
<1> SUFFICES ASSUME HeadInv, [Next]_vars PROVE HeadInv'
  OBVIOUS
<1>1. ASSUME NEW p \in Peer, Connect(p) \/ Hears(p) \/ Leave(p) PROVE HeadInv'
  BY <1>1, ConnectInv, HearsInv, LeaveInv
<1>2. ASSUME NEW p \in Peer, Handle(p) PROVE HeadInv'
  <2>1. CASE RecvEnds(p)
    BY <2>1, EndInv DEF RecvEnds, Serving, histVars
  <2>2. QED BY <1>2, <2>1, LoopInv, RecvInv, CountInv, ReplyInv DEF Handle
<1>3. ASSUME NEW n \in Node, Register(n) \/ Poll(n) \/ \E t \in Task : Report(n, t)
      PROVE  HeadInv'
  BY <1>3, AskInv DEF Register, Poll, Report, Peer, Command
<1>4. ASSUME NEW c \in Client, SubmitTask(c) \/ \E t \in Task : LookUp(c, t)
      PROVE  HeadInv'
  BY <1>4, AskInv DEF SubmitTask, LookUp, Peer, Command
<1>5. CASE UNCHANGED vars
  BY <1>5 DEF vars, listenVars, handlerVars, wireVars, histVars, HeadInv, HeadTypes,
              OneRequest, ListedBeforeTold, ListedAreServed, LateOnce
<1>6. QED BY <1>1, <1>2, <1>3, <1>4, <1>5, ServerInv DEF Next

(***************************************************************************)
(* Until shutdown clears it, the list of connections has every node that   *)
(* was told ok and still has its handler, and none whose handler has ended *)
(* (head.py:201-205, 215-217, 377-383).                                    *)
(***************************************************************************)
THEOREM HeadRegisteredAreListed == Spec => []RegisteredAreListed
<1>1. HeadInv => RegisteredAreListed BY HeadInvImplies
<1>2. QED BY <1>1, HeadInit, HeadNext, PTL DEF Spec

(***************************************************************************)
(* After shutdown has begun, no handler takes a second request             *)
(* (head.py:191-198).                                                      *)
(***************************************************************************)
THEOREM HeadOneMoreRequest == Spec => []OneMoreRequest
<1>1. HeadInv => OneMoreRequest BY HeadInvImplies
<1>2. QED BY <1>1, HeadInit, HeadNext, PTL DEF Spec
-----------------------------------------------------------------------------
(***************************************************************************)
(* The metrics.  A task's submission and its end are each counted once:    *)
(* a handler that is to count one has a task no other handler has, which   *)
(* has not been counted; a task that was handed out is held by one peer,   *)
(* or in its report, until the handler of the report has it.               *)
(***************************************************************************)
Submitting(p) == IF at[p] = "flushed" THEN {task[p]} ELSE {}
Ending(p) == IF at[p] = "put" THEN {task[p]} ELSE {}
Reporting(p) ==
    IF inbox[p] # Nothing /\ inbox[p].cmd = "task_result" THEN {inbox[p].task} ELSE {}
Handed(p) == held[p] \cup Reporting(p)

CountedOnce ==
    /\ \A p \in Peer :
          /\ Submitting(p) \subseteq submitted \ submit_times
          /\ Handed(p) \cup Ending(p) \subseteq taken \ overtaken
    /\ \A p, q \in Peer :
          /\ Handed(p) \cap Ending(q) = {}
          /\ p # q => /\ Submitting(p) \cap Submitting(q) = {}
                      /\ Handed(p) \cap Handed(q) = {}
                      /\ Ending(p) \cap Ending(q) = {}

ReportedOnce == \A p \in Peer : held[p] \cap Reporting(p) = {}

TaskSets ==
    /\ Cardinality(submitted) \in Nat
    /\ submitted = 1 .. Cardinality(submitted)
    /\ submit_times \subseteq submitted
    /\ overtaken \subseteq taken
    /\ taken \subseteq submitted

MetricTypes ==
    /\ tasks_submitted \in Nat /\ tasks_completed \in Nat /\ tasks_failed \in Nat
    /\ tasks_running \in Nat
    /\ task = [p \in Peer |-> task[p]]
    /\ held = [p \in Peer |-> held[p]]

MetricsInv == CountedOnce /\ ReportedOnce /\ TaskSets /\ MetricTypes /\ MetricsAddUp

\* The tasks are a finite set.
LEMMA TasksFinite ==
    ASSUME TaskSets
    PROVE  /\ IsFiniteSet(submitted) /\ IsFiniteSet(submit_times) /\ IsFiniteSet(overtaken)
           /\ Cardinality(submit_times) \in Nat /\ Cardinality(overtaken) \in Nat
<1>1. IsFiniteSet(submitted)
  BY FS_Interval DEF TaskSets
<1>2. submit_times \in SUBSET submitted /\ overtaken \in SUBSET submitted
  BY DEF TaskSets
<1>3. IsFiniteSet(submit_times) /\ IsFiniteSet(overtaken)
  BY <1>1, <1>2, FS_Subset
<1>4. QED BY <1>1, <1>3, FS_CardinalityType

LEMMA MetricsStart == Init => MetricsInv
<1> SUFFICES ASSUME Init PROVE MetricsInv
  OBVIOUS
<1>1. Cardinality({}) = 0 BY FS_EmptySet
<1>2. MetricsAddUp
  BY <1>1 DEF Init, MetricsInit, MetricsAddUp, Unfinished, pending, AtLeast0
<1>3. CountedOnce /\ ReportedOnce
  BY DEF Init, CountedOnce, ReportedOnce, Submitting, Ending, Handed, Reporting
<1>4. TaskSets
  BY <1>1 DEF Init, MetricsInit, TaskSets
<1>5. MetricTypes
  BY DEF Init, MetricsInit, MetricTypes
<1>6. QED BY <1>2, <1>3, <1>4, <1>5 DEF MetricsInv

\* A step that counts nothing, and gives no handler or peer more to count.
LEMMA LessToCount ==
    ASSUME MetricsInv,
           UNCHANGED <<submitted, taken, overtaken, taskMetrics>>,
           task' = [p \in Peer |-> task'[p]], held' = [p \in Peer |-> held'[p]],
           \A p \in Peer : /\ Submitting(p)' \subseteq Submitting(p)
                           /\ Ending(p)' \subseteq Ending(p)
                           /\ Handed(p)' \subseteq Handed(p)
                           /\ (held[p] \cap Reporting(p) = {})'
    PROVE  MetricsInv'
<1>1. CountedOnce'
  <2> USE DEF MetricsInv, CountedOnce, taskMetrics
  <2>1. ASSUME NEW p \in Peer
        PROVE  /\ (Submitting(p) \subseteq submitted \ submit_times)'
               /\ (Handed(p) \cup Ending(p) \subseteq taken \ overtaken)'
    OBVIOUS
  <2>2. ASSUME NEW p \in Peer, NEW q \in Peer
        PROVE  /\ (Handed(p) \cap Ending(q) = {})'
               /\ p # q => /\ (Submitting(p) \cap Submitting(q) = {})'
                           /\ (Handed(p) \cap Handed(q) = {})'
                           /\ (Ending(p) \cap Ending(q) = {})'
    BY Zenon
  <2>3. QED BY <2>1, <2>2
<1>2. TaskSets' BY DEF MetricsInv, TaskSets, taskMetrics
<1>3. MetricTypes' BY DEF MetricsInv, MetricTypes, taskMetrics
<1>4. MetricsAddUp' BY DEF MetricsInv, MetricsAddUp, Unfinished, pending, taskMetrics
<1>5. QED BY <1>1, <1>2, <1>3, <1>4 DEF MetricsInv, ReportedOnce

\* Nor does a step that hands out no task.
LEMMA NothingCounted ==
    ASSUME MetricsInv,
           UNCHANGED <<submitted, taken, held, overtaken, taskMetrics>>,
           task' = [p \in Peer |-> task'[p]],
           \A p \in Peer : /\ Submitting(p)' \subseteq Submitting(p)
                           /\ Ending(p)' \subseteq Ending(p)
                           /\ Reporting(p)' \subseteq Reporting(p)
    PROVE  MetricsInv'
<1>1. \A p \in Peer : Handed(p)' \subseteq Handed(p) /\ (held[p] \cap Reporting(p) = {})'
  BY DEF MetricsInv, ReportedOnce, Handed
<1>2. held' = [p \in Peer |-> held'[p]] BY DEF MetricsInv, MetricTypes
<1>3. QED BY <1>1, <1>2, LessToCount

\* A poll hands out a task that no peer has been handed, or none.
LEMMA PollCounted ==
    ASSUME NEW p \in Peer, HeadInv, MetricsInv, RecvPoll(p)
    PROVE  MetricsInv'
<1> USE DEF RecvPoll, Recv, Goto, MetricsInv
<1>1. PICK popped \in {{}} \cup {{t} : t \in submitted \ taken} :
        taken' = taken \cup popped /\ held' = [held EXCEPT ![p] = @ \cup popped]
  OBVIOUS
<1>2. /\ popped \subseteq submitted \ taken
      /\ \A q \in Peer : popped \cap (Handed(q) \cup Ending(q)) = {}
  BY DEF CountedOnce
<1>3. /\ \A q \in Peer : /\ Submitting(q)' \subseteq Submitting(q)
                         /\ Ending(q)' \subseteq Ending(q)
                         /\ Reporting(q)' \subseteq Reporting(q)
      /\ UNCHANGED <<task, overtaken, taskMetrics>>
  BY DEF Submitting, Ending, Reporting, HeadInv, HeadTypes, metricsVars
<1>4. /\ held'[p] = held[p] \cup popped
      /\ \A q \in Peer : q # p => held'[q] = held[q]
      /\ held' = [q \in Peer |-> held'[q]]
  BY <1>1 DEF MetricTypes
<1>5. /\ \A q \in Peer : q # p => Handed(q)' \subseteq Handed(q)
      /\ Handed(p)' \subseteq Handed(p) \cup popped
      /\ \A q \in Peer : (held[q] \cap Reporting(q) = {})'
  BY <1>2, <1>3, <1>4 DEF ReportedOnce, Handed
<1>6. CountedOnce'
  <2>1. ASSUME NEW q \in Peer
        PROVE  /\ (Submitting(q) \subseteq submitted \ submit_times)'
               /\ (Handed(q) \cup Ending(q) \subseteq taken \ overtaken)'
    BY <1>1, <1>2, <1>3, <1>5 DEF CountedOnce, taskMetrics, TaskSets
  <2>2. ASSUME NEW q \in Peer, NEW r \in Peer
        PROVE  /\ (Handed(q) \cap Ending(r) = {})'
               /\ q # r => /\ (Submitting(q) \cap Submitting(r) = {})'
                           /\ (Handed(q) \cap Handed(r) = {})'
                           /\ (Ending(q) \cap Ending(r) = {})'
    BY <1>2, <1>3, <1>5 DEF CountedOnce
  <2>3. QED BY <2>1, <2>2 DEF CountedOnce
<1>7. TaskSets' BY <1>1, <1>2, <1>3 DEF TaskSets, taskMetrics
<1>8. MetricTypes' BY <1>3, <1>4 DEF MetricTypes, taskMetrics
<1>9. MetricsAddUp'
  BY <1>3 DEF MetricsAddUp, Unfinished, pending, taskMetrics
<1>10. QED BY <1>5, <1>6, <1>7, <1>8, <1>9 DEF ReportedOnce

\* A node reports a task that it holds: the report is on its way instead.
LEMMA ReportCounted ==
    ASSUME NEW n \in Node, NEW t \in Task, HeadInv, MetricsInv, Report(n, t)
    PROVE  MetricsInv'
<1> USE DEF Report, Ask, handlerVars, histVars, metricsVars, MetricsInv
<1>1. /\ n \in Peer /\ inbox'[n] = [cmd |-> "task_result", task |-> t]
      /\ \A p \in Peer : p # n => inbox'[p] = inbox[p] /\ held'[p] = held[p]
      /\ held'[n] = held[n] \ {t}
      /\ held' = [p \in Peer |-> held'[p]]
  BY DEF HeadInv, HeadTypes, MetricTypes, Peer
<1>2. Reporting(n)' \subseteq {t}
  <2>1. inbox'[n].task = t BY <1>1
  <2>2. QED BY <2>1 DEF Reporting
<1>3. \A p \in Peer : /\ Submitting(p)' = Submitting(p) /\ Ending(p)' = Ending(p)
                      /\ p # n => Reporting(p)' = Reporting(p)
  BY <1>1 DEF Submitting, Ending, Reporting
<1>4. \A p \in Peer : /\ Submitting(p)' \subseteq Submitting(p)
                      /\ Ending(p)' \subseteq Ending(p)
                      /\ Handed(p)' \subseteq Handed(p)
                      /\ (held[p] \cap Reporting(p) = {})'
  <2>1. Handed(n)' \subseteq Handed(n) /\ (held[n] \cap Reporting(n) = {})'
    BY <1>1, <1>2 DEF Handed
  <2>2. \A p \in Peer : p # n => Handed(p)' \subseteq Handed(p)
                                  /\ (held[p] \cap Reporting(p) = {})'
    BY <1>1, <1>3 DEF Handed, ReportedOnce
  <2>3. QED BY <1>3, <2>1, <2>2, Zenon
<1>5. task' = [p \in Peer |-> task'[p]] BY DEF MetricTypes
<1>6. UNCHANGED <<submitted, taken, overtaken, taskMetrics>> OBVIOUS
<1>7. QED BY <1>1, <1>4, <1>5, <1>6, LessToCount

\* A submitted task is new: the head numbers them.
LEMMA SubmitCounted ==
    ASSUME NEW p \in Peer, HeadInv, MetricsInv, RecvSubmit(p)
    PROVE  MetricsInv'
<1> DEFINE t == Cardinality(submitted) + 1
<1> USE DEF RecvSubmit, Recv, Goto, MetricsInv
<1>1. t \notin submitted /\ submitted' = 1 .. t /\ Cardinality(submitted') = t /\ t \in Nat
  <2>1. t \notin submitted /\ submitted' = 1 .. t /\ t \in Nat
    BY DEF TaskSets
  <2>2. Cardinality(1 .. t) = t BY <2>1, FS_Interval
  <2>3. QED BY <2>1, <2>2
<1>2. /\ \A q \in Peer : /\ Ending(q)' \subseteq Ending(q)
                         /\ Handed(q)' \subseteq Handed(q)
                         /\ (held[q] \cap Reporting(q) = {})'
                         /\ q # p => Submitting(q)' = Submitting(q)
      /\ Submitting(p)' = {t}
  BY DEF Submitting, Ending, Handed, Reporting, ReportedOnce, HeadInv, HeadTypes, MetricTypes
<1>3. CountedOnce'
  <2>1. ASSUME NEW q \in Peer
        PROVE  /\ (Submitting(q) \subseteq submitted \ submit_times)'
               /\ (Handed(q) \cup Ending(q) \subseteq taken \ overtaken)'
    BY <1>1, <1>2 DEF CountedOnce, metricsVars, taskMetrics, TaskSets
  <2>2. ASSUME NEW q \in Peer, NEW r \in Peer
        PROVE  /\ (Handed(q) \cap Ending(r) = {})'
               /\ q # r => /\ (Submitting(q) \cap Submitting(r) = {})'
                           /\ (Handed(q) \cap Handed(r) = {})'
                           /\ (Ending(q) \cap Ending(r) = {})'
    BY <1>1, <1>2 DEF CountedOnce
  <2>3. QED BY <2>1, <2>2 DEF CountedOnce
<1>4. TaskSets' BY <1>1 DEF TaskSets, metricsVars, taskMetrics
<1>5. MetricTypes' BY DEF MetricTypes, metricsVars, taskMetrics
<1>6. MetricsAddUp' BY DEF MetricsAddUp, Unfinished, pending, metricsVars, taskMetrics
<1>7. QED BY <1>2, <1>3, <1>4, <1>5, <1>6 DEF ReportedOnce

\* The report moves from the inbox to the handler.
LEMMA ResultCounted ==
    ASSUME NEW p \in Peer, HeadInv, MetricsInv, RecvResult(p)
    PROVE  MetricsInv'
<1> USE DEF RecvResult, Recv, Goto, MetricsInv
<1>1. /\ \A q \in Peer : /\ Submitting(q)' \subseteq Submitting(q)
                         /\ q # p => Ending(q)' = Ending(q) /\ Handed(q)' = Handed(q)
      /\ Ending(p)' = Reporting(p) /\ Handed(p)' = held[p]
      /\ Handed(p) = held[p] \cup Reporting(p)
      /\ held[p] \cap Reporting(p) = {}
      /\ \A q \in Peer : (held[q] \cap Reporting(q) = {})'
  BY DEF Submitting, Ending, Handed, Reporting, ReportedOnce, HeadInv, HeadTypes, MetricTypes
<1>2. CountedOnce'
  <2>1. ASSUME NEW q \in Peer
        PROVE  /\ (Submitting(q) \subseteq submitted \ submit_times)'
               /\ (Handed(q) \cup Ending(q) \subseteq taken \ overtaken)'
    BY <1>1 DEF CountedOnce, metricsVars, taskMetrics
  <2>2. ASSUME NEW q \in Peer, NEW r \in Peer
        PROVE  /\ (Handed(q) \cap Ending(r) = {})'
               /\ q # r => /\ (Submitting(q) \cap Submitting(r) = {})'
                           /\ (Handed(q) \cap Handed(r) = {})'
                           /\ (Ending(q) \cap Ending(r) = {})'
    BY <1>1 DEF CountedOnce
  <2>3. QED BY <2>1, <2>2 DEF CountedOnce
<1>3. TaskSets' BY DEF TaskSets, metricsVars, taskMetrics
<1>4. MetricTypes' BY DEF MetricTypes, metricsVars, taskMetrics
<1>5. MetricsAddUp' BY DEF MetricsAddUp, Unfinished, pending, metricsVars, taskMetrics
<1>6. QED BY <1>1, <1>2, <1>3, <1>4, <1>5 DEF ReportedOnce

\* What a handler has counted it does not count again.
LEMMA PublishedOnce ==
    ASSUME NEW p \in Peer, HeadInv, MetricsInv, NEW before \in {"flushed", "put"},
           NEW after \in {"completed", "reply"}, Publish(p, before, after)
    PROVE  /\ Submitting(p)' = {} /\ Ending(p)' = {}
           /\ \A q \in Peer : /\ Handed(q)' = Handed(q)
                              /\ q # p => /\ Submitting(q)' = Submitting(q)
                                          /\ Ending(q)' = Ending(q)
           /\ UNCHANGED <<submitted, taken, held>> /\ ReportedOnce'
           /\ task' = [q \in Peer |-> task'[q]]
BY DEF Publish, Goto, MetricsInv, MetricTypes, HeadInv, HeadTypes, taskVars, wireVars,
       Submitting, Ending, Handed, Reporting, ReportedOnce

LEMMA SubmissionCounted ==
    ASSUME NEW p \in Peer, HeadInv, MetricsInv, CountSubmitted(p)
    PROVE  MetricsInv'
<1> DEFINE t == task[p]
<1> USE DEF CountSubmitted, on_task_submitted
<1>1. /\ Submitting(p)' = {} /\ Ending(p)' = {}
      /\ \A q \in Peer : /\ Handed(q)' = Handed(q)
                         /\ q # p => /\ Submitting(q)' = Submitting(q)
                                     /\ Ending(q)' = Ending(q)
      /\ UNCHANGED <<submitted, taken, held>> /\ ReportedOnce'
      /\ task' = [q \in Peer |-> task'[q]]
  BY PublishedOnce
<1>2. Submitting(p) = {t} BY DEF Publish, Submitting
<1>3. CountedOnce'
  <2>1. ASSUME NEW q \in Peer
        PROVE  /\ (Submitting(q) \subseteq submitted \ submit_times)'
               /\ (Handed(q) \cup Ending(q) \subseteq taken \ overtaken)'
    BY <1>1, <1>2 DEF MetricsInv, CountedOnce
  <2>2. ASSUME NEW q \in Peer, NEW r \in Peer
        PROVE  /\ (Handed(q) \cap Ending(r) = {})'
               /\ q # r => /\ (Submitting(q) \cap Submitting(r) = {})'
                           /\ (Handed(q) \cap Handed(r) = {})'
                           /\ (Ending(q) \cap Ending(r) = {})'
    BY <1>1, <1>2 DEF MetricsInv, CountedOnce
  <2>3. QED BY <2>1, <2>2 DEF CountedOnce
<1>4. t \in submitted \ submit_times BY <1>2 DEF MetricsInv, CountedOnce
<1>5. TaskSets' BY <1>1, <1>4 DEF MetricsInv, TaskSets
<1>6. MetricTypes' BY <1>1 DEF MetricsInv, MetricTypes
<1>7. MetricsAddUp'
  <2>1. Cardinality(submit_times') = Cardinality(submit_times) + 1
    BY <1>4, TasksFinite, FS_AddElement DEF MetricsInv
  <2>2. Cardinality(submit_times) \in Nat /\ Cardinality(overtaken) \in Nat
    BY TasksFinite DEF MetricsInv
  <2>3. QED
    BY <2>1, <2>2 DEF MetricsInv, MetricTypes, MetricsAddUp, Unfinished, pending, AtLeast0
<1>8. QED BY <1>1, <1>3, <1>5, <1>6, <1>7 DEF MetricsInv

\* One task less is running, and one less unfinished.
LEMMA OneLess ==
    ASSUME NEW running0 \in Nat, NEW unfinished \in Int, NEW n \in Nat,
           running0 - unfinished \in 0 .. n
    PROVE  /\ AtLeast0(running0 - 1) - (unfinished - 1) \in 0 .. n + 1
           /\ unfinished + n > 0 => AtLeast0(running0 - 1) - (unfinished - 1) \in 0 .. n
           /\ AtLeast0((unfinished - 1) - AtLeast0(running0 - 1)) = 0
BY DEF AtLeast0

\* The end of a task takes its submit time away, or overtakes its submission.
LEMMA EndCounted ==
    ASSUME NEW p \in Peer, HeadInv, MetricsInv, CountEnded(p)
    PROVE  MetricsInv'
<1> DEFINE t == task[p]
<1>1. /\ Submitting(p)' = {} /\ Ending(p)' = {}
      /\ \A q \in Peer : /\ Handed(q)' = Handed(q)
                         /\ q # p => /\ Submitting(q)' = Submitting(q)
                                     /\ Ending(q)' = Ending(q)
      /\ UNCHANGED <<submitted, taken, held>> /\ ReportedOnce'
      /\ task' = [q \in Peer |-> task'[q]]
  BY PublishedOnce DEF CountEnded
<1>2. Ending(p) = {t} BY DEF CountEnded, Publish, Ending
<1>3. /\ submit_times' = submit_times \ {t}
      /\ tasks_running' = AtLeast0(tasks_running - 1)
      /\ tasks_submitted' = tasks_submitted
      /\ \/ tasks_completed' = tasks_completed + 1 /\ tasks_failed' = tasks_failed
         \/ tasks_completed' = tasks_completed /\ tasks_failed' = tasks_failed + 1
      /\ overtaken' = IF t \in submit_times THEN overtaken ELSE overtaken \cup {t}
  BY DEF CountEnded, on_task_completed, on_task_failed
<1>4. t \in taken \ overtaken BY <1>2 DEF MetricsInv, CountedOnce
<1>5. CountedOnce'
  <2>1. ASSUME NEW q \in Peer
        PROVE  /\ (Submitting(q) \subseteq submitted \ submit_times)'
               /\ (Handed(q) \cup Ending(q) \subseteq taken \ overtaken)'
    BY <1>1, <1>2, <1>3 DEF MetricsInv, CountedOnce
  <2>2. ASSUME NEW q \in Peer, NEW r \in Peer
        PROVE  /\ (Handed(q) \cap Ending(r) = {})'
               /\ q # r => /\ (Submitting(q) \cap Submitting(r) = {})'
                           /\ (Handed(q) \cap Handed(r) = {})'
                           /\ (Ending(q) \cap Ending(r) = {})'
    BY <1>1, <1>2 DEF MetricsInv, CountedOnce
  <2>3. QED BY <2>1, <2>2 DEF CountedOnce
<1>6. TaskSets' BY <1>1, <1>3, <1>4 DEF MetricsInv, TaskSets
<1>7. MetricTypes' BY <1>1, <1>3 DEF MetricsInv, MetricTypes, AtLeast0
<1>8. MetricsAddUp'
  <2>1. Cardinality(submit_times) \in Nat /\ Cardinality(overtaken) \in Nat
    BY TasksFinite DEF MetricsInv
  <2>2. Unfinished \in Int /\ Unfinished' = Unfinished - 1
    BY <1>3 DEF MetricsInv, MetricTypes, Unfinished
  <2>3. /\ Cardinality(submit_times) = Unfinished + Cardinality(overtaken)
        /\ tasks_running \in Nat
        /\ tasks_running - Unfinished \in 0 .. Cardinality(overtaken)
    BY DEF MetricsInv, MetricsAddUp, MetricTypes
  <2>4. pending' = 0
    BY <1>3, <2>1, <2>2, <2>3, OneLess DEF pending
  <2>5. CASE t \in submit_times
    <3>1. Cardinality(submit_times') = Cardinality(submit_times) - 1
          /\ Cardinality(submit_times') \in Nat
      BY <1>3, <2>5, TasksFinite, FS_RemoveElement, FS_CardinalityType DEF MetricsInv
    <3>2. overtaken' = overtaken BY <1>3, <2>5
    <3>3. Unfinished + Cardinality(overtaken) > 0 BY <2>1, <2>3, <3>1
    <3>4. tasks_running' - Unfinished' \in 0 .. Cardinality(overtaken')
      BY <1>3, <2>1, <2>2, <2>3, <3>2, <3>3, OneLess
    <3>5. Cardinality(submit_times') = Unfinished' + Cardinality(overtaken')
      BY <2>1, <2>2, <2>3, <3>1, <3>2
    <3>6. QED BY <2>4, <3>4, <3>5 DEF MetricsAddUp
  <2>6. CASE t \notin submit_times
    <3>1. Cardinality(overtaken') = Cardinality(overtaken) + 1
      BY <1>3, <1>4, <2>6, TasksFinite, FS_AddElement DEF MetricsInv
    <3>2. submit_times' = submit_times BY <1>3, <2>6
    <3>3. tasks_running' - Unfinished' \in 0 .. Cardinality(overtaken')
      BY <1>3, <2>1, <2>2, <2>3, <3>1, OneLess
    <3>4. Cardinality(submit_times') = Unfinished' + Cardinality(overtaken')
      BY <2>1, <2>2, <2>3, <3>1, <3>2
    <3>5. QED BY <2>4, <3>3, <3>4 DEF MetricsAddUp
  <2>7. QED BY <2>5, <2>6
<1>9. QED BY <1>1, <1>5, <1>6, <1>7, <1>8 DEF MetricsInv

\* The other steps count nothing.
LEMMA OtherCounted ==
    ASSUME HeadInv, MetricsInv, NEW p \in Peer,
           \/ Connect(p) \/ Hears(p) \/ Leave(p) \/ Accept(p)
           \/ Loop(p) \/ RecvEnds(p) \/ RecvRegister(p) \/ RecvContains(p) \/ RecvGet(p)
           \/ Get(p) \/ CountWorkers(p) \/ CountObjects(p) \/ Reply(p)
           \/ \E cmd \in Command \ {"task_result"} :
                 (\E t \in Task \cup {Nothing} : Ask(p, cmd, t)) /\ UNCHANGED held
           \/ AcceptEnds \/ ShutdownBegins \/ CloseWorkers \/ CloseServer
    PROVE  MetricsInv'
<1> USE DEF taskVars, histVars, metricsVars, taskMetrics, wireVars, handlerVars, Goto
<1>1. /\ at = [q \in Peer |-> at[q]] /\ task = [q \in Peer |-> task[q]]
      /\ inbox = [q \in Peer |-> inbox[q]]
  BY DEF HeadInv, HeadTypes, MetricsInv, MetricTypes
<1>2. CASE \/ Connect(p) \/ Accept(p) \/ Loop(p) \/ RecvEnds(p) \/ Reply(p)
  BY <1>1, <1>2, NothingCounted
  DEF Connect, Accept, Loop, RecvEnds, Reply, End, Submitting, Ending, Reporting
<1>3. CASE Hears(p) \/ Leave(p)
  BY <1>1, <1>3, NothingCounted
  DEF Hears, Told, Disconnected, Leave, Submitting, Ending, Reporting
<1>4. CASE RecvRegister(p) \/ RecvContains(p) \/ RecvGet(p)
  BY <1>1, <1>4, NothingCounted
  DEF RecvRegister, RecvContains, RecvGet, Recv, Submitting, Ending, Reporting
<1>5. CASE Get(p) \/ CountWorkers(p) \/ CountObjects(p)
  BY <1>1, <1>5, NothingCounted
  DEF Get, CountWorkers, CountObjects, Measure, Publish, set_worker_count,
      set_objects_stored, Submitting, Ending, Reporting
<1>6. CASE \E cmd \in Command \ {"task_result"} :
              (\E t \in Task \cup {Nothing} : Ask(p, cmd, t)) /\ UNCHANGED held
  BY <1>1, <1>6, NothingCounted
  DEF Ask, Submitting, Ending, Reporting
<1>7. CASE AcceptEnds \/ ShutdownBegins \/ CloseWorkers \/ CloseServer
  BY <1>1, <1>7, NothingCounted
  DEF AcceptEnds, ShutdownBegins, CloseWorkers, CloseServer,
      Submitting, Ending, Reporting
<1>8. QED BY <1>2, <1>3, <1>4, <1>5, <1>6, <1>7

LEMMA MetricsNext == HeadInv /\ MetricsInv /\ [Next]_vars => MetricsInv'
<1> SUFFICES ASSUME HeadInv, MetricsInv, [Next]_vars PROVE MetricsInv'
  OBVIOUS
<1>1. ASSUME NEW p \in Peer, Connect(p) \/ Hears(p) \/ Leave(p) \/ Accept(p)
      PROVE  MetricsInv'
  BY <1>1, OtherCounted
<1>2. ASSUME NEW p \in Peer, Handle(p) PROVE MetricsInv'
  BY <1>2, OtherCounted, SubmitCounted, PollCounted, ResultCounted, SubmissionCounted,
     EndCounted
  DEF Handle
<1>3. ASSUME NEW n \in Node, Register(n) \/ Poll(n) PROVE MetricsInv'
  BY <1>3, OtherCounted DEF Register, Poll, Peer, Command
<1>4. ASSUME NEW n \in Node, NEW t \in Task, Report(n, t) PROVE MetricsInv'
  BY <1>4, ReportCounted
<1>5. ASSUME NEW c \in Client, SubmitTask(c) \/ \E t \in Task : LookUp(c, t)
      PROVE  MetricsInv'
  BY <1>5, OtherCounted DEF SubmitTask, LookUp, Peer, Command
<1>6. CASE AcceptEnds \/ ShutdownBegins \/ CloseWorkers \/ CloseServer
  <2>1. CASE \E p \in Peer : TRUE BY <1>6, <2>1, OtherCounted
  <2>2. CASE Peer = {}
    BY <1>6, <2>2, NothingCounted
    DEF AcceptEnds, ShutdownBegins, CloseWorkers, CloseServer, taskVars, histVars,
        metricsVars, handlerVars, MetricsInv, MetricTypes
  <2>3. QED BY <2>1, <2>2
<1>7. CASE UNCHANGED vars
  BY <1>7, NothingCounted
  DEF vars, taskVars, histVars, metricsVars, handlerVars, wireVars, MetricsInv,
      MetricTypes, Submitting, Ending, Reporting
<1>8. QED BY <1>1, <1>2, <1>3, <1>4, <1>5, <1>6, <1>7 DEF Next

(***************************************************************************)
(* A submit time stays behind for ever exactly where the end of a task was *)
(* counted before its submission, the running tasks are too many by those  *)
(* tasks at most, and no task is shown as pending (dashboard.py:45-67,     *)
(* head.py:298-299 and 312-322).                                           *)
(***************************************************************************)
THEOREM HeadMetricsAddUp == Spec => []MetricsAddUp
<1>1. HeadInv /\ MetricsInv => MetricsAddUp BY DEF MetricsInv
<1>2. QED BY <1>1, HeadInit, HeadNext, MetricsStart, MetricsNext, PTL DEF Spec
-----------------------------------------------------------------------------
(***************************************************************************)
(* Transport: the bytes on their way always start in the middle of a       *)
(* message that the receiver has the start of, and whole messages follow.  *)
(* First the length in a header; then the streams of whole messages and    *)
(* what is read of one that is cut anywhere; then the steps.               *)
(***************************************************************************)

\* Division by the base of the digits.
LEMMA DivisionByBase ==
    ASSUME NEW b \in Nat \ {0}, NEW n \in Nat
    PROVE  /\ n \div b \in Nat /\ n % b \in 0 .. b - 1
           /\ (n \div b) * b + (n % b) = n
           /\ \A p \in Nat : n < b * p => n \div b < p
<1>1. n % b \in 0 .. b - 1 BY SMT
<1>2. n \div b \in Nat BY SMT
<1>3. b * (n \div b) + (n % b) = n BY SMT
<1>4. (n \div b) * b + (n % b) = n BY SMT
<1>5. ASSUME NEW p \in Nat, n < b * p, n \div b >= p PROVE FALSE
  <2>1. PICK q \in Nat : q = n \div b BY <1>2
  <2>2. b * q >= b * p BY <1>5, <2>1, SMT
  <2>3. b * q <= n BY <1>1, <1>3, <2>1, SMT
  <2>4. b * q \in Nat /\ b * p \in Nat BY SMT
  <2>5. QED BY <1>5, <2>2, <2>3, <2>4
<1>6. QED BY <1>1, <1>2, <1>4, <1>5

\* places, packed and unpacked satisfy their recursions.
LEMMA PlacesDefined ==
    /\ places \in [0 .. HeaderSize -> Nat]
    /\ places[0] = 1
    /\ \A k \in Nat : k + 1 \in 0 .. HeaderSize => places[k + 1] = Base * places[k]
<1> USE TransportAssumption
<1> DEFINE D == 0 .. HeaderSize
           next == [p \in Nat |-> Base * p]
<1>1. next \in [Nat -> Nat]
  <2>1. Base \in Nat OBVIOUS
  <2>2. \A p \in Nat : Base * p \in Nat BY <2>1
  <2>3. QED BY <2>2
<1> HIDE DEF next
<1>2. PICK f : Iterates(f, HeaderSize, Nat, 1, next) BY <1>1, NumberRecursion
<1>3. \A k \in D : k # 0 => f[k] = Base * f[k - 1]
  <2> TAKE k \in D
  <2> HAVE k # 0
  <2>1. k \in 1 .. HeaderSize /\ f[k - 1] \in Nat BY <1>2 DEF Iterates
  <2>2. f[k] = next[f[k - 1]] BY <1>2, <2>1 DEF Iterates
  <2>3. QED BY <2>1, <2>2 DEF next
<1>5. f = [k \in D |-> IF k = 0 THEN 1 ELSE Base * f[k - 1]]
  BY <1>2, <1>3 DEF Iterates
<1>6. places = [k \in D |-> IF k = 0 THEN 1 ELSE Base * places[k - 1]]
  BY <1>5 DEF places
<1> HIDE DEF places
<1>7. ASSUME NEW k \in Nat, k + 1 \in D PROVE places[k + 1] = Base * places[k]
  <2>1. k + 1 # 0 /\ (k + 1) - 1 = k OBVIOUS
  <2>2. QED BY <1>6, <1>7, <2>1
<1> DEFINE S == {k \in Nat : k \in D => places[k] \in Nat}
<1>8. 0 \in D /\ places[0] = 1 BY <1>6
<1>9. Nat \subseteq S
  <2>1. 0 \in S BY <1>8
  <2>2. ASSUME NEW k \in Nat, k \in S PROVE k + 1 \in S
    <3>1. ASSUME k + 1 \in D PROVE places[k + 1] \in Nat
      <4>1. k \in D BY <3>1
      <4>2. places[k] \in Nat /\ Base \in Nat BY <2>2, <4>1
      <4>3. places[k + 1] = Base * places[k] BY <1>7, <3>1
      <4>4. QED BY <4>2, <4>3
    <3>2. QED BY <3>1
  <2>3. QED BY <2>1, <2>2, InductionOnSet
<1>10. \A k \in D : places[k] \in Nat BY <1>9
<1>11. places \in [D -> Nat]
  <2>1. places = [k \in D |-> places[k]] BY <1>6
  <2>2. QED BY <1>10, <2>1
<1>12. QED BY <1>7, <1>8, <1>11

LEMMA PackedDefined ==
    \A n \in Nat :
        /\ packed[0][n] = <<>>
        /\ \A k \in Nat : k + 1 \in 0 .. HeaderSize =>
               packed[k + 1][n] = Append(packed[k][n \div Base], n % Base)
<1> USE TransportAssumption
<1> DEFINE D == 0 .. HeaderSize
           V == [Nat -> Seq(Byte)]
           a == [n \in Nat |-> <<>>]
           next == [g \in V |-> [n \in Nat |-> Append(g[n \div Base], n % Base)]]
<1>1. a \in V BY EmptySeq
<1>2. next \in [V -> V]
  <2>1. ASSUME NEW g \in V, NEW n \in Nat
        PROVE  Append(g[n \div Base], n % Base) \in Seq(Byte)
    <3>1. n \div Base \in Nat /\ n % Base \in Byte BY DivisionByBase DEF Byte
    <3>2. g[n \div Base] \in Seq(Byte) BY <3>1
    <3>3. QED BY <3>1, <3>2, AppendProperties
  <2>2. QED BY <2>1
<1> HIDE DEF next, V, a
<1>3. PICK f : Iterates(f, HeaderSize, V, a, next) BY <1>1, <1>2, NumberRecursion
<1>4. f \in [D -> V] /\ f[0] = a /\ \A k \in 1 .. HeaderSize : f[k] = next[f[k - 1]]
  BY <1>3 DEF Iterates
<1> DEFINE Row(g, k) ==
               [n \in Nat |-> IF k = 0 THEN <<>> ELSE Append(g[k - 1][n \div Base], n % Base)]
<1>5. ASSUME NEW k \in D PROVE f[k] = Row(f, k)
  <2>1. CASE k = 0
    <3>1. f[k] = a BY <1>4, <2>1
    <3>2. QED BY <2>1, <3>1 DEF a
  <2>2. CASE k # 0
    <3>1. f[k - 1] \in V BY <1>4, <2>2
    <3>2. f[k] = next[f[k - 1]] BY <1>4, <2>2
    <3>3. QED BY <2>2, <3>1, <3>2 DEF next
  <2>3. QED BY <2>1, <2>2
<1>6. f = [k \in D |-> Row(f, k)]
  <2> HIDE DEF Row
  <2>1. QED BY <1>4, <1>5
<1>7. packed = [k \in D |-> Row(packed, k)] BY <1>6 DEF packed
<1> HIDE DEF packed
<1>8. \A k \in D : packed[k] = Row(packed, k) BY <1>7
<1>9. ASSUME NEW n \in Nat PROVE packed[0][n] = <<>>
  <2>1. packed[0] = Row(packed, 0) BY <1>8
  <2>2. QED BY <2>1
<1>10. ASSUME NEW n \in Nat, NEW k \in Nat, k + 1 \in D
       PROVE  packed[k + 1][n] = Append(packed[k][n \div Base], n % Base)
  <2>1. k + 1 # 0 /\ (k + 1) - 1 = k OBVIOUS
  <2>2. packed[k + 1] = Row(packed, k + 1) BY <1>8, <1>10
  <2>3. QED BY <2>1, <2>2
<1>11. QED BY <1>9, <1>10

LEMMA UnpackedDefined ==
    /\ unpacked \in [SeqOf(Byte, HeaderSize) -> Nat]
    /\ unpacked[<<>>] = 0
    /\ \A s \in Seq(Byte), d \in Byte : Append(s, d) \in SeqOf(Byte, HeaderSize) =>
           unpacked[Append(s, d)] = unpacked[s] * Base + d
<1> USE TransportAssumption
<1> DEFINE D == SeqOf(Byte, HeaderSize)
           leaf == {<<>>}
           base == [s \in D |-> 0]
           size == [s \in D |-> Len(s)]
           next == [s \in D \ leaf |-> Front(s)]
           step == [s \in D \ leaf |-> [n \in Nat |-> n * Base + Last(s)]]
<1>1. base \in [D -> Nat] OBVIOUS
<1>2. \A s \in D : s \in Seq(Byte) /\ Len(s) \in Nat /\ Len(s) <= HeaderSize
  BY BoundedSequence
<1>3. size \in [D -> Nat] BY <1>2
<1>4. ASSUME NEW s \in D \ leaf
      PROVE  /\ Front(s) \in D /\ Len(Front(s)) < Len(s) /\ Last(s) \in Nat
  <2>1. PICK m \in Nat : m + 1 = Len(s)
    <3>1. Len(s) \in Nat /\ Len(s) # 0 BY <1>2, EmptySeq
    <3>2. Len(s) - 1 \in Nat /\ (Len(s) - 1) + 1 = Len(s) BY <3>1
    <3>3. QED BY <3>2
  <2>2. m \in 0 .. Len(s) /\ Len(s) - 1 = m /\ m + 1 \in 1 .. Len(s) BY <2>1
  <2>3. Front(s) \in Seq(Byte) /\ Len(Front(s)) = m
    BY <1>2, <2>2, SplitSequence DEF Front, SplitAt
  <2>4. m <= HeaderSize /\ m < Len(s) BY <1>2, <2>1
  <2>5. Front(s) \in D BY <2>3, <2>4, BoundedBy
  <2>6. s[Len(s)] \in Byte BY <1>2, <2>1, <2>2, LenProperties
  <2>7. Last(s) \in Nat BY <2>6 DEF Last, Byte
  <2>8. QED BY <2>3, <2>4, <2>5, <2>7
<1>5. next \in [D \ leaf -> D] BY <1>4
<1>6. step \in [D \ leaf -> [Nat -> Nat]]
  <2>1. ASSUME NEW s \in D \ leaf, NEW n \in Nat PROVE n * Base + Last(s) \in Nat
    <3>1. Last(s) \in Nat /\ Base \in Nat BY <1>4
    <3>2. n * Base \in Nat BY <3>1
    <3>3. QED BY <3>1, <3>2
  <2>2. QED BY <2>1
<1>7. \A s \in D \ leaf : size[next[s]] < size[s] BY <1>4
<1> DEFINE Step(g) == [s \in D |-> IF s = <<>> THEN 0 ELSE g[Front(s)] * Base + Last(s)]
<1>8. PICK f \in [D -> Nat] : \A s \in D :
          /\ s \in leaf => f[s] = base[s]
          /\ s \notin leaf => f[s] = step[s][f[next[s]]]
  <2> HIDE DEF D, leaf, base, size, next, step
  <2>1. IsRecursion(D, Nat, leaf, base, size, next, step)
    BY <1>1, <1>3, <1>5, <1>6, <1>7 DEF IsRecursion
  <2>2. QED BY <2>1, LinearRecursion
<1>9. ASSUME NEW s \in D PROVE f[s] = Step(f)[s]
  <2>1. CASE s \in leaf BY <1>8, <2>1
  <2>2. CASE s \notin leaf
    <3>1. Front(s) \in D BY <1>4, <2>2
    <3>2. f[Front(s)] \in Nat BY <3>1
    <3>3. f[s] = step[s][f[Front(s)]] BY <1>8, <2>2
    <3>4. f[s] = f[Front(s)] * Base + Last(s) BY <2>2, <3>2, <3>3
    <3>5. QED BY <2>2, <3>4
  <2>3. QED BY <2>1, <2>2
<1>10. f = Step(f)
  <2>1. f = [s \in D |-> f[s]] OBVIOUS
  <2>2. QED BY <1>9, <2>1
<1>11. unpacked = Step(unpacked) BY <1>10 DEF unpacked
<1> HIDE DEF unpacked
<1>12. <<>> \in D BY EmptyIsBounded
<1>13. unpacked[<<>>] = 0 BY <1>11, <1>12
<1>14. ASSUME NEW s \in Seq(Byte), NEW d \in Byte, Append(s, d) \in D
       PROVE  unpacked[Append(s, d)] = unpacked[s] * Base + d
  <2>1. Append(s, d) # <<>> BY AppendProperties
  <2>2. Front(Append(s, d)) = s /\ Last(Append(s, d)) = d BY FrontOfAppend
  <2> DEFINE t == Append(s, d)
  <2>3. t \in D /\ t # <<>> /\ Front(t) = s /\ Last(t) = d BY <1>14, <2>1, <2>2
  <2> HIDE DEF t
  <2>4. unpacked[t] = unpacked[Front(t)] * Base + Last(t) BY <1>11, <2>3
  <2>5. QED BY <2>3, <2>4 DEF t
<1> DEFINE S == {k \in Nat : \A s \in D : Len(s) = k => unpacked[s] \in Nat}
<1>15. 0 \in S
  <2>1. ASSUME NEW s \in D, Len(s) = 0 PROVE unpacked[s] \in Nat
    <3>1. s = <<>> BY <1>2, <2>1, EmptySeq
    <3>2. QED BY <1>13, <3>1
  <2>2. QED BY <2>1
<1>16. ASSUME NEW k \in Nat, k \in S PROVE k + 1 \in S
  <2>1. ASSUME NEW s \in D, Len(s) = k + 1 PROVE unpacked[s] \in Nat
    <3>1. s # <<>> BY <2>1, EmptySeq
    <3>2. Front(s) \in D /\ Len(Front(s)) = k /\ Last(s) \in Nat
      <4>1. k \in 0 .. Len(s) /\ Len(s) - 1 = k BY <2>1
      <4>2. Len(Front(s)) = k BY <1>2, <4>1, SplitSequence DEF Front, SplitAt
      <4>3. QED BY <1>4, <3>1, <4>2
    <3>3. unpacked[Front(s)] \in Nat BY <1>16, <3>2
    <3>4. unpacked[s] = unpacked[Front(s)] * Base + Last(s) BY <1>11, <3>1
    <3>5. Base \in Nat OBVIOUS
    <3>6. unpacked[Front(s)] * Base \in Nat BY <3>3, <3>5
    <3>7. QED BY <3>2, <3>4, <3>6
  <2>2. QED BY <2>1
<1>17. \A s \in D : unpacked[s] \in Nat BY <1>2, <1>15, <1>16, InductionOnSet
<1>18. unpacked \in [D -> Nat]
  <2>1. unpacked = [s \in D |-> unpacked[s]] BY <1>11
  <2>2. QED BY <1>17, <2>1
<1>19. QED BY <1>13, <1>14, <1>18

\* struct.unpack gives back what struct.pack was given, if it fits.
LEMMA UnpackedPacked ==
    \A k \in 0 .. HeaderSize : \A n \in Nat : n < places[k] =>
        /\ packed[k][n] \in Seq(Byte) /\ Len(packed[k][n]) = k
        /\ unpacked[packed[k][n]] = n
<1> USE TransportAssumption
<1> DEFINE Right(k, n) == /\ packed[k][n] \in Seq(Byte) /\ Len(packed[k][n]) = k
                          /\ unpacked[packed[k][n]] = n
           S == {k \in Nat : k \in 0 .. HeaderSize =>
                                 \A n \in Nat : n < places[k] => Right(k, n)}
<1>1. 0 \in S
  <2>1. ASSUME NEW n \in Nat, n < places[0] PROVE Right(0, n)
    <3>1. n = 0 BY <2>1, PlacesDefined
    <3>2. packed[0][n] = <<>> BY PackedDefined
    <3>3. QED BY <3>1, <3>2, UnpackedDefined, EmptySeq
  <2>2. QED BY <2>1
<1>2. ASSUME NEW k \in Nat, k \in S PROVE k + 1 \in S
  <2>1. ASSUME k + 1 \in 0 .. HeaderSize, NEW n \in Nat, n < places[k + 1]
        PROVE  Right(k + 1, n)
    <3>1. k \in 0 .. HeaderSize BY <2>1
    <3>2. PICK p \in Nat : p = places[k] BY <3>1, PlacesDefined
    <3>3. n < Base * p BY <2>1, <3>2, PlacesDefined
    <3>4. PICK q \in Nat, d \in Byte :
              /\ q = n \div Base /\ d = n % Base /\ q * Base + d = n /\ q < p
      BY <3>3, DivisionByBase DEF Byte
    <3>5. packed[k + 1][n] = Append(packed[k][q], d) BY <2>1, <3>4, PackedDefined
    <3>6. Right(k, q) BY <1>2, <3>1, <3>2, <3>4
    <3>7. PICK s \in Seq(Byte) : s = packed[k][q] /\ Len(s) = k /\ unpacked[s] = q
      BY <3>6
    <3>8. Append(s, d) \in Seq(Byte) /\ Len(Append(s, d)) = k + 1
      BY <3>7, AppendProperties
    <3>9. k + 1 <= HeaderSize /\ HeaderSize \in Nat BY <2>1
    <3>10. Append(s, d) \in SeqOf(Byte, HeaderSize) BY <3>8, <3>9, BoundedBy
    <3>11. unpacked[Append(s, d)] = q * Base + d BY <3>7, <3>10, UnpackedDefined
    <3>12. QED BY <3>4, <3>5, <3>7, <3>8, <3>11
  <2> HIDE DEF Right
  <2>2. QED BY <2>1
<1>3. Nat \subseteq S
  <2> HIDE DEF S
  <2>1. QED BY <1>1, <1>2, InductionOnSet
<1>4. QED BY <1>3

\* What send_msg writes for a message, and the messages that it writes.
Encoded(m) == pack(Len(m)) \o m
Sendable == {m \in Message : Len(m) <= MaxMessage}

LEMMA HeaderOfMessage ==
    ASSUME NEW m \in Sendable
    PROVE  /\ m \in Seq(Byte) /\ Len(m) \in Nat /\ Len(m) >= 1 /\ Len(m) <= MaxMessage
           /\ pack(Len(m)) \in Seq(Byte) /\ Len(pack(Len(m))) = HeaderSize
           /\ unpack(pack(Len(m))) = Len(m)
           /\ Encoded(m) \in Seq(Byte) /\ Len(Encoded(m)) = HeaderSize + Len(m)
<1> USE TransportAssumption
<1>1. m \in Seq(Byte) /\ m # <<>> /\ Len(m) <= MaxMessage BY DEF Sendable
<1>2. Len(m) \in Nat /\ Len(m) # 0 BY <1>1, LenProperties, EmptySeq
<1>3. HeaderSize \in 0 .. HeaderSize /\ places[HeaderSize] \in Nat
  <2>1. HeaderSize \in 0 .. HeaderSize OBVIOUS
  <2>2. QED BY <2>1, PlacesDefined
<1>4. PICK n \in Nat : n = Len(m) BY <1>2
<1>5. n < places[HeaderSize] BY <1>1, <1>3, <1>4
<1>6. /\ pack(n) \in Seq(Byte) /\ Len(pack(n)) = HeaderSize /\ unpack(pack(n)) = n
  BY <1>3, <1>5, UnpackedPacked DEF pack, unpack
<1>7. Encoded(m) \in Seq(Byte) /\ Len(Encoded(m)) = HeaderSize + n
  BY <1>1, <1>4, <1>6, ConcatProperties DEF Encoded
<1>8. QED BY <1>1, <1>2, <1>4, <1>6, <1>7

LEMMA MessageAndRest ==
    ASSUME NEW m \in Sendable, NEW r \in Seq(Byte)
    PROVE  \E t \in Seq(Byte) : Encoded(m) \o r = pack(Len(m)) \o t
<1>1. m \in Seq(Byte) /\ pack(Len(m)) \in Seq(Byte) BY HeaderOfMessage
<1>2. (pack(Len(m)) \o m) \o r = pack(Len(m)) \o (m \o r)
  <2>1. Regroups(pack(Len(m)), m, r) BY <1>1, Regroup
  <2>2. QED BY <2>1 DEF Regroups
<1>3. m \o r \in Seq(Byte) BY <1>1, ConcatProperties
<1>4. QED BY <1>2, <1>3 DEF Encoded

\* The header is read the same wherever the bytes after it end.
LEMMA HeaderOfPart ==
    ASSUME NEW m \in Sendable, NEW r \in Seq(Byte), NEW p \in Seq(Byte), NEW q \in Seq(Byte),
           p \o q = Encoded(m) \o r, Len(p) >= HeaderSize
    PROVE  SubSeq(p, 1, HeaderSize) = pack(Len(m))
<1>1. PICK h \in Seq(Byte) : h = pack(Len(m)) /\ Len(h) = HeaderSize BY HeaderOfMessage
<1>2. PICK t \in Seq(Byte) : Encoded(m) \o r = h \o t BY <1>1, MessageAndRest
<1>3. SameWhole(h, t, p, q) /\ Len(h) <= Len(p) BY <1>1, <1>2 DEF SameWhole
<1>4. SubSeq(p, 1, Len(h)) = h BY <1>3, LaterCut
<1>5. QED BY <1>1, <1>4

\* A message is found at the start of what it is sent in.
LEMMA EncodedFirst ==
    ASSUME NEW m \in Sendable, NEW r \in Seq(Byte)
    PROVE  LET b == Encoded(m) \o r IN
           /\ b \in Seq(Byte) /\ Whole(b) /\ First(b) = m /\ AfterFirst(b) = r
<1> USE TransportAssumption
<1>1. PICK b \in Seq(Byte) : b = Encoded(m) \o r BY HeaderOfMessage, ConcatProperties
<1>2. PICK n \in Nat : n = Len(m) /\ n >= 1 BY HeaderOfMessage
<1>3. PICK h \in Seq(Byte) : h = pack(n) /\ Len(h) = HeaderSize /\ unpack(h) = n
  BY <1>2, HeaderOfMessage
<1>4. PICK e \in Seq(Byte) : e = Encoded(m) /\ Len(e) = HeaderSize + n
  BY <1>2, HeaderOfMessage
<1>5. PICK l \in Nat : l = Len(r) BY LenProperties
<1>6. Len(b) = HeaderSize + n + l BY <1>1, <1>4, <1>5, CutConcat
<1>7. SubSeq(b, 1, HeaderSize) = h
  <2>1. <<>> \in Seq(Byte) /\ b \o <<>> = Encoded(m) \o r
    BY <1>1, ConcatEmptySeq, EmptySeq
  <2>2. Len(b) >= HeaderSize BY <1>6
  <2>3. QED BY <1>2, <1>3, <2>1, <2>2, HeaderOfPart
<1>8. Whole(b)
  <2>1. HeaderSize \in Nat OBVIOUS
  <2>2. Len(b) >= HeaderSize /\ Len(b) >= HeaderSize + n BY <1>6, <2>1
  <2>3. QED BY <1>3, <1>7, <2>2 DEF Whole
<1>9. First(b) = m
  <2>1. e = h \o m BY <1>2, <1>3, <1>4 DEF Encoded
  <2>2. SubSeq(e, HeaderSize + 1, HeaderSize + n) = m
    <3>1. SubSeq(h \o m, Len(h) + 1, Len(h) + Len(m)) = m BY HeaderOfMessage, CutConcat
    <3>2. QED BY <1>2, <1>3, <2>1, <3>1
  <2>3. HeaderSize + 1 \in 1 .. Len(e) /\ HeaderSize + n \in 1 .. Len(e) BY <1>2, <1>4
  <2>4. SubSeq(e \o r, HeaderSize + 1, HeaderSize + n)
          = SubSeq(e, HeaderSize + 1, HeaderSize + n)
    BY <2>3, SubSeqOfConcat1
  <2>5. QED BY <1>1, <1>3, <1>4, <1>7, <2>2, <2>4 DEF First
<1>10. AfterFirst(b) = r
  <2>1. SubSeq(b, HeaderSize + n + 1, HeaderSize + n + l) = r
    <3>1. SubSeq(e \o r, Len(e) + 1, Len(e) + Len(r)) = r BY CutConcat
    <3>2. QED BY <1>1, <1>4, <1>5, <3>1
  <2>2. QED BY <1>3, <1>6, <1>7, <2>1 DEF AfterFirst
<1>11. QED BY <1>1, <1>8, <1>9, <1>10

\* Part of a message is no message.
LEMMA PartIsNotWhole ==
    ASSUME NEW m \in Sendable, NEW p \in Seq(Byte), NEW q \in Seq(Byte),
           Encoded(m) = p \o q, q # <<>>
    PROVE  ~ Whole(p)
<1> USE TransportAssumption
<1>1. PICK i \in Nat, j \in Nat : i = Len(p) /\ j = Len(q) /\ j # 0
  BY LenProperties, EmptySeq
<1>2. PICK n \in Nat : n = Len(m) BY HeaderOfMessage
<1>3. HeaderSize + n = i + j
  <2>1. Len(p \o q) = Len(p) + Len(q) BY CutConcat
  <2>2. Len(Encoded(m)) = HeaderSize + Len(m) BY HeaderOfMessage
  <2>3. QED BY <1>1, <1>2, <2>1, <2>2
<1>4. ASSUME i >= HeaderSize PROVE SubSeq(p, 1, HeaderSize) = pack(n)
  <2>1. <<>> \in Seq(Byte) /\ p \o q = Encoded(m) \o <<>>
    BY HeaderOfMessage, ConcatEmptySeq, EmptySeq
  <2>2. QED BY <1>1, <1>2, <1>4, <2>1, HeaderOfPart
<1>5. unpack(pack(n)) = n BY <1>2, HeaderOfMessage
<1>6. ASSUME Whole(p) PROVE FALSE
  <2>1. i >= HeaderSize /\ i >= HeaderSize + unpack(SubSeq(p, 1, HeaderSize))
    BY <1>1, <1>6 DEF Whole
  <2>2. i >= HeaderSize + n BY <1>4, <1>5, <2>1
  <2>3. HeaderSize \in Nat OBVIOUS
  <2>4. QED BY <1>1, <1>3, <2>2, <2>3
<1>7. QED BY <1>6

\* The messages of a sequence of bytes, one after the other.
LEMMA MessagesDefined ==
    /\ Messages \in [Seq(Byte) -> Seq(Seq(Byte))]
    /\ \A b \in Seq(Byte) :
          /\ Whole(b) => Messages[b] = <<First(b)>> \o Messages[AfterFirst(b)]
          /\ ~ Whole(b) => Messages[b] = <<>>
<1> USE TransportAssumption
<1> DEFINE D == Seq(Byte)
           V == Seq(Seq(Byte))
           leaf == {b \in D : ~ Whole(b)}
           base == [b \in D |-> <<>>]
           size == [b \in D |-> Len(b)]
           next == [b \in D \ leaf |-> AfterFirst(b)]
           step == [b \in D \ leaf |-> [q \in V |-> <<First(b)>> \o q]]
<1>1. ASSUME NEW b \in D \ leaf
      PROVE  /\ First(b) \in D /\ AfterFirst(b) \in D
             /\ Len(b) \in Nat /\ Len(AfterFirst(b)) \in Nat /\ Len(AfterFirst(b)) < Len(b)
  <2>1. PICK l \in Nat : l = Len(b) BY LenProperties
  <2>2. PICK h : h = SubSeq(b, 1, HeaderSize) OBVIOUS
  <2>3. b \in D /\ Whole(b) OBVIOUS
  <2>4. l >= HeaderSize /\ l >= HeaderSize + unpack(h) BY <2>1, <2>2, <2>3 DEF Whole
  <2>5. h \in Seq(Byte) /\ Len(h) = HeaderSize
    <3>1. HeaderSize \in 0 .. Len(b) BY <2>1, <2>4
    <3>2. QED BY <2>2, <2>3, <3>1, SplitSequence DEF SplitAt
  <2>6. HeaderSize \in Nat /\ HeaderSize >= 1 /\ HeaderSize <= HeaderSize OBVIOUS
  <2>7. h \in SeqOf(Byte, HeaderSize) BY <2>5, <2>6, BoundedBy
  <2>8. PICK n \in Nat : n = unpack(h) BY <2>7, UnpackedDefined DEF unpack
  <2>9. PICK k \in Nat : k = HeaderSize + n BY <2>6
  <2>10. k \in 0 .. Len(b) /\ k >= 1 BY <2>1, <2>4, <2>6, <2>8, <2>9
  <2>11. AfterFirst(b) = SubSeq(b, k + 1, Len(b)) BY <2>2, <2>8, <2>9 DEF AfterFirst
  <2>12. AfterFirst(b) \in D /\ Len(AfterFirst(b)) = l - k
    BY <2>1, <2>3, <2>10, <2>11, SplitSequence DEF SplitAt
  <2>13. First(b) \in D
    <3>1. First(b) = SubSeq(b, HeaderSize + 1, k) BY <2>2, <2>8, <2>9 DEF First
    <3>2. HeaderSize + 1 \in Int /\ k \in Int BY <2>6
    <3>3. \A i \in HeaderSize + 1 .. k : b[i] \in Byte
      <4>1. \A i \in HeaderSize + 1 .. k : i \in 1 .. Len(b) BY <2>1, <2>6, <2>10
      <4>2. QED BY <2>3, <4>1, LenProperties
    <3>4. QED BY <3>1, <3>2, <3>3, SubSeqProperties
  <2>14. QED BY <2>1, <2>10, <2>12, <2>13
<1>2. base \in [D -> V] BY EmptySeq
<1>3. size \in [D -> Nat] BY LenProperties
<1>4. next \in [D \ leaf -> D] BY <1>1
<1>5. step \in [D \ leaf -> [V -> V]]
  <2>1. ASSUME NEW b \in D \ leaf, NEW q \in V PROVE <<First(b)>> \o q \in V
    <3>1. <<First(b)>> \in V BY <1>1
    <3>2. QED BY <3>1, ConcatProperties
  <2>2. QED BY <2>1
<1>6. \A b \in D \ leaf : size[next[b]] < size[b] BY <1>1
<1> DEFINE Step(g) == [b \in D |-> IF Whole(b) THEN <<First(b)>> \o g[AfterFirst(b)] ELSE <<>>]
<1>7. PICK f \in [D -> V] : \A b \in D :
          /\ b \in leaf => f[b] = base[b]
          /\ b \notin leaf => f[b] = step[b][f[next[b]]]
  <2> HIDE DEF D, V, leaf, base, size, next, step
  <2>1. IsRecursion(D, V, leaf, base, size, next, step)
    BY <1>2, <1>3, <1>4, <1>5, <1>6 DEF IsRecursion
  <2>2. QED BY <2>1, LinearRecursion
<1>8. ASSUME NEW b \in D PROVE f[b] = Step(f)[b]
  <2>1. CASE b \in leaf BY <1>7, <2>1
  <2>2. CASE b \notin leaf
    <3>1. f[AfterFirst(b)] \in V BY <1>1, <2>2
    <3>2. f[b] = step[b][f[AfterFirst(b)]] BY <1>7, <2>2
    <3>3. f[b] = <<First(b)>> \o f[AfterFirst(b)] BY <2>2, <3>1, <3>2
    <3>4. QED BY <2>2, <3>3
  <2>3. QED BY <2>1, <2>2
<1>9. f = Step(f)
  <2>1. f = [b \in D |-> f[b]] OBVIOUS
  <2>2. QED BY <1>8, <2>1
<1>10. Messages = Step(Messages) BY <1>9 DEF Messages
<1> HIDE DEF Messages
<1>11. \A b \in D : Messages[b] = IF Whole(b) THEN <<First(b)>> \o Messages[AfterFirst(b)]
                                              ELSE <<>>
  BY <1>10
<1> DEFINE S == {k \in Nat : \A b \in D : Len(b) <= k => Messages[b] \in V}
<1>12. ASSUME NEW b \in D, Whole(b) => Messages[AfterFirst(b)] \in V
       PROVE  Messages[b] \in V
  <2>1. CASE Whole(b)
    <3>1. <<First(b)>> \in V BY <1>1, <2>1
    <3>2. Messages[b] = <<First(b)>> \o Messages[AfterFirst(b)] BY <1>11, <2>1
    <3>3. QED BY <1>12, <2>1, <3>1, <3>2, ConcatProperties
  <2>2. CASE ~ Whole(b) BY <1>11, <2>2, EmptySeq
  <2>3. QED BY <2>1, <2>2
<1>13. ASSUME NEW b \in D, Whole(b)
       PROVE  /\ AfterFirst(b) \in D /\ Len(b) \in Nat
              /\ Len(AfterFirst(b)) \in Nat /\ Len(AfterFirst(b)) < Len(b)
  BY <1>1, <1>13
<1> HIDE DEF D, V, leaf, Step
<1>14. 0 \in S
  <2>1. ASSUME NEW b \in D, Len(b) <= 0 PROVE Messages[b] \in V BY <1>12, <1>13, <2>1
  <2>2. QED BY <2>1
<1>15. ASSUME NEW k \in Nat, k \in S PROVE k + 1 \in S
  <2>1. ASSUME NEW b \in D, Len(b) <= k + 1 PROVE Messages[b] \in V
    <3>1. ASSUME Whole(b) PROVE Messages[AfterFirst(b)] \in V
      <4>1. Len(AfterFirst(b)) <= k BY <1>13, <2>1, <3>1
      <4>2. QED BY <1>13, <1>15, <3>1, <4>1
    <3>2. QED BY <1>12, <3>1
  <2>2. QED BY <2>1
<1>16. \A b \in D : Messages[b] \in V
  <2>1. Nat \subseteq S BY <1>14, <1>15, InductionOnSet
  <2>2. \A b \in D : Len(b) \in Nat BY LenProperties DEF D
  <2>3. QED BY <2>1, <2>2
<1>17. Messages \in [D -> V]
  <2>1. Messages = [b \in D |-> Messages[b]] BY <1>10 DEF Step
  <2>2. QED BY <1>16, <2>1
<1>18. QED BY <1>11, <1>17 DEF D, V

\* Facts about concatenation, for bytes and for messages.
LEMMA ByteAssociative ==
    \A a \in Seq(Byte), b \in Seq(Byte), c \in Seq(Byte) : Regroups(a, b, c)
BY Regroup

LEMMA ListAssociative ==
    \A a \in Seq(Seq(Byte)), b \in Seq(Seq(Byte)), c \in Seq(Seq(Byte)) : Regroups(a, b, c)
BY Regroup

\* The messages of one encoded message and of what follows it, and of none.
LEMMA MessagesOfEncoded ==
    /\ Messages[<<>>] = <<>>
    /\ \A m \in Sendable, r \in Seq(Byte) :
          Messages[Encoded(m) \o r] = <<m>> \o Messages[r]
    /\ \A m \in Sendable : Messages[Encoded(m)] = <<m>>
<1>1. Messages[<<>>] = <<>>
  <2>1. <<>> \in Seq(Byte) /\ Len(<<>>) = 0 BY EmptySeq
  <2>2. HeaderSize \in Nat /\ HeaderSize # 0 BY TransportAssumption
  <2>3. ~ Whole(<<>>) BY <2>1, <2>2 DEF Whole
  <2>4. QED BY <2>1, <2>3, MessagesDefined
<1>2. ASSUME NEW m \in Sendable, NEW r \in Seq(Byte)
      PROVE  Messages[Encoded(m) \o r] = <<m>> \o Messages[r]
  <2>1. PICK b \in Seq(Byte) :
            b = Encoded(m) \o r /\ Whole(b) /\ First(b) = m /\ AfterFirst(b) = r
    BY EncodedFirst
  <2>2. QED BY <2>1, MessagesDefined
<1>3. ASSUME NEW m \in Sendable PROVE Messages[Encoded(m)] = <<m>>
  <2>1. Encoded(m) \in Seq(Byte) /\ <<>> \in Seq(Byte) BY HeaderOfMessage, EmptySeq
  <2>2. Encoded(m) \o <<>> = Encoded(m) BY <2>1, ConcatEmptySeq
  <2>3. Messages[Encoded(m)] = <<m>> \o <<>> BY <1>1, <1>2, <2>1, <2>2
  <2>4. <<m>> \in Seq({m}) BY OneElement DEF IsSequence
  <2>5. <<m>> \o <<>> = <<m>> BY <2>4, ConcatEmptySeq
  <2>6. QED BY <2>3, <2>5
<1>4. QED BY <1>1, <1>2, <1>3

(***************************************************************************)
(* The streams of whole messages: what every set contains that contains    *)
(* the empty stream and, with a stream, that stream and one more message.  *)
(***************************************************************************)
Extends(S) ==
    /\ S \subseteq Seq(Byte) /\ <<>> \in S
    /\ \A b \in S, m \in Sendable : b \o Encoded(m) \in S

Streams == {b \in Seq(Byte) : \A S : Extends(S) => b \in S}

\* They are one of these sets, and the smallest: induction over the messages.
LEMMA StreamsExtend == Extends(Streams)
<1>1. <<>> \in Streams BY EmptySeq DEF Streams, Extends
<1>2. ASSUME NEW b \in Streams, NEW m \in Sendable PROVE b \o Encoded(m) \in Streams
  <2>1. b \in Seq(Byte) /\ Encoded(m) \in Seq(Byte) BY HeaderOfMessage DEF Streams
  <2>2. b \o Encoded(m) \in Seq(Byte) BY <2>1, ConcatProperties
  <2>3. ASSUME NEW S, Extends(S) PROVE b \o Encoded(m) \in S
    <3>1. b \in S BY <2>3 DEF Streams
    <3>2. QED BY <2>3, <3>1 DEF Extends
  <2>4. QED BY <2>2, <2>3 DEF Streams
<1>3. QED BY <1>1, <1>2 DEF Streams, Extends

LEMMA StreamInduction ==
    ASSUME NEW S, Extends(S)
    PROVE  Streams \subseteq S
BY DEF Streams

\* A stream that is not empty starts with a message, and what follows is a stream.
StartsWhole(b) == \E m \in Sendable, r \in Streams : b = Encoded(m) \o r

LEMMA StreamStart == \A b \in Streams : b = <<>> \/ StartsWhole(b)
<1> DEFINE S == {b \in Streams : b = <<>> \/ StartsWhole(b)}
<1>1. Streams \subseteq Seq(Byte) /\ <<>> \in Streams BY StreamsExtend DEF Extends
<1>2. ASSUME NEW b \in S, NEW m \in Sendable PROVE b \o Encoded(m) \in S
  <2>1. PICK e \in Seq(Byte) : e = Encoded(m) BY HeaderOfMessage
  <2>2. b \o e \in Streams BY <2>1, StreamsExtend DEF Extends
  <2>3. CASE b = <<>>
    <3>1. b \o e = e \o <<>> BY <2>3, ConcatEmptySeq
    <3>2. QED BY <1>1, <2>1, <2>2, <3>1 DEF StartsWhole
  <2>4. CASE StartsWhole(b)
    <3>1. PICK m1 \in Sendable, r \in Streams : b = Encoded(m1) \o r BY <2>4 DEF StartsWhole
    <3>2. Encoded(m1) \in Seq(Byte) /\ r \in Seq(Byte) BY <1>1, HeaderOfMessage
    <3>3. (Encoded(m1) \o r) \o e = Encoded(m1) \o (r \o e)
      <4>1. Regroups(Encoded(m1), r, e) BY <3>2, Regroup
      <4>2. QED BY <4>1 DEF Regroups
    <3>4. r \o e \in Streams BY <2>1, StreamsExtend DEF Extends
    <3>5. StartsWhole(b \o e) BY <3>1, <3>3, <3>4 DEF StartsWhole
    <3>6. QED BY <2>1, <2>2, <3>5
  <2>5. QED BY <2>3, <2>4
<1>3. Extends(S) BY <1>1, <1>2 DEF Extends
<1>4. QED BY <1>3, StreamInduction

\* The messages of a stream come before those of what follows it.
LEMMA StreamThen ==
    \A b \in Streams, r \in Seq(Byte) : Messages[b \o r] = Messages[b] \o Messages[r]
<1> DEFINE S == {b \in Streams :
                    \A r \in Seq(Byte) : Messages[b \o r] = Messages[b] \o Messages[r]}
<1>1. Streams \subseteq Seq(Byte) /\ <<>> \in Streams BY StreamsExtend DEF Extends
<1>2. \A b \in Seq(Byte) : Messages[b] \in Seq(Seq(Byte)) BY MessagesDefined
<1>3. <<>> \in S
  <2>1. ASSUME NEW r \in Seq(Byte) PROVE Messages[<<>> \o r] = Messages[<<>>] \o Messages[r]
    <3>1. <<>> \o r = r BY ConcatEmptySeq
    <3>2. <<>> \o Messages[r] = Messages[r] BY <1>2, ConcatEmptySeq
    <3>3. QED BY <3>1, <3>2, MessagesOfEncoded
  <2>2. QED BY <1>1, <2>1
<1>4. ASSUME NEW b \in S, NEW m \in Sendable PROVE b \o Encoded(m) \in S
  <2>1. PICK e \in Seq(Byte) : e = Encoded(m) BY HeaderOfMessage
  <2>2. b \o e \in Streams BY <2>1, StreamsExtend DEF Extends
  <2>3. Messages[e] = <<m>> BY <2>1, MessagesOfEncoded
  <2>a. b \in Seq(Byte) /\ \A r \in Seq(Byte) : Messages[b \o r] = Messages[b] \o Messages[r]
    BY <1>1
  <2> HIDE DEF S
  <2>4. ASSUME NEW r \in Seq(Byte)
        PROVE  Messages[(b \o e) \o r] = Messages[b \o e] \o Messages[r]
    <3>1. (b \o e) \o r = b \o (e \o r)
      <4>1. Regroups(b, e, r) BY <2>a, Regroup
      <4>2. QED BY <4>1 DEF Regroups
    <3>2. e \o r \in Seq(Byte) BY ConcatProperties
    <3>3. Messages[b \o (e \o r)] = Messages[b] \o Messages[e \o r] BY <2>a, <3>2
    <3>4. Messages[e \o r] = Messages[e] \o Messages[r] BY <2>1, <2>3, MessagesOfEncoded
    <3>5. Messages[b \o e] = Messages[b] \o Messages[e] BY <2>a
    <3>6. /\ Messages[b] \in Seq(Seq(Byte)) /\ Messages[e] \in Seq(Seq(Byte))
          /\ Messages[r] \in Seq(Seq(Byte))
      BY <1>2, <2>a
    <3>7. (Messages[b] \o Messages[e]) \o Messages[r]
             = Messages[b] \o (Messages[e] \o Messages[r])
      <4>1. Regroups(Messages[b], Messages[e], Messages[r]) BY <3>6, ListAssociative
      <4>2. QED BY <4>1 DEF Regroups
    <3>8. QED BY <3>1, <3>3, <3>4, <3>5, <3>7
  <2>5. QED BY <2>1, <2>2, <2>4 DEF S
<1>5. Extends(S) BY <1>1, <1>3, <1>4 DEF Extends
<1>6. QED BY <1>5, StreamInduction

\* What is left of a stream when its end is lost holds its first messages.
FirstOf(p, b) == \E j \in 0 .. Len(Messages[b]) : Messages[p] = SubSeq(Messages[b], 1, j)

LEMMA StreamPart ==
    \A b \in Streams : \A p \in Seq(Byte), q \in Seq(Byte) : b = p \o q => FirstOf(p, b)
<1> DEFINE S == {b \in Streams :
                    \A p \in Seq(Byte), q \in Seq(Byte) : b = p \o q => FirstOf(p, b)}
<1>1. Streams \subseteq Seq(Byte) /\ <<>> \in Streams BY StreamsExtend DEF Extends
<1>2. \A b \in Seq(Byte) : Messages[b] \in Seq(Seq(Byte)) BY MessagesDefined
<1>3. \A b \in Seq(Byte) : FirstOf(b, b)
  <2> TAKE b \in Seq(Byte)
  <2>1. Len(Messages[b]) \in 0 .. Len(Messages[b]) BY <1>2, LenProperties
  <2>2. SubSeq(Messages[b], 1, Len(Messages[b])) = Messages[b] BY <1>2, SubSeqFull
  <2>3. QED BY <2>1, <2>2 DEF FirstOf
<1>4. <<>> \in S
  <2>1. ASSUME NEW p \in Seq(Byte), NEW q \in Seq(Byte), <<>> = p \o q PROVE p = <<>>
    <3>1. p \o q = <<>> BY <2>1
    <3>2. QED BY <3>1, ConcatEqualIffEmpty
  <2>2. QED BY <1>1, <1>3, <2>1
<1>5. ASSUME NEW b \in S, NEW m \in Sendable PROVE b \o Encoded(m) \in S
  <2>1. PICK e \in Seq(Byte) : e = Encoded(m) BY HeaderOfMessage
  <2>2. PICK c \in Streams : c = b \o e BY <2>1, StreamsExtend DEF Extends
  <2>3. PICK x \in Seq(Seq(Byte)) : x = Messages[b] BY <1>1, <1>2
  <2>4. PICK y \in Seq(Seq(Byte)) : y = Messages[e] BY <1>2
  <2>5. Messages[c] = x \o y BY <2>2, <2>3, <2>4, StreamThen
  <2>6. ASSUME NEW j \in 0 .. Len(x)
        PROVE  j \in 0 .. Len(x \o y) /\ SubSeq(x \o y, 1, j) = SubSeq(x, 1, j)
    <3>1. PICK k \in Nat, l \in Nat : k = Len(x) /\ l = Len(y) /\ Len(x \o y) = k + l
      BY LenProperties, ConcatProperties
    <3>2. j \in 0 .. Len(x \o y) BY <3>1
    <3>3. CASE j = 0
      <4>1. SubSeq(x \o y, 1, 0) = <<>> /\ SubSeq(x, 1, 0) = <<>> BY SubSeqEmpty
      <4>2. QED BY <3>2, <3>3, <4>1
    <3>4. CASE j # 0
      <4>1. j \in 1 .. Len(x) /\ 1 \in 1 .. Len(x) BY <3>1, <3>4
      <4>2. QED BY <3>2, <4>1, SubSeqOfConcat1
    <3>5. QED BY <3>3, <3>4
  <2>a. /\ b \in Streams /\ b \in Seq(Byte)
        /\ \A p \in Seq(Byte), q \in Seq(Byte) : b = p \o q => FirstOf(p, b)
    BY <1>1
  <2> HIDE DEF S
  <2>7. ASSUME NEW p \in Seq(Byte), NEW q \in Seq(Byte), c = p \o q PROVE FirstOf(p, c)
    <3>1. Len(p) \in Nat /\ Len(b) \in Nat BY <1>1, LenProperties
    <3>2. CASE Len(p) <= Len(b)
      <4>1. PICK w \in Seq(Byte) : b = p \o w
        <5>1. SameWhole(p, q, b, e) BY <2>2, <2>7 DEF SameWhole
        <5>2. b \in Seq(Byte) BY <2>a
        <5>3. Later(Byte, p, q, b, e) BY <3>2, <5>1, <5>2, LaterCut
        <5>4. QED BY <5>3 DEF Later
      <4>2. PICK j \in 0 .. Len(x) : Messages[p] = SubSeq(x, 1, j)
        BY <2>a, <2>3, <4>1 DEF FirstOf
      <4>3. QED BY <2>5, <2>6, <4>2 DEF FirstOf
    <3>3. CASE Len(b) <= Len(p)
      <4>1. PICK w \in Seq(Byte) : p = b \o w /\ e = w \o q
        <5>1. SameWhole(b, e, p, q) BY <2>2, <2>7 DEF SameWhole
        <5>2. b \in Seq(Byte) BY <2>a
        <5>3. Later(Byte, b, e, p, q) BY <3>3, <5>1, <5>2, LaterCut
        <5>4. QED BY <5>3 DEF Later
      <4>2. CASE q = <<>>
        <5>1. c = p BY <2>7, <4>2, ConcatEmptySeq
        <5>2. QED BY <1>3, <5>1
      <4>3. CASE q # <<>>
        <5>1. ~ Whole(w) BY <2>1, <4>1, <4>3, PartIsNotWhole
        <5>2. Messages[w] = <<>> BY <5>1, MessagesDefined
        <5>3. Messages[p] = x \o <<>> BY <2>a, <2>3, <4>1, <5>2, StreamThen
        <5>4. Messages[p] = x BY <5>3, ConcatEmptySeq
        <5>5. Len(x) \in 0 .. Len(x) /\ SubSeq(x, 1, Len(x)) = x BY LenProperties, SubSeqFull
        <5>6. QED BY <2>5, <2>6, <5>4, <5>5 DEF FirstOf
      <4>4. QED BY <4>2, <4>3
    <3>4. QED BY <3>1, <3>2, <3>3
  <2>8. QED BY <2>1, <2>2, <2>7 DEF S
<1>6. Extends(S) BY <1>1, <1>4, <1>5 DEF Extends
<1>7. QED BY <1>6, StreamInduction

(***************************************************************************)
(* The bytes on their way: what of a message has been put together, what   *)
(* is on the wire, and what is still to be written.                        *)
(***************************************************************************)
Flight(h, d, w, u) == h \o d \o w \o u

\* Sequences of bytes are put together into others.
LEMMA BytesClosed ==
    /\ <<>> \in Seq(Byte)
    /\ \A a \in Seq(Byte), b \in Seq(Byte) : a \o b \in Seq(Byte)
    /\ \A a \in Seq(Byte) : a \o <<>> = a /\ <<>> \o a = a
BY ConcatProperties, ConcatEmptySeq, EmptySeq

LEMMA FlightBytes ==
    ASSUME NEW h \in Seq(Byte), NEW d \in Seq(Byte), NEW w \in Seq(Byte), NEW u \in Seq(Byte)
    PROVE  Flight(h, d, w, u) \in Seq(Byte)
BY BytesClosed DEF Flight

\* Bytes go to the wire.
LEMMA FlightWired ==
    ASSUME NEW h \in Seq(Byte), NEW d \in Seq(Byte), NEW w \in Seq(Byte),
           NEW b \in Seq(Byte), NEW u \in Seq(Byte)
    PROVE  Flight(h, d, w, b \o u) = Flight(h, d, w \o b, u)
<1>1. PICK p \in Seq(Byte) : p = h \o d BY BytesClosed
<1>2. p \o w \in Seq(Byte) BY BytesClosed
<1>3. (p \o w) \o (b \o u) = ((p \o w) \o b) \o u
  <2>1. Regroups(p \o w, b, u) BY <1>2, ByteAssociative
  <2>2. QED BY <2>1 DEF Regroups
<1>4. (p \o w) \o b = p \o (w \o b)
  <2>1. Regroups(p, w, b) BY ByteAssociative
  <2>2. QED BY <2>1 DEF Regroups
<1>5. QED BY <1>1, <1>3, <1>4 DEF Flight

\* The end of what is on the wire is lost, and what is unsent.
CutAt(h, d, w, b, u) == Flight(h, d, w \o b, u) = Flight(h, d, w, <<>>) \o (b \o u)

LEMMA FlightCut ==
    ASSUME NEW h \in Seq(Byte), NEW d \in Seq(Byte), NEW w \in Seq(Byte),
           NEW b \in Seq(Byte), NEW u \in Seq(Byte)
    PROVE  CutAt(h, d, w, b, u)
<1>1. PICK e \in Seq(Byte) : e = b \o u BY BytesClosed
<1>2. Flight(h, d, w \o b, u) = Flight(h, d, w, b \o u) BY FlightWired
<1>3. Flight(h, d, w, e) = Flight(h, d, w, <<>>) \o e
  <2>1. PICK p \in Seq(Byte) : p = h \o d \o w BY BytesClosed
  <2>2. p \o <<>> = p BY BytesClosed
  <2>3. QED BY <2>1, <2>2 DEF Flight
<1>4. QED BY <1>1, <1>2, <1>3 DEF CutAt

\* Bytes come from the wire into the header, or into the data.
HeaderPart(h, c, w, u) ==
    /\ Flight(h, <<>>, c \o w, u) = Flight(h \o c, <<>>, w, u)
    /\ Flight(h, <<>>, c \o w, u) = (h \o c) \o (w \o u)

LEMMA FlightHeader ==
    ASSUME NEW h \in Seq(Byte), NEW c \in Seq(Byte), NEW w \in Seq(Byte), NEW u \in Seq(Byte)
    PROVE  HeaderPart(h, c, w, u)
<1>1. h \o c \in Seq(Byte) BY BytesClosed
<1>2. h \o <<>> = h /\ (h \o c) \o <<>> = h \o c BY <1>1, BytesClosed
<1>3. h \o (c \o w) = (h \o c) \o w
  <2>1. Regroups(h, c, w) BY ByteAssociative
  <2>2. QED BY <2>1 DEF Regroups
<1>4. ((h \o c) \o w) \o u = (h \o c) \o (w \o u)
  <2>1. Regroups(h \o c, w, u) BY <1>1, ByteAssociative
  <2>2. QED BY <2>1 DEF Regroups
<1>5. QED BY <1>2, <1>3, <1>4 DEF Flight, HeaderPart

DataPart(h, d, c, w, u) ==
    /\ Flight(h, d, c \o w, u) = Flight(h, d \o c, w, u)
    /\ Flight(h, d, c \o w, u) = (h \o (d \o c)) \o (w \o u)

LEMMA FlightData ==
    ASSUME NEW h \in Seq(Byte), NEW d \in Seq(Byte), NEW c \in Seq(Byte),
           NEW w \in Seq(Byte), NEW u \in Seq(Byte)
    PROVE  DataPart(h, d, c, w, u)
<1>1. (h \o d) \o (c \o w) = ((h \o d) \o c) \o w
  <2>1. h \o d \in Seq(Byte) BY BytesClosed
  <2>2. QED
    <3>1. Regroups(h \o d, c, w) BY <2>1, ByteAssociative
    <3>2. QED BY <3>1 DEF Regroups
<1>2. (h \o d) \o c = h \o (d \o c)
  <2>1. Regroups(h, d, c) BY ByteAssociative
  <2>2. QED BY <2>1 DEF Regroups
<1>3. PICK p \in Seq(Byte) : p = h \o (d \o c) BY BytesClosed
<1>4. (p \o w) \o u = p \o (w \o u)
  <2>1. Regroups(p, w, u) BY ByteAssociative
  <2>2. QED BY <2>1 DEF Regroups
<1>5. QED BY <1>1, <1>2, <1>3, <1>4 DEF Flight, DataPart

\* The first of the messages, and those after it.
LEMMA HeadAndRest ==
    \A e \in Seq(Byte), s \in Seq(Seq(Byte)) :
        <<e>> \o s # <<>> /\ Head(<<e>> \o s) = e /\ Tail(<<e>> \o s) = s
<1> TAKE e \in Seq(Byte), s \in Seq(Seq(Byte))
<1>1. PICK x \in Seq(Seq(Byte)) : x = <<e>> \o s /\ Len(x) = 1 + Len(s) /\ x[1] = e
  <2>1. <<e>> \in Seq(Seq(Byte)) /\ Len(<<e>>) = 1 /\ <<e>>[1] = e OBVIOUS
  <2>2. Len(s) \in Nat /\ 1 \in 1 .. Len(<<e>>) + Len(s) BY <2>1, LenProperties
  <2>3. <<e>> \o s \in Seq(Seq(Byte)) /\ Len(<<e>> \o s) = Len(<<e>>) + Len(s)
    BY <2>1, ConcatProperties
  <2>4. (<<e>> \o s)[1] = <<e>>[1] BY <2>1, <2>2, ConcatProperties
  <2>5. QED BY <2>1, <2>3, <2>4
<1>2. Len(s) \in Nat BY LenProperties
<1>3. x # <<>> BY <1>1, <1>2, EmptySeq
<1>4. Head(x) = e BY <1>1, <1>3, HeadTailProperties
<1>5. PICK y \in Seq(Seq(Byte)) : y = Tail(x) BY <1>3, HeadTailProperties
<1>6. x = <<e>> \o y BY <1>3, <1>4, <1>5, HeadTailProperties
<1>7. <<e>> \in Seq(Seq(Byte)) OBVIOUS
<1>8. y = s BY <1>1, <1>6, <1>7, ConcatSimplifications
<1>9. QED BY <1>1, <1>3, <1>4, <1>5, <1>8

(***************************************************************************)
(* What the receiver puts together of a stream that may still grow.        *)
(***************************************************************************)
Grows(b) == \E q \in Seq(Byte) : b \o q \in Streams

\* The header that it has read is that of a message that was sent.
LEMMA HeaderRight ==
    ASSUME NEW h \in Seq(Byte), Len(h) = HeaderSize, NEW r \in Seq(Byte), Grows(h \o r)
    PROVE  \E m \in Sendable : h = pack(Len(m)) /\ unpack(h) = Len(m)
<1>1. PICK q \in Seq(Byte) : (h \o r) \o q \in Streams BY DEF Grows
<1>2. PICK t \in Seq(Byte) : t = r \o q BY BytesClosed
<1>3. h \o t \in Streams
  <2>1. (h \o r) \o q = h \o (r \o q)
    <3>1. Regroups(h, r, q) BY ByteAssociative
    <3>2. QED BY <3>1 DEF Regroups
  <2>2. QED BY <1>1, <1>2, <2>1
<1>4. h \o t # <<>>
  <2>1. h # <<>> BY TransportAssumption, EmptySeq
  <2>2. QED BY <2>1, ConcatEqualIffEmpty
<1>5. PICK m \in Sendable, s \in Streams : h \o t = Encoded(m) \o s
  BY <1>3, <1>4, StreamStart DEF StartsWhole
<1>6. s \in Seq(Byte) BY StreamsExtend DEF Extends
<1>7. Len(h) >= HeaderSize
  <2>1. HeaderSize \in Nat BY TransportAssumption
  <2>2. QED BY <2>1
<1>8. SubSeq(h, 1, HeaderSize) = pack(Len(m)) BY <1>5, <1>6, <1>7, HeaderOfPart
<1>9. SubSeq(h, 1, Len(h)) = h BY SubSeqFull
<1>10. unpack(pack(Len(m))) = Len(m) BY HeaderOfMessage
<1>11. h = pack(Len(m)) BY <1>8, <1>9
<1>12. QED BY <1>10, <1>11

\* A header and as many bytes as it says are a message, and a stream goes on after it.
LEMMA MessageRight ==
    ASSUME NEW h \in Seq(Byte), Len(h) = HeaderSize,
           NEW m \in Sendable, h = pack(Len(m)),
           NEW d \in Seq(Byte), Len(d) = Len(m), NEW r \in Seq(Byte), (h \o d) \o r \in Streams
    PROVE  d \in Sendable /\ h \o d = Encoded(d) /\ r \in Streams
<1>1. PICK x \in Seq(Byte) : x = h \o d /\ Len(x) = HeaderSize + Len(m)
  <2>1. h \o d \in Seq(Byte) /\ Len(h \o d) = Len(h) + Len(d) BY CutConcat
  <2>2. QED BY <2>1
<1>2. x \o r \in Streams BY <1>1
<1>3. x \o r # <<>>
  <2>1. HeaderSize \in Nat \ {0} BY TransportAssumption
  <2>2. Len(m) \in Nat BY HeaderOfMessage
  <2>3. Len(x) # 0 BY <1>1, <2>1, <2>2
  <2>4. x # <<>> BY <2>3, EmptySeq
  <2>5. QED BY <2>4, ConcatEqualIffEmpty
<1>4. PICK n \in Sendable, s \in Streams : x \o r = Encoded(n) \o s
  BY <1>2, <1>3, StreamStart DEF StartsWhole
<1>5. s \in Seq(Byte) BY StreamsExtend DEF Extends
<1>6. Len(n) = Len(m)
  <2>1. Len(x) >= HeaderSize
    <3>1. HeaderSize \in Nat BY TransportAssumption
    <3>2. Len(m) \in Nat BY HeaderOfMessage
    <3>3. QED BY <1>1, <3>1, <3>2
  <2>2. SubSeq(x, 1, HeaderSize) = pack(Len(n)) BY <1>4, <1>5, <2>1, HeaderOfPart
  <2>3. SubSeq(h \o d, 1, Len(h)) = h BY CutConcat
  <2>4. pack(Len(n)) = pack(Len(m)) BY <1>1, <2>2, <2>3
  <2>5. unpack(pack(Len(n))) = Len(n) /\ unpack(pack(Len(m))) = Len(m) BY HeaderOfMessage
  <2>6. QED BY <2>4, <2>5
<1>7. PICK e \in Seq(Byte) : e = Encoded(n) /\ Len(e) = HeaderSize + Len(n)
  BY HeaderOfMessage
<1>8. x \o r = e \o s /\ Len(x) = Len(e) BY <1>1, <1>4, <1>6, <1>7
<1>9. x = e /\ r = s BY <1>5, <1>8, EqualParts
<1>10. h \o d = pack(Len(n)) \o n /\ h = pack(Len(n)) BY <1>1, <1>6, <1>7, <1>9 DEF Encoded
<1>11. n \in Seq(Byte) BY HeaderOfMessage
<1>12. d = n BY <1>10, <1>11, EqualParts
<1>13. QED BY <1>7, <1>9, <1>1, <1>12

(***************************************************************************)
(* The invariant: what the receiver has put together is the start of a     *)
(* message, every byte on its way belongs to a message that was sent, and  *)
(* while the connection is open none is missing.                           *)
(***************************************************************************)
InTransit(h, d, w, u, o) ==
    /\ h \in Seq(Byte) /\ d \in Seq(Byte) /\ w \in Seq(Byte) /\ u \in Seq(Byte)
    /\ o \in BOOLEAN
    /\ Len(h) <= HeaderSize
    /\ Len(h) # HeaderSize => d = <<>>
    /\ Len(h) = HeaderSize => Len(d) < unpack(h)
    /\ Grows(Flight(h, d, w, u))
    /\ o => Flight(h, d, w, u) \in Streams
    /\ ~ o => u = <<>>

TransportInv == InTransit(header, data, wire, unsent, open)

LEMMA StreamGrows == \A b \in Streams : b \in Seq(Byte) /\ Grows(b)
<1> TAKE b \in Streams
<1>1. b \in Seq(Byte) BY StreamsExtend DEF Extends
<1>2. b \o <<>> = b /\ <<>> \in Seq(Byte) BY <1>1, BytesClosed
<1>3. QED BY <1>1, <1>2 DEF Grows

\* The length in a header that has been read.
LEMMA LengthRead ==
    ASSUME NEW h, NEW d, NEW w, NEW u, NEW o, InTransit(h, d, w, u, o), Len(h) = HeaderSize
    PROVE  \E m \in Sendable : h = pack(Len(m)) /\ unpack(h) = Len(m)
<1>1. PICK r \in Seq(Byte) : Flight(h, d, w, u) = h \o r
  <2>1. h \in Seq(Byte) /\ d \in Seq(Byte) /\ w \in Seq(Byte) /\ u \in Seq(Byte)
    BY DEF InTransit
  <2>2. PICK x \in Seq(Byte) : x = d \o w BY <2>1, BytesClosed
  <2>3. (h \o d) \o w = h \o x
    <3>1. Regroups(h, d, w) BY <2>1, <2>2, ByteAssociative
    <3>2. QED BY <2>2, <3>1 DEF Regroups
  <2>4. (h \o x) \o u = h \o (x \o u)
    <3>1. Regroups(h, x, u) BY <2>1, ByteAssociative
    <3>2. QED BY <3>1 DEF Regroups
  <2>5. x \o u \in Seq(Byte) BY <2>1, BytesClosed
  <2>6. QED BY <2>3, <2>4, <2>5 DEF Flight
<1>2. h \in Seq(Byte) /\ Grows(h \o r) BY <1>1 DEF InTransit
<1>3. QED BY <1>2, HeaderRight

\* A message is written.
LEMMA TransitSent ==
    ASSUME NEW h, NEW d, NEW w, InTransit(h, d, w, <<>>, TRUE), NEW m \in Sendable
    PROVE  /\ InTransit(h, d, w, Encoded(m), TRUE)
           /\ Messages[Flight(h, d, w, Encoded(m))]
                = Append(Messages[Flight(h, d, w, <<>>)], m)
<1>1. h \in Seq(Byte) /\ d \in Seq(Byte) /\ w \in Seq(Byte) BY DEF InTransit
<1>2. PICK f \in Streams : f = Flight(h, d, w, <<>>) BY DEF InTransit
<1>3. PICK e \in Seq(Byte) : e = Encoded(m) BY HeaderOfMessage
<1>4. Flight(h, d, w, e) = f \o e
  <2>1. PICK p \in Seq(Byte) : p = h \o d \o w BY <1>1, BytesClosed
  <2>2. p \o <<>> = p BY BytesClosed
  <2>3. QED BY <1>2, <2>1, <2>2 DEF Flight
<1>5. f \o e \in Streams BY <1>3, StreamsExtend DEF Extends
<1>6. Grows(f \o e) BY <1>5, StreamGrows
<1>7. Messages[f \o e] = Messages[f] \o <<m>>
  <2>1. Messages[f \o e] = Messages[f] \o Messages[e] BY StreamThen
  <2>2. Messages[e] = <<m>> BY <1>3, MessagesOfEncoded
  <2>3. QED BY <2>1, <2>2
<1>8. Messages[f] \o <<m>> = Append(Messages[f], m)
  <2>1. f \in Seq(Byte) /\ m \in Seq(Byte) BY StreamGrows, HeaderOfMessage
  <2>2. Messages[f] \in Seq(Seq(Byte)) BY <2>1, MessagesDefined
  <2>3. QED BY <2>1, <2>2, AppendIsConcat
<1>9. InTransit(h, d, w, e, TRUE) BY <1>4, <1>5, <1>6 DEF InTransit
<1>10. QED BY <1>2, <1>3, <1>4, <1>7, <1>8, <1>9

\* Bytes go to the wire.
LEMMA TransitWired ==
    ASSUME NEW h, NEW d, NEW w, NEW o, NEW b \in Seq(Byte), NEW u \in Seq(Byte),
           InTransit(h, d, w, b \o u, o)
    PROVE  /\ InTransit(h, d, w \o b, u, o)
           /\ Flight(h, d, w \o b, u) = Flight(h, d, w, b \o u)
<1>1. h \in Seq(Byte) /\ d \in Seq(Byte) /\ w \in Seq(Byte) BY DEF InTransit
<1>2. Flight(h, d, w, b \o u) = Flight(h, d, w \o b, u) BY <1>1, FlightWired
<1>3. w \o b \in Seq(Byte) BY <1>1, BytesClosed
<1>4. b \o u = <<>> => u = <<>> BY ConcatEqualIffEmpty
<1>5. InTransit(h, d, w \o b, u, o) BY <1>2, <1>3, <1>4 DEF InTransit
<1>6. QED BY <1>2, <1>5

\* The connection ends.
LEMMA TransitCut ==
    ASSUME NEW h, NEW d, NEW w \in Seq(Byte), NEW b \in Seq(Byte), NEW u,
           InTransit(h, d, w \o b, u, TRUE)
    PROVE  /\ InTransit(h, d, w, <<>>, FALSE)
           /\ FirstOf(Flight(h, d, w, <<>>), Flight(h, d, w \o b, u))
<1>1. h \in Seq(Byte) /\ d \in Seq(Byte) /\ u \in Seq(Byte) BY DEF InTransit
<1>2. PICK f \in Streams : f = Flight(h, d, w \o b, u) BY DEF InTransit
<1>3. PICK p \in Seq(Byte) : p = Flight(h, d, w, <<>>) BY <1>1, BytesClosed, FlightBytes
<1>4. PICK q \in Seq(Byte) : q = b \o u BY <1>1, BytesClosed
<1>5. f = p \o q
  <2>1. CutAt(h, d, w, b, u) BY <1>1, FlightCut
  <2>2. QED BY <1>2, <1>3, <1>4, <2>1 DEF CutAt
<1>6. FirstOf(p, f) BY <1>5, StreamPart
<1>7. Grows(p) BY <1>5 DEF Grows
<1>8. InTransit(h, d, w, <<>>, FALSE) BY <1>3, <1>7, BytesClosed DEF InTransit
<1>9. QED BY <1>2, <1>3, <1>6, <1>8

\* Bytes are received, of the header and of the data.
LEMMA TransitHeader ==
    ASSUME NEW h, NEW c \in Seq(Byte), NEW w \in Seq(Byte), NEW u, NEW o,
           InTransit(h, <<>>, c \o w, u, o), Len(h \o c) <= HeaderSize
    PROVE  /\ InTransit(h \o c, <<>>, w, u, o)
           /\ Flight(h \o c, <<>>, w, u) = Flight(h, <<>>, c \o w, u)
           /\ Len(h \o c) = HeaderSize => unpack(h \o c) <= MaxMessage
<1>1. h \in Seq(Byte) /\ u \in Seq(Byte) /\ o \in BOOLEAN BY DEF InTransit
<1>2. PICK x \in Seq(Byte) : x = h \o c BY <1>1, BytesClosed
<1>3. PICK r \in Seq(Byte) : r = w \o u BY <1>1, BytesClosed
<1>4. Flight(h, <<>>, c \o w, u) = Flight(x, <<>>, w, u)
  <2>1. HeaderPart(h, c, w, u) BY <1>1, FlightHeader
  <2>2. QED BY <1>2, <2>1 DEF HeaderPart
<1>5. Flight(h, <<>>, c \o w, u) = x \o r
  <2>1. HeaderPart(h, c, w, u) BY <1>1, FlightHeader
  <2>2. QED BY <1>2, <1>3, <2>1 DEF HeaderPart
<1>6. Grows(x \o r) BY <1>5 DEF InTransit
<1>7. ASSUME Len(x) = HeaderSize PROVE unpack(x) <= MaxMessage /\ Len(<<>>) < unpack(x)
  <2>1. PICK m \in Sendable : unpack(x) = Len(m) BY <1>6, <1>7, HeaderRight
  <2>2. Len(m) \in Nat /\ Len(m) >= 1 /\ Len(m) <= MaxMessage BY HeaderOfMessage
  <2>3. Len(<<>>) = 0 BY EmptySeq
  <2>4. QED BY <2>1, <2>2, <2>3
<1>8. InTransit(x, <<>>, w, u, o)
  BY <1>1, <1>2, <1>4, <1>7, BytesClosed DEF InTransit
<1>9. QED BY <1>2, <1>4, <1>7, <1>8

LEMMA TransitData ==
    ASSUME NEW h, NEW d, NEW c \in Seq(Byte), NEW w \in Seq(Byte), NEW u, NEW o,
           InTransit(h, d, c \o w, u, o), Len(h) = HeaderSize, Len(d \o c) < unpack(h)
    PROVE  /\ InTransit(h, d \o c, w, u, o)
           /\ Flight(h, d \o c, w, u) = Flight(h, d, c \o w, u)
<1>1. h \in Seq(Byte) /\ d \in Seq(Byte) /\ u \in Seq(Byte) BY DEF InTransit
<1>2. Flight(h, d, c \o w, u) = Flight(h, d \o c, w, u)
  <2>1. DataPart(h, d, c, w, u) BY <1>1, FlightData
  <2>2. QED BY <2>1 DEF DataPart
<1>3. d \o c \in Seq(Byte) BY <1>1, BytesClosed
<1>4. InTransit(h, d \o c, w, u, o) BY <1>2, <1>3 DEF InTransit
<1>5. QED BY <1>2, <1>4

\* The last bytes of a message are received.
MessageGiven(h, d, c, w, u) ==
    Messages[Flight(h, d, c \o w, u)] = <<d \o c>> \o Messages[Flight(<<>>, <<>>, w, u)]

LEMMA TransitGiven ==
    ASSUME NEW h, NEW d, NEW c \in Seq(Byte), NEW w \in Seq(Byte), NEW u, NEW o,
           InTransit(h, d, c \o w, u, o), Len(h) = HeaderSize, Len(d \o c) = unpack(h)
    PROVE  /\ InTransit(<<>>, <<>>, w, u, o)
           /\ MessageGiven(h, d, c, w, u)
<1>1. h \in Seq(Byte) /\ d \in Seq(Byte) /\ u \in Seq(Byte) /\ o \in BOOLEAN BY DEF InTransit
<1>2. PICK x \in Seq(Byte) : x = d \o c BY <1>1, BytesClosed
<1>3. PICK r \in Seq(Byte) : r = w \o u BY <1>1, BytesClosed
<1>4. Flight(h, d, c \o w, u) = (h \o x) \o r
  <2>1. DataPart(h, d, c, w, u) BY <1>1, FlightData
  <2>2. QED BY <1>2, <1>3, <2>1 DEF DataPart
<1>5. Flight(<<>>, <<>>, w, u) = r
  <2>1. <<>> \o <<>> = <<>> /\ <<>> \o w = w BY BytesClosed
  <2>2. QED BY <1>3, <2>1 DEF Flight
<1>6. PICK m \in Sendable : h = pack(Len(m)) /\ unpack(h) = Len(m) BY LengthRead
<1>7. Len(x) = Len(m) BY <1>2, <1>6
<1>8. PICK f \in Seq(Byte) : f = h \o x BY <1>1, BytesClosed
<1>9. PICK q \in Seq(Byte) : (f \o r) \o q \in Streams
  BY <1>4, <1>8 DEF InTransit, Grows
<1>10. x \in Sendable /\ f = Encoded(x) /\ r \o q \in Streams
  <2>1. PICK t \in Seq(Byte) : t = r \o q BY BytesClosed
  <2>2. (f \o r) \o q = f \o t
    <3>1. (f \o r) \o q = f \o (r \o q)
      <4>1. Regroups(f, r, q) BY ByteAssociative
      <4>2. QED BY <4>1 DEF Regroups
    <3>2. QED BY <2>1, <3>1
  <2>3. (h \o x) \o t \in Streams BY <1>8, <1>9, <2>2
  <2>4. x \in Sendable /\ h \o x = Encoded(x) /\ t \in Streams
    BY <1>1, <1>6, <1>7, <2>3, MessageRight
  <2>5. QED BY <1>8, <2>1, <2>4
<1>11. ASSUME o PROVE r \in Streams
  <2>1. (h \o x) \o r \in Streams BY <1>4, <1>11 DEF InTransit
  <2>2. QED BY <1>1, <1>6, <1>7, <2>1, MessageRight
<1>12. Messages[f \o r] = <<x>> \o Messages[r] BY <1>10, MessagesOfEncoded
<1>13. InTransit(<<>>, <<>>, w, u, o)
  <2>1. Grows(r) BY <1>10 DEF Grows
  <2>2. Len(<<>>) = 0 /\ HeaderSize \in Nat \ {0} BY EmptySeq, TransportAssumption
  <2>3. ~ o => u = <<>> BY DEF InTransit
  <2>4. <<>> \in Seq(Byte) /\ Len(<<>>) <= HeaderSize /\ Len(<<>>) # HeaderSize
    BY <2>2, BytesClosed
  <2>5. QED BY <1>1, <1>5, <1>11, <2>1, <2>3, <2>4 DEF InTransit
<1>14. MessageGiven(h, d, c, w, u) BY <1>2, <1>4, <1>5, <1>8, <1>12 DEF MessageGiven
<1>15. QED BY <1>13, <1>14

\* The start of a message holds no message.
LEMMA TransitEnded ==
    ASSUME NEW h, NEW d, NEW o, InTransit(h, d, <<>>, <<>>, o)
    PROVE  Messages[Flight(h, d, <<>>, <<>>)] = <<>>
<1>1. h \in Seq(Byte) /\ d \in Seq(Byte) BY DEF InTransit
<1>2. PICK p \in Seq(Byte) : p = h \o d BY <1>1, BytesClosed
<1>3. Flight(h, d, <<>>, <<>>) = p
  <2>1. p \o <<>> = p BY BytesClosed
  <2>2. QED BY <1>2, <2>1 DEF Flight
<1>4. Len(p) = Len(h) + Len(d) /\ SubSeq(p, 1, Len(h)) = h BY <1>1, <1>2, CutConcat
<1>5. HeaderSize \in Nat /\ Len(h) \in Nat /\ Len(d) \in Nat
  BY <1>1, LenProperties, TransportAssumption
<1>6. ~ Whole(p)
  <2>1. CASE Len(h) # HeaderSize
    <3>1. d = <<>> /\ Len(h) <= HeaderSize BY <2>1 DEF InTransit
    <3>2. Len(d) = 0 BY <3>1, EmptySeq
    <3>3. Len(p) < HeaderSize
      <4>1. PICK k \in Nat : k = Len(h) BY <1>5
      <4>2. Len(p) = k + 0 BY <1>4, <3>2, <4>1
      <4>3. QED BY <1>5, <2>1, <3>1, <4>1, <4>2
    <3>4. QED BY <1>4, <1>5, <3>3 DEF Whole
  <2>2. CASE Len(h) = HeaderSize
    <3>1. Len(d) < unpack(h) BY <2>2 DEF InTransit
    <3>2. PICK m \in Sendable : unpack(h) = Len(m) BY <2>2, LengthRead
    <3>3. Len(m) \in Nat BY HeaderOfMessage
    <3>4. SubSeq(p, 1, HeaderSize) = h BY <1>4, <2>2
    <3>5. Len(p) = HeaderSize + Len(d) BY <1>4, <2>2
    <3>6. ~ (HeaderSize + Len(d) >= HeaderSize + Len(m)) BY <1>5, <3>1, <3>2, <3>3
    <3>7. QED BY <3>2, <3>4, <3>5, <3>6 DEF Whole
  <2>3. QED BY <2>1, <2>2
<1>7. QED BY <1>3, <1>6, MessagesDefined
-----------------------------------------------------------------------------
(***************************************************************************)
(* Each step of the transport is one of the channel, or changes nothing    *)
(* that the channel shows.                                                 *)
(***************************************************************************)
ChannelStep == [Chan!ChannelNext]_(Chan!channelVars)

\* What is in flight, before a step and after it.
LEMMA FlightNow ==
    /\ InFlight = Flight(header, data, wire, unsent)
    /\ InFlight' = Flight(header', data', wire', unsent')
BY DEF InFlight, Flight

\* A step that moves bytes on is not seen on the channel.
LEMMA SameFlight ==
    ASSUME InFlight' = InFlight, open' = open, got' = got
    PROVE  ChannelStep
BY DEF ChannelStep, Chan!channelVars

\* The first state, and each action.
LEMMA TransportInitial == TransportInit => TransportInv /\ Chan!ChannelInit
<1> HAVE TransportInit
<1>1. /\ header = <<>> /\ data = <<>> /\ wire = <<>> /\ unsent = <<>>
      /\ open = TRUE /\ got = Asking
  BY DEF TransportInit
<1>2. Flight(<<>>, <<>>, <<>>, <<>>) = <<>>
  <2>1. <<>> \o <<>> = <<>> BY BytesClosed
  <2>2. QED BY <2>1 DEF Flight
<1>3. <<>> \in Streams BY StreamsExtend DEF Extends
<1>4. InTransit(<<>>, <<>>, <<>>, <<>>, TRUE)
  <2>1. Len(<<>>) = 0 /\ HeaderSize \in Nat \ {0} BY EmptySeq, TransportAssumption
  <2>2. Len(<<>>) <= HeaderSize /\ Len(<<>>) # HeaderSize BY <2>1
  <2>3. Grows(<<>>) BY <1>3, StreamGrows
  <2>4. QED BY <1>2, <1>3, <2>2, <2>3, BytesClosed DEF InTransit
<1>5. InFlight = <<>> BY <1>1, <1>2, FlightNow
<1>6. Messages[InFlight] = <<>> BY <1>5, MessagesOfEncoded
<1>7. QED BY <1>1, <1>4, <1>6 DEF TransportInv, Chan!ChannelInit

LEMMA SendStep ==
    ASSUME TransportInv, NEW m \in Message, send_msg(m)
    PROVE  TransportInv' /\ ChannelStep
<1>1. /\ open /\ unsent = <<>>
      /\ unsent' = IF Len(m) > MaxMessage THEN <<>> ELSE pack(Len(m)) \o m
      /\ wire' = wire /\ open' = open /\ header' = header /\ data' = data /\ got' = got
  BY DEF send_msg
<1>2. m \in Seq(Byte) /\ Len(m) \in Nat /\ MaxMessage \in Nat
  BY TransportAssumption, LenProperties
<1>3. CASE Len(m) > MaxMessage
  <2>1. unsent' = unsent BY <1>1, <1>3
  <2>2. InFlight' = InFlight BY <1>1, <2>1, FlightNow
  <2>3. QED BY <1>1, <2>1, <2>2, SameFlight DEF TransportInv
<1>4. CASE ~ (Len(m) > MaxMessage)
  <2>1. PICK h, d, w : h = header /\ d = data /\ w = wire OBVIOUS
  <2>2. InTransit(h, d, w, <<>>, TRUE) BY <1>1, <2>1 DEF TransportInv, InTransit
  <2>3. m \in Sendable
    <3>1. Len(m) <= MaxMessage BY <1>2, <1>4
    <3>2. QED BY <3>1 DEF Sendable
  <2>4. unsent' = Encoded(m) BY <1>1, <1>4 DEF Encoded
  <2>5. /\ InTransit(h, d, w, Encoded(m), TRUE)
        /\ Messages[Flight(h, d, w, Encoded(m))] = Append(Messages[Flight(h, d, w, <<>>)], m)
    BY <2>2, <2>3, TransitSent
  <2>6. open' = TRUE BY <1>1 DEF TransportInv, InTransit
  <2>7. TransportInv' BY <1>1, <2>1, <2>4, <2>5, <2>6 DEF TransportInv
  <2>8. InFlight = Flight(h, d, w, <<>>) /\ InFlight' = Flight(h, d, w, Encoded(m))
    BY <1>1, <2>1, <2>4, FlightNow
  <2>9. Chan!Put(m)
    <3>1. Messages[InFlight'] = Append(Messages[InFlight], m) BY <2>5, <2>8
    <3>2. QED BY <1>1, <3>1 DEF Chan!Put
  <2>10. QED BY <2>7, <2>9 DEF ChannelStep, Chan!ChannelNext
<1>5. QED BY <1>3, <1>4

LEMMA SendallStep ==
    ASSUME TransportInv, sendall
    PROVE  TransportInv' /\ ChannelStep
<1>1. PICK k \in 1 .. Len(unsent) :
          /\ wire' = wire \o SubSeq(unsent, 1, k)
          /\ unsent' = SubSeq(unsent, k + 1, Len(unsent))
          /\ open' = open /\ header' = header /\ data' = data /\ got' = got
  BY DEF sendall
<1>2. PICK h, d, w, x, o : h = header /\ d = data /\ w = wire /\ x = unsent /\ o = open
  OBVIOUS
<1>3. InTransit(h, d, w, x, o) BY <1>2 DEF TransportInv
<1>4. x \in Seq(Byte) BY <1>3 DEF InTransit
<1>5. k \in 0 .. Len(x) BY <1>2, <1>4, LenProperties
<1>6. PICK b \in Seq(Byte), u \in Seq(Byte) :
          b = SubSeq(x, 1, k) /\ u = SubSeq(x, k + 1, Len(x)) /\ x = b \o u
  <2>1. /\ SubSeq(x, 1, k) \in Seq(Byte) /\ SubSeq(x, k + 1, Len(x)) \in Seq(Byte)
        /\ x = SubSeq(x, 1, k) \o SubSeq(x, k + 1, Len(x))
    BY <1>4, <1>5, SplitSequence DEF SplitAt
  <2>2. QED BY <2>1
<1>7. InTransit(h, d, w, b \o u, o) BY <1>3, <1>6
<1>8. InTransit(h, d, w \o b, u, o) /\ Flight(h, d, w \o b, u) = Flight(h, d, w, b \o u)
  BY <1>7, TransitWired
<1>9. wire' = w \o b /\ unsent' = u BY <1>1, <1>2, <1>6
<1>10. TransportInv' BY <1>1, <1>2, <1>8, <1>9 DEF TransportInv
<1>11. InFlight' = InFlight BY <1>1, <1>2, <1>6, <1>8, <1>9, FlightNow
<1>12. QED BY <1>1, <1>10, <1>11, SameFlight

LEMMA BreakStep ==
    ASSUME TransportInv, Break
    PROVE  TransportInv' /\ ChannelStep
<1>1. PICK k \in 0 .. Len(wire) :
          /\ open /\ open' = FALSE /\ unsent' = <<>> /\ wire' = SubSeq(wire, 1, k)
          /\ header' = header /\ data' = data /\ got' = got
  BY DEF Break
<1>2. PICK h, d, x, u : h = header /\ d = data /\ x = wire /\ u = unsent OBVIOUS
<1>3. InTransit(h, d, x, u, TRUE) BY <1>1, <1>2 DEF TransportInv, InTransit
<1>4. x \in Seq(Byte) BY <1>3 DEF InTransit
<1>5. PICK w \in Seq(Byte), b \in Seq(Byte) : w = SubSeq(x, 1, k) /\ x = w \o b
  <2>1. /\ SubSeq(x, 1, k) \in Seq(Byte) /\ SubSeq(x, k + 1, Len(x)) \in Seq(Byte)
        /\ x = SubSeq(x, 1, k) \o SubSeq(x, k + 1, Len(x))
    BY <1>1, <1>2, <1>4, SplitSequence DEF SplitAt
  <2>2. QED BY <2>1
<1>6. InTransit(h, d, w \o b, u, TRUE) BY <1>3, <1>5
<1>7. /\ InTransit(h, d, w, <<>>, FALSE)
      /\ FirstOf(Flight(h, d, w, <<>>), Flight(h, d, w \o b, u))
  BY <1>6, TransitCut
<1>8. wire' = w BY <1>1, <1>2, <1>5
<1>9. TransportInv' BY <1>1, <1>2, <1>7, <1>8 DEF TransportInv
<1>10. InFlight = Flight(h, d, w \o b, u) /\ InFlight' = Flight(h, d, w, <<>>)
  BY <1>1, <1>2, <1>5, <1>8, FlightNow
<1>11. FirstOf(InFlight', InFlight) BY <1>7, <1>10
<1>12. Chan!Lose BY <1>1, <1>11 DEF FirstOf, Chan!Lose
<1>13. QED BY <1>9, <1>12 DEF ChannelStep, Chan!ChannelNext

LEMMA AskStep ==
    ASSUME TransportInv, recv_msg
    PROVE  TransportInv' /\ ChannelStep
<1>1. /\ got \in Message /\ got' = Asking /\ UNCHANGED <<unsent, wire, open, header, data>>
  BY DEF recv_msg
<1>2. InFlight' = InFlight BY <1>1, FlightNow
<1>3. Chan!Ask BY <1>1, <1>2 DEF Chan!Ask
<1>4. TransportInv' BY <1>1 DEF TransportInv
<1>5. QED BY <1>3, <1>4 DEF ChannelStep, Chan!ChannelNext

LEMMA ChunkStep ==
    ASSUME TransportInv, Chunk
    PROVE  TransportInv' /\ ChannelStep
<1>1. PICK k \in 1 .. Missing :
          /\ k <= Len(wire) /\ recv_exact(SubSeq(wire, 1, k))
          /\ wire' = SubSeq(wire, k + 1, Len(wire))
  BY DEF Chunk
<1>2. got = Asking /\ unsent' = unsent /\ open' = open BY DEF Chunk
<1>3. PICK h, d, x, u, o : h = header /\ d = data /\ x = wire /\ u = unsent /\ o = open
  OBVIOUS
<1>4. InTransit(h, d, x, u, o) BY <1>3 DEF TransportInv
<1>5. h \in Seq(Byte) /\ d \in Seq(Byte) /\ x \in Seq(Byte) BY <1>4 DEF InTransit
<1>6. Len(h) \in Nat /\ Len(d) \in Nat /\ Len(x) \in Nat /\ HeaderSize \in Nat
  BY <1>5, LenProperties, TransportAssumption
<1>7. (Len(h) = HeaderSize) => unpack(h) \in Nat
  <2>1. SUFFICES ASSUME Len(h) = HeaderSize PROVE unpack(h) \in Nat OBVIOUS
  <2>2. PICK m \in Sendable : unpack(h) = Len(m) BY <1>4, <2>1, LengthRead
  <2>3. QED BY <2>2, HeaderOfMessage
<1>8. k \in Nat /\ k <= Missing
  <2>1. Missing \in Int BY <1>3, <1>6, <1>7 DEF Missing, HeaderRead
  <2>2. QED BY <2>1
<1>9. k \in 0 .. Len(x) BY <1>1, <1>3, <1>6, <1>8
<1>10. PICK c \in Seq(Byte), w \in Seq(Byte) :
          /\ c = SubSeq(x, 1, k) /\ w = SubSeq(x, k + 1, Len(x)) /\ x = c \o w
          /\ Len(c) = k
  <2>1. /\ SubSeq(x, 1, k) \in Seq(Byte) /\ SubSeq(x, k + 1, Len(x)) \in Seq(Byte)
        /\ x = SubSeq(x, 1, k) \o SubSeq(x, k + 1, Len(x)) /\ Len(SubSeq(x, 1, k)) = k
    BY <1>5, <1>9, SplitSequence DEF SplitAt
  <2>2. QED BY <2>1
<1>11. wire' = w /\ recv_exact(c) BY <1>1, <1>3, <1>10
<1>12. InTransit(h, d, c \o w, u, o) BY <1>4, <1>10
<1>13. InFlight = Flight(h, d, c \o w, u) BY <1>3, <1>10, FlightNow
<1>14. CASE Len(h) # HeaderSize
  <2>1. /\ header' = h \o c /\ data' = data
        /\ got' = IF Len(header') = HeaderSize /\ unpack(header') > MaxMessage
                  THEN Raised ELSE got
    BY <1>3, <1>11, <1>14 DEF recv_exact, HeaderRead
  <2>2. d = <<>> BY <1>4, <1>14 DEF InTransit
  <2>3. Len(h \o c) = Len(h) + Len(c) BY <1>5, CutConcat
  <2>4. Missing = HeaderSize - Len(h) BY <1>3, <1>14 DEF Missing, HeaderRead
  <2>5. Len(h \o c) <= HeaderSize
    <3>1. PICK i \in Nat : i = Len(h) BY <1>6
    <3>2. i + k <= HeaderSize BY <1>6, <1>8, <2>4, <3>1
    <3>3. QED BY <1>10, <2>3, <3>1, <3>2
  <2>6. InTransit(h, <<>>, c \o w, u, o) BY <1>12, <2>2
  <2>7. /\ InTransit(h \o c, <<>>, w, u, o)
        /\ Flight(h \o c, <<>>, w, u) = Flight(h, <<>>, c \o w, u)
        /\ Len(h \o c) = HeaderSize => unpack(h \o c) <= MaxMessage
    BY <2>5, <2>6, TransitHeader
  <2>8. got' = got
    <3>1. ASSUME Len(h \o c) = HeaderSize, unpack(h \o c) > MaxMessage PROVE FALSE
      <4>1. PICK m \in Sendable : unpack(h \o c) = Len(m) BY <2>7, <3>1, LengthRead
      <4>2. Len(m) \in Nat /\ MaxMessage \in Nat BY <4>1, HeaderOfMessage, TransportAssumption
      <4>3. QED BY <2>7, <3>1, <4>1, <4>2
    <3>2. QED BY <2>1, <3>1
  <2>9. TransportInv' BY <1>2, <1>3, <1>11, <2>1, <2>2, <2>7 DEF TransportInv
  <2>10. InFlight' = InFlight BY <1>2, <1>3, <1>11, <1>13, <2>1, <2>2, <2>7, FlightNow
  <2>11. QED BY <1>2, <2>8, <2>9, <2>10, SameFlight
<1>15. CASE Len(h) = HeaderSize
  <2>1. Len(d \o c) = Len(d) + Len(c) BY <1>5, CutConcat
  <2>2. Missing = unpack(h) - Len(d) BY <1>3, <1>15 DEF Missing, HeaderRead
  <2>3. PICK j \in Nat, n \in Nat : j = Len(d) /\ n = unpack(h) BY <1>6, <1>7, <1>15
  <2>4. CASE Len(c) < Missing
    <3>1. data' = d \o c /\ header' = header /\ got' = got
      <4>1. ~ (Len(c) = Missing) BY <1>8, <1>10, <2>2, <2>3, <2>4
      <4>2. QED BY <1>3, <1>11, <1>15, <4>1 DEF recv_exact, HeaderRead
    <3>2. Len(d \o c) < unpack(h)
      <4>1. k < n - j /\ Len(d \o c) = j + k BY <1>10, <2>1, <2>2, <2>3, <2>4
      <4>2. QED BY <1>8, <2>3, <4>1
    <3>3. InTransit(h, d \o c, w, u, o) /\ Flight(h, d \o c, w, u) = Flight(h, d, c \o w, u)
      BY <1>12, <1>15, <3>2, TransitData
    <3>4. TransportInv' BY <1>2, <1>3, <1>11, <3>1, <3>3 DEF TransportInv
    <3>5. InFlight' = InFlight BY <1>2, <1>3, <1>11, <1>13, <3>1, <3>3, FlightNow
    <3>6. QED BY <1>2, <3>1, <3>4, <3>5, SameFlight
  <2>5. CASE Len(c) = Missing
    <3>1. got' = d \o c /\ header' = <<>> /\ data' = <<>>
      <4>1. ~ (Len(c) < Missing) BY <1>8, <1>10, <2>2, <2>3, <2>5
      <4>2. QED BY <1>3, <1>11, <1>15, <4>1 DEF recv_exact, HeaderRead
    <3>2. Len(d \o c) = unpack(h)
      <4>1. k = n - j /\ Len(d \o c) = j + k BY <1>10, <2>1, <2>2, <2>3, <2>5
      <4>2. QED BY <1>8, <2>3, <4>1
    <3>3. /\ InTransit(<<>>, <<>>, w, u, o)
          /\ MessageGiven(h, d, c, w, u)
      BY <1>12, <1>15, <3>2, TransitGiven
    <3>4. TransportInv' BY <1>2, <1>3, <1>11, <3>1, <3>3 DEF TransportInv
    <3>5. InFlight' = Flight(<<>>, <<>>, w, u) BY <1>2, <1>3, <1>11, <3>1, FlightNow
    <3>6. PICK e \in Seq(Byte), s \in Seq(Seq(Byte)) :
              e = d \o c /\ s = Messages[InFlight'] /\ Messages[InFlight] = <<e>> \o s
      <4>1. u \in Seq(Byte) BY <1>4 DEF InTransit
      <4>2. Flight(<<>>, <<>>, w, u) \in Seq(Byte) BY <4>1, BytesClosed, FlightBytes
      <4>3. Messages[Flight(<<>>, <<>>, w, u)] \in Seq(Seq(Byte)) BY <4>2, MessagesDefined
      <4>4. PICK e \in Seq(Byte) : e = d \o c BY <1>5, BytesClosed
      <4>5. PICK s \in Seq(Seq(Byte)) : s = Messages[Flight(<<>>, <<>>, w, u)] BY <4>3
      <4>6. Messages[Flight(h, d, c \o w, u)] = <<e>> \o s
        BY <3>3, <4>4, <4>5 DEF MessageGiven
      <4>7. Messages[InFlight'] = s BY <3>5, <4>5
      <4>8. Messages[InFlight] = <<e>> \o s BY <1>13, <4>6
      <4>9. QED BY <4>4, <4>7, <4>8
    <3>7. /\ Messages[InFlight] # <<>> /\ Head(Messages[InFlight]) = e
          /\ Tail(Messages[InFlight]) = s
      <4>1. <<e>> \o s # <<>> /\ Head(<<e>> \o s) = e /\ Tail(<<e>> \o s) = s BY HeadAndRest
      <4>2. QED BY <3>6, <4>1
    <3>8. Chan!Get BY <1>2, <3>1, <3>6, <3>7 DEF Chan!Get
    <3>9. QED BY <3>4, <3>8 DEF ChannelStep, Chan!ChannelNext
  <2>6. QED BY <1>8, <1>10, <2>2, <2>3, <2>4, <2>5
<1>16. QED BY <1>14, <1>15

LEMMA EofStep ==
    ASSUME TransportInv, Eof
    PROVE  TransportInv' /\ ChannelStep
<1>1. got = Asking /\ wire = <<>> /\ ~ open /\ got' = Ended
      /\ UNCHANGED <<unsent, wire, open, header, data>>
  BY DEF Eof
<1>2. unsent = <<>> BY <1>1 DEF TransportInv, InTransit
<1>3. PICK h, d, o : h = header /\ d = data /\ o = open OBVIOUS
<1>4. InTransit(h, d, <<>>, <<>>, o) BY <1>1, <1>2, <1>3 DEF TransportInv
<1>5. Messages[Flight(h, d, <<>>, <<>>)] = <<>> BY <1>4, TransitEnded
<1>6. InFlight = Flight(h, d, <<>>, <<>>) /\ InFlight' = InFlight
  BY <1>1, <1>2, <1>3, FlightNow
<1>7. Chan!Notice BY <1>1, <1>5, <1>6 DEF Chan!Notice
<1>8. TransportInv' BY <1>1 DEF TransportInv
<1>9. QED BY <1>7, <1>8 DEF ChannelStep, Chan!ChannelNext

LEMMA TransportStep ==
    TransportInv /\ [TransportNext]_transportVars => TransportInv' /\ ChannelStep
<1> SUFFICES ASSUME TransportInv, [TransportNext]_transportVars
             PROVE  TransportInv' /\ ChannelStep
  OBVIOUS
<1>1. CASE \E m \in Message : send_msg(m) BY <1>1, SendStep
<1>2. CASE sendall BY <1>2, SendallStep
<1>3. CASE Break BY <1>3, BreakStep
<1>4. CASE recv_msg BY <1>4, AskStep
<1>5. CASE Chunk BY <1>5, ChunkStep
<1>6. CASE Eof BY <1>6, EofStep
<1>7. CASE UNCHANGED transportVars
  <2>1. InFlight' = InFlight BY <1>7, FlightNow DEF transportVars
  <2>2. QED BY <1>7, <2>1, SameFlight DEF transportVars, TransportInv
<1>8. QED
  BY <1>1, <1>2, <1>3, <1>4, <1>5, <1>6, <1>7 DEF TransportNext, Receive

(***************************************************************************)
(* The transport implements a channel of whole messages, for any base,     *)
(* size of a header, limit and messages, and however often the kernel cuts *)
(* what it is given: no message is torn, run together with the next,       *)
(* invented or overtaken, no length is refused that was sent, and when the *)
(* connection ends the last messages are lost and no other                 *)
(* (transport.py:35-75).                                                   *)
(***************************************************************************)
THEOREM TransportImplementsChannel == TransportSpec => ChannelSafety
<1>1. TransportInit => TransportInv /\ Chan!ChannelInit BY TransportInitial
<1>2. TransportInv /\ [TransportNext]_transportVars => TransportInv' /\ ChannelStep
  BY TransportStep
<1>3. QED BY <1>1, <1>2, PTL DEF TransportSpec, ChannelSafety, Chan!Safety, ChannelStep
=============================================================================
