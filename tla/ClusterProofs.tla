--------------------------- MODULE ClusterProofs ---------------------------
(***************************************************************************)
(* What the cluster guarantees, for any number of clients, threads, nodes  *)
(* and tasks.  Most of it follows from an inductive invariant, ClusterInv: *)
(* what is said of the tasks, of the values, of the calls in progress at   *)
(* the head, of the connections and of the scheduler needs the others.     *)
(* That a task is in one place (OneCopy) needs a second one, OneInv, which *)
(* is inductive in the presence of ClusterInv.                             *)
(*                                                                         *)
(* The proof has a lemma for every action.  Nothing ever leaves the store  *)
(* and no task changes its arguments (Grows), so that most of a part       *)
(* carries over from one state to the next as it stands, and an action has *)
(* to be looked at only for the call, the connection and the pool it uses. *)
(***************************************************************************)
EXTENDS Cluster, SequenceElements
-----------------------------------------------------------------------------
\* The arguments of t are in the store; their values; what t is called with,
\* and what it makes of it.
ArgsStored(t) == t \in submitted /\ \A d \in ToSet(args[t]) : Store!contains(d)
ArgValues(t) == [i \in DOMAIN args[t] |-> store[args[t][i]]]
Called(t, vals) == ArgsStored(t) /\ vals = ArgValues(t)
Computed(t, v) == ArgsStored(t) /\ v = Outcome(t, ArgValues(t))

(***************************************************************************)
(* The tasks.  The requests that are still to be submitted have been       *)
(* counted in asked: there are ids for all of them.                        *)
(***************************************************************************)
Asks(k, u) ==
    /\ wants[k][u].cmd = "submit_task"
    /\ u \in sent[k] => inbox[k] # <<>>

Asking == {q \in Client \X User : Asks(q[1], q[2])}

TaskInv ==
    /\ Cardinality(submitted) \in Nat /\ submitted = 1 .. Cardinality(submitted)
    /\ submitted \subseteq Task
    /\ args \in [Task -> SeqOf(submitted, MaxArgs)]
    /\ refs = [k \in Client |-> refs[k]]
    /\ \A k \in Client : refs[k] \subseteq submitted
    /\ IsFiniteSet(Asking)
    /\ asked = Cardinality(submitted) + Cardinality(Asking)
    /\ asked <= MaxTasks

(***************************************************************************)
(* The values.  Whatever has been computed comes from the arguments of its *)
(* task, all of which are in the store for good.                           *)
(***************************************************************************)
PoolOK(p) ==
    /\ IsSequence(taskQueue[p]) /\ IsSequence(results[p])
    /\ \A e \in ToSet(taskQueue[p]) \cup executing[p] : Called(e[1], e[2])
    /\ \A r \in ToSet(results[p]) : Computed(r[1], r[2])

ValueInv ==
    /\ store = [t \in Task |-> store[t]]
    /\ \A t \in Task : Store!contains(t) => Computed(t, store[t])
    /\ taskQueue = [p \in Pool |-> taskQueue[p]]
    /\ executing = [p \in Pool |-> executing[p]]
    /\ results = [p \in Pool |-> results[p]]
    /\ \A p \in Pool : PoolOK(p)

(***************************************************************************)
(* The calls in progress.  Under a call that ends with a reply are those   *)
(* it makes.                                                               *)
(***************************************************************************)
Inner == {"recheck", "announce", "flush", "resolveLocal", "finished", "failed"}
Replying == {"get", "resolveReply", "object_id", "ack"}

\* resolve_args, as far as it has come.
Partial(t, todo, vals) ==
    /\ ArgsStored(t)
    /\ IsSequence(vals)
    /\ Len(vals) + Len(todo) = Len(args[t])
    /\ \A i \in 1 .. Len(vals) : vals[i] = store[args[t][i]]
    /\ \A i \in 1 .. Len(todo) : todo[i] = args[t][Len(vals) + i]

FrameOK(f) ==
    /\ f = [at |-> f.at, task |-> f.task, todo |-> f.todo, vals |-> f.vals]
    /\ f.at \in Inner \cup Replying
    /\ f.task \in submitted /\ f.todo \in Seq(submitted)
    /\ f.at \in {"recheck", "announce"} => f.todo # <<>>
    /\ f.at = "announce" => Store!contains(Head(f.todo))
    /\ f.at = "finished" => f.todo = <<f.task>> /\ Store!contains(f.task)
    /\ f.at \in {"resolveLocal", "resolveReply"} => Partial(f.task, f.todo, f.vals)
    /\ f.at = "resolveLocal" => HasLocal

StackOK(h) ==
    /\ IsSequence(stack[h])
    /\ \A i \in DOMAIN stack[h] :
          /\ FrameOK(stack[h][i])
          /\ stack[h][i].at \in Replying <=> h \in Conn /\ i = Len(stack[h])
          /\ stack[h][i].at \in {"get", "resolveReply", "resolveLocal"} => i = 1

StackInv == stack = [h \in Handler |-> stack[h]] /\ \A h \in Handler : StackOK(h)

(***************************************************************************)
(* The connections.  The thread that has sent a request holds the lock of  *)
(* its connection until it has the reply; meanwhile its request is on its  *)
(* way, or being served, or the reply is on its way.                       *)
(***************************************************************************)
CommandsOf(k, c) ==
    {"none"} \cup
    IF k \in Client THEN {"submit_task", "get_object", "contains_object"}
    ELSE IF c = "poller" THEN {"poll_task"} ELSE {"task_result"}

RequestOK(k, c, m) ==
    /\ m.cmd \in CommandsOf(k, c)
    /\ m.cmd = "none" => m = NoRequest
    /\ m.cmd \in {"submit_task", "poll_task"} => m.task = Nothing
    /\ m.cmd = "submit_task" => m.data \in SeqOf(submitted, MaxArgs)
    /\ m.cmd \in {"get_object", "contains_object"} => m.task \in submitted
    /\ m.cmd = "task_result" => Computed(m.task, m.data)

ReplyOK(r) ==
    /\ r.cmd = "object_id" => r.task \in submitted
    /\ r.cmd = "value" => /\ r.task \in Task /\ Store!contains(r.task)
                          /\ r.data = store[r.task]
    /\ r.cmd = "task" => Called(r.task, r.data)

Answers(m, r) ==
    /\ r.cmd \in RepliesTo(m.cmd)
    /\ m.task # Nothing => r.task = m.task

Serves(f, m) ==
    /\ f.at = CASE m.cmd = "submit_task" -> "object_id"
                [] m.cmd = "get_object" -> "get"
                [] m.cmd = "poll_task" -> "resolveReply"
                [] m.cmd = "task_result" -> "ack"
                [] OTHER -> "none"
    /\ m.task # Nothing => f.task = m.task

\* What is on connection k, and what the head does with it: at most one thing.
WireOK(k) ==
    /\ inbox[k] # <<>> => /\ inbox[k] = <<Head(inbox[k])>>
                          /\ \E c \in ThreadsOf(k) : RequestOK(k, c, Head(inbox[k]))
                          /\ stack[k] = <<>> /\ outbox[k] = <<>>
    /\ outbox[k] # <<>> => /\ outbox[k] = <<Reply(k)>>
                           /\ ReplyOK(Reply(k))
                           /\ stack[k] = <<>>
    /\ k \in Node \ up =>
          /\ sent[k] = {} /\ outbox[k] = <<>>
          /\ \A c \in ThreadsOf(k) : wants[k][c] = NoRequest
    /\ k \notin Node \ up /\ sent[k] = {} =>
          inbox[k] = <<>> /\ stack[k] = <<>> /\ outbox[k] = <<>>

SenderOK(k, c) ==
    \/ inbox[k] # <<>> /\ Head(inbox[k]) = wants[k][c]
    \/ stack[k] # <<>> /\ Serves(Last(stack[k]), wants[k][c])
    \/ outbox[k] # <<>> /\ Answers(wants[k][c], Reply(k))

WireTypes ==
    /\ wants = [k \in Conn |-> [c \in ThreadsOf(k) |-> wants[k][c]]]
    /\ sent = [k \in Conn |-> sent[k]]
    /\ inbox = [k \in Conn |-> inbox[k]] /\ outbox = [k \in Conn |-> outbox[k]]
    /\ up \subseteq Node

ConnOK(k) ==
    /\ sent[k] \subseteq ThreadsOf(k)
    /\ \A c \in ThreadsOf(k) : RequestOK(k, c, wants[k][c])
    /\ \A c, d \in sent[k] : c = d
    /\ WireOK(k)
    /\ \A c \in sent[k] : wants[k][c].cmd # "none" /\ SenderOK(k, c)

WireInv == WireTypes /\ \A k \in Conn : ConnOK(k)

(***************************************************************************)
(* The scheduler.                                                          *)
(***************************************************************************)
SchedInv ==
    /\ unresolved = [t \in Task |-> unresolved[t]]
    /\ waitingOn \in [Task -> Seq(submitted)]
    /\ ready \in Seq(submitted)
    /\ pending \subseteq submitted
    /\ \A t \in ToSet(ready) : ArgsStored(t)
    /\ \A t \in pending : \A d \in ToSet(args[t]) : Store!contains(d) \/ d \in unresolved[t]
    /\ \A t \in pending : \A o \in unresolved[t] :
          o \in submitted /\ t \in ToSet(waitingOn[o])

ClusterInv ==
    TaskInv /\ ValueInv /\ StackInv /\ WireInv /\ SchedInv /\ NoMissedTrigger
-----------------------------------------------------------------------------
(***************************************************************************)
(* What a step may do to the tasks and the store: add, and no more.  All   *)
(* that is said of arguments and values then stays true.                   *)
(***************************************************************************)
Grows ==
    /\ submitted \subseteq submitted'
    /\ \A t \in submitted : args'[t] = args[t]
    /\ \A o \in Task : Store!contains(o) => store'[o] = store[o]

\* The arguments of a submitted task.
LEMMA Arguments ==
    ASSUME TaskInv, NEW t \in submitted
    PROVE  /\ t \in Task
           /\ IsSequence(args[t]) /\ args[t] \in Seq(submitted)
           /\ Len(args[t]) \in Nat /\ DOMAIN args[t] = 1 .. Len(args[t])
           /\ ToSet(args[t]) \subseteq submitted
           /\ \A i \in 1 .. Len(args[t]) : args[t][i] \in ToSet(args[t])
BY BoundedSequence, ClusterAssumption DEF TaskInv

LEMMA StaysStored ==
    ASSUME TaskInv, Grows, NEW o \in Task, Store!contains(o)
    PROVE  Store!contains(o)' /\ store'[o] = store[o]
BY DEF Grows, Store!contains

LEMMA StaysArguments ==
    ASSUME TaskInv, Grows, NEW t, ArgsStored(t)
    PROVE  ArgsStored(t)' /\ ArgValues(t)' = ArgValues(t) /\ args'[t] = args[t]
<1>1. t \in submitted BY DEF ArgsStored
<1>2. /\ args'[t] = args[t] /\ t \in submitted'
      /\ \A i \in DOMAIN args[t] : args[t][i] \in ToSet(args[t])
      /\ \A d \in ToSet(args[t]) : d \in Task
  BY <1>1, Arguments DEF Grows, TaskInv
<1>3. \A d \in ToSet(args[t]) : Store!contains(d)' /\ store'[d] = store[d]
  BY <1>2, StaysStored DEF ArgsStored
<1>4. ArgsStored(t)' BY <1>2, <1>3 DEF ArgsStored
<1>5. ArgValues(t)' = ArgValues(t)
  <2>1. \A i \in DOMAIN args[t] : store'[args'[t][i]] = store[args[t][i]]
    BY <1>2, <1>3
  <2>2. QED BY <1>2, <2>1 DEF ArgValues
<1>6. QED BY <1>2, <1>4, <1>5

LEMMA StaysCalled ==
    ASSUME TaskInv, Grows, NEW t, NEW v
    PROVE  /\ Called(t, v) => Called(t, v)'
           /\ Computed(t, v) => Computed(t, v)'
BY StaysArguments DEF Called, Computed

LEMMA StaysFrame ==
    ASSUME TaskInv, Grows, NEW f, FrameOK(f)
    PROVE  FrameOK(f)'
<1>1. /\ f.task \in submitted /\ f.todo \in Seq(submitted)
      /\ submitted \subseteq submitted' /\ submitted \subseteq Task
  BY DEF FrameOK, Grows, TaskInv
<1>2. f.task \in submitted' /\ f.todo \in Seq(submitted')
  BY <1>1, SequenceOver, SequenceIn
<1>3. f.at = "announce" => Store!contains(Head(f.todo))'
  <2> SUFFICES ASSUME f.at = "announce" PROVE Store!contains(Head(f.todo))'
    OBVIOUS
  <2>1. f.todo # <<>> /\ Store!contains(Head(f.todo)) BY DEF FrameOK
  <2>2. Head(f.todo) \in Task BY <1>1, <2>1, SplitElements
  <2>3. QED BY <2>1, <2>2, StaysStored
<1>4. f.at = "finished" => Store!contains(f.task)'
  BY <1>1, StaysStored DEF FrameOK
<1>5. ASSUME Partial(f.task, f.todo, f.vals)
      PROVE  Partial(f.task, f.todo, f.vals)'
  <2> DEFINE t == f.task
  <2>1. /\ ArgsStored(t)' /\ args'[t] = args[t] /\ ArgsStored(t)
    BY <1>5, StaysArguments DEF Partial
  <2>2. /\ Len(f.vals) \in Nat /\ Len(f.todo) \in Nat
        /\ Len(args[t]) \in Nat /\ DOMAIN args[t] = 1 .. Len(args[t])
        /\ \A i \in 1 .. Len(args[t]) : args[t][i] \in ToSet(args[t])
        /\ ToSet(args[t]) \subseteq Task
    BY <1>1, <1>5, Arguments, SequenceOver DEF Partial, IsSequence
  <2>3. ASSUME NEW i \in 1 .. Len(f.vals)
        PROVE  f.vals[i] = store'[args'[t][i]]
    <3>1. i \in 1 .. Len(args[t])
      <4>1. PICK m \in Nat, n \in Nat, l \in Nat :
                m = Len(f.vals) /\ n = Len(f.todo) /\ l = Len(args[t])
        BY <2>2
      <4>2. m + n = l BY <1>5, <4>1 DEF Partial
      <4>3. i \in 1 .. m BY <4>1, Zenon
      <4>4. i \in 1 .. l BY <4>2, <4>3, TwoParts
      <4>5. QED BY <4>1, <4>4, Zenon
    <3>2. store'[args[t][i]] = store[args[t][i]]
      BY <2>1, <2>2, <3>1, StaysStored DEF ArgsStored
    <3>3. QED BY <1>5, <2>1, <3>2 DEF Partial
  <2>4. QED BY <1>5, <2>1, <2>3 DEF Partial
<1>6. QED BY <1>2, <1>3, <1>4, <1>5 DEF FrameOK

LEMMA StaysRequest ==
    ASSUME TaskInv, Grows, NEW k, NEW c, NEW m, RequestOK(k, c, m)
    PROVE  RequestOK(k, c, m)'
<1>1. submitted \subseteq submitted' BY DEF Grows
<1>2. m.cmd = "submit_task" => m.data \in SeqOf(submitted', MaxArgs)
  BY <1>1, BoundedSequence, ClusterAssumption DEF RequestOK
<1>3. QED BY <1>1, <1>2, StaysCalled DEF RequestOK, CommandsOf

LEMMA StaysReply ==
    ASSUME TaskInv, Grows, NEW r, ReplyOK(r)
    PROVE  ReplyOK(r)'
<1>1. r.cmd = "object_id" => r.task \in submitted' BY DEF ReplyOK, Grows
<1>2. r.cmd = "task" => Called(r.task, r.data)' BY StaysCalled DEF ReplyOK
<1>3. r.cmd = "value" => Store!contains(r.task)' /\ r.data = store'[r.task]
  BY StaysStored DEF ReplyOK
<1>4. QED BY <1>1, <1>2, <1>3 DEF ReplyOK
-----------------------------------------------------------------------------
(***************************************************************************)
(* How a call in progress moves on.                                        *)
(***************************************************************************)
\* What is said in the end is still the same.
Kept(h) ==
    /\ stack[h] # <<>> /\ stack'[h] # <<>>
    /\ Last(stack'[h]).at = Last(stack[h]).at
    /\ Last(stack'[h]).task = Last(stack[h]).task

LEMMA StaysStack ==
    ASSUME TaskInv, Grows, NEW h, StackOK(h), stack'[h] = stack[h]
    PROVE  StackOK(h)'
<1>1. ASSUME NEW i \in DOMAIN stack[h] PROVE FrameOK(stack[h][i])'
  <2>1. PICK f : f = stack[h][i] OBVIOUS
  <2>2. FrameOK(f) BY <2>1 DEF StackOK
  <2>3. FrameOK(f)' BY <2>2, StaysFrame
  <2>4. f = stack'[h][i] BY <2>1
  <2>5. QED BY <2>3, <2>4
<1>2. QED BY <1>1 DEF StackOK

LEMMA MovedStack ==
    ASSUME TaskInv, Grows, StackInv, NEW h \in Handler,
           stack' = [stack EXCEPT ![h] = stack'[h]], StackOK(h)'
    PROVE  StackInv'
<1>1. ASSUME NEW g \in Handler PROVE StackOK(g)'
  BY StaysStack DEF StackInv
<1>2. QED BY <1>1 DEF StackInv

LEMMA StillStacks ==
    ASSUME TaskInv, Grows, StackInv, UNCHANGED stack
    PROVE  StackInv'
BY StaysStack DEF StackInv

\* The frame on top.
LEMMA TopFrame ==
    ASSUME StackInv, NEW h \in Handler, stack[h] # <<>>
    PROVE  /\ Len(stack[h]) \in Nat /\ Len(stack[h]) >= 1
           /\ DOMAIN stack[h] = 1 .. Len(stack[h])
           /\ Head(stack[h]) = Top(h) /\ FrameOK(Top(h))
           /\ Top(h).at \in Inner \cup Replying
           /\ Top(h).at \in Replying <=> h \in Conn /\ Len(stack[h]) = 1
<1>1. StackOK(h) BY DEF StackInv
<1>2. /\ Len(stack[h]) \in Nat /\ Len(stack[h]) >= 1 /\ Head(stack[h]) = stack[h][1]
      /\ DOMAIN stack[h] = 1 .. Len(stack[h])
  BY <1>1, TailSequence, SequenceOver DEF StackOK, IsSequence
<1>3. FrameOK(stack[h][1])
  BY <1>1, <1>2 DEF StackOK
<1>4. stack[h][1].at \in Replying <=> h \in Conn /\ 1 = Len(stack[h])
  <2>1. 1 \in DOMAIN stack[h] BY <1>2
  <2>2. QED BY <1>1, <2>1 DEF StackOK
<1>5. QED BY <1>2, <1>3, <1>4 DEF Top, FrameOK

\* Where a call is.
LEMMA AtFrame ==
    ASSUME StackInv, NEW h \in Handler, NEW label, At(h, label)
    PROVE  stack[h] # <<>> /\ FrameOK(Top(h)) /\ Top(h).at = label
BY TopFrame DEF At

LEMMA GotoStack ==
    ASSUME TaskInv, Grows, StackInv, NEW h \in Handler, stack[h] # <<>>,
           NEW f, Goto(h, f), FrameOK(f)', f.at \in Replying <=> Top(h).at \in Replying
    PROVE  /\ StackInv'
           /\ stack'[h] # <<>> /\ stack'[h][1] = f
           /\ \A i \in 2 .. Len(stack[h]) : stack'[h][i] = stack[h][i]
           /\ Len(stack'[h]) = Len(stack[h])
           /\ \/ h \in Conn /\ Top(h).at \notin Replying
              \/ f.at = Top(h).at /\ f.task = Top(h).task
              => Kept(h)
<1> DEFINE s == stack[h]
           r == <<f>> \o Tail(s)
<1>1. StackOK(h) /\ stack'[h] = r /\ stack' = [stack EXCEPT ![h] = stack'[h]]
  BY DEF StackInv, Goto
<1>2. /\ IsSequence(Tail(s)) /\ Len(s) \in Nat /\ Len(s) >= 1
      /\ Len(Tail(s)) = Len(s) - 1
      /\ \A i \in 1 .. Len(s) - 1 : Tail(s)[i] = s[i + 1]
      /\ DOMAIN s = 1 .. Len(s)
  BY <1>1, TailSequence, SequenceOver DEF StackOK, IsSequence
<1>3. /\ IsSequence(r) /\ Len(r) = Len(s) /\ r[1] = f /\ r # <<>>
      /\ \A i \in 1 .. Len(s) - 1 : r[i + 1] = Tail(s)[i]
  BY <1>2, PushSequence
<1>4. DOMAIN r = 1 .. Len(s) BY <1>3, SequenceOver DEF IsSequence
<1>5. \A i \in 2 .. Len(s) : r[i] = s[i]
  <2> TAKE i \in 2 .. Len(s)
  <2>1. i - 1 \in 1 .. Len(s) - 1 /\ (i - 1) + 1 = i BY <1>2
  <2>2. QED BY <1>2, <1>3, <2>1
<1>6. \A i \in 2 .. Len(s) : FrameOK(stack[h][i])'
  <2> TAKE i \in 2 .. Len(s)
  <2>1. PICK g : g = stack[h][i] OBVIOUS
  <2>2. FrameOK(g) BY <1>1, <1>2, <2>1 DEF StackOK
  <2>3. FrameOK(g)' /\ g = stack'[h][i] BY <1>1, <1>5, <2>1, <2>2, StaysFrame
  <2>4. QED BY <2>3
<1>7. FrameOK(stack[h][1])'
  BY <1>1, <1>3
<1>8. StackOK(h)'
  <2> HIDE DEF s, r
  <2>1. IsSequence(stack[h])' /\ DOMAIN stack'[h] = 1 .. Len(s) /\ Len(stack'[h]) = Len(s)
    BY <1>1, <1>3, <1>4
  <2>2. ASSUME NEW i \in 1 .. Len(s)
        PROVE  /\ FrameOK(stack[h][i])'
               /\ stack'[h][i].at \in Replying <=> h \in Conn /\ i = Len(s)
               /\ stack'[h][i].at \in {"get", "resolveReply", "resolveLocal"} => i = 1
    <3>1. CASE i = 1
      <4>1. Top(h).at \in Replying <=> h \in Conn /\ Len(s) = 1 BY TopFrame DEF s
      <4>2. QED BY <1>1, <1>3, <1>7, <3>1, <4>1
    <3>2. CASE i \in 2 .. Len(s)
      <4>1. i \in DOMAIN stack[h] /\ s = stack[h] BY <1>2, <3>2 DEF s
      <4>2. stack'[h][i] = stack[h][i] BY <1>1, <1>5, <3>2 DEF s
      <4>3. QED BY <1>1, <1>6, <3>2, <4>1, <4>2 DEF StackOK
    <3>3. i = 1 \/ i \in 2 .. Len(s)
      <4>1. Len(s) \in Nat BY <1>2
      <4>2. QED BY <4>1
    <3>4. QED BY <3>1, <3>2, <3>3
  <2>3. QED BY <2>1, <2>2 DEF StackOK
<1>9. StackInv' BY <1>1, <1>8, MovedStack
<1>10. ASSUME \/ h \in Conn /\ Top(h).at \notin Replying
              \/ f.at = Top(h).at /\ f.task = Top(h).task
       PROVE  Kept(h)
  <2>1. CASE Len(s) = 1
    <3>1. Top(h).at \in Replying <=> h \in Conn BY <2>1, TopFrame
    <3>2. f.at = Top(h).at /\ f.task = Top(h).task BY <1>10, <3>1
    <3>3. QED BY <1>1, <1>3, <2>1, <3>2 DEF Kept, Last, Top
  <2>2. CASE Len(s) # 1
    <3>1. Len(s) \in 2 .. Len(s)
      <4>1. Len(s) \in Nat /\ Len(s) >= 1 BY <1>2
      <4>2. QED BY <2>2, <4>1, Positions
    <3>2. QED BY <1>1, <1>3, <1>5, <3>1 DEF Kept, Last
  <2>3. QED BY <2>1, <2>2
<1>11. QED BY <1>1, <1>3, <1>5, <1>9, <1>10

LEMMA ReturnStack ==
    ASSUME TaskInv, Grows, StackInv, NEW h \in Handler, stack[h] # <<>>, Return(h)
    PROVE  /\ StackInv'
           /\ \A i \in 1 .. Len(stack[h]) - 1 : stack'[h][i] = stack[h][i + 1]
           /\ Len(stack'[h]) = Len(stack[h]) - 1
           /\ stack'[h] # <<>> => \E i \in 1 .. Len(stack[h]) - 1 : Top(h)' = stack[h][i + 1]
           /\ Top(h).at \notin Replying /\ h \in Conn => Kept(h)
           /\ Top(h).at \in Replying => stack'[h] = <<>> /\ Last(stack[h]) = Top(h)
<1> DEFINE s == stack[h]
           r == Tail(s)
<1>1. StackOK(h) /\ stack'[h] = r /\ stack' = [stack EXCEPT ![h] = stack'[h]]
  BY DEF StackInv, Return
<1>2. /\ IsSequence(r) /\ Len(s) \in Nat /\ Len(s) >= 1
      /\ Len(r) = Len(s) - 1
      /\ \A i \in 1 .. Len(s) - 1 : r[i] = s[i + 1]
      /\ DOMAIN s = 1 .. Len(s)
  BY <1>1, TailSequence, SequenceOver DEF StackOK, IsSequence
<1>3. DOMAIN r = 1 .. Len(s) - 1 BY <1>2, SequenceOver DEF IsSequence
<1>4. ASSUME NEW i \in 1 .. Len(s) - 1
      PROVE  /\ FrameOK(stack[h][i])'
             /\ stack'[h][i].at \in Replying <=> h \in Conn /\ i = Len(s) - 1
             /\ stack'[h][i].at \notin {"get", "resolveReply", "resolveLocal"}
  <2>1. i + 1 \in DOMAIN s /\ i + 1 # 1 /\ stack'[h][i] = s[i + 1] BY <1>1, <1>2
  <2>2. PICK f : f = s[i + 1] OBVIOUS
  <2>3. FrameOK(f) /\ f = stack'[h][i] BY <1>1, <2>1, <2>2 DEF StackOK
  <2>4. FrameOK(f)' BY <2>3, StaysFrame
  <2>5. FrameOK(stack[h][i])' BY <2>3, <2>4
  <2>6. /\ f.at \in Replying <=> h \in Conn /\ i + 1 = Len(s)
        /\ f.at \notin {"get", "resolveReply", "resolveLocal"}
    BY <1>1, <2>1, <2>2 DEF StackOK
  <2>7. i + 1 = Len(s) <=> i = Len(s) - 1 BY <1>2
  <2>8. QED BY <2>3, <2>5, <2>6, <2>7
<1>5. StackOK(h)'
  BY <1>1, <1>2, <1>3, <1>4 DEF StackOK
<1>6. StackInv' BY <1>1, <1>5, MovedStack
<1>7. ASSUME Len(s) # 1
      PROVE  /\ stack'[h] # <<>> /\ Kept(h)
             /\ \E i \in 1 .. Len(s) - 1 : Top(h)' = s[i + 1]
  <2>1. Len(s) - 1 \in 1 .. Len(s) - 1 /\ 1 \in 1 .. Len(s) - 1
    <3>1. Len(s) \in Nat /\ Len(s) >= 1 BY <1>2
    <3>2. QED BY <1>7, <3>1, Positions
  <2>2. stack'[h] # <<>>
    <3>1. Len(r) # 0 BY <1>2, <1>7
    <3>2. QED BY <1>1, <3>1, NoElement
  <2>3. Last(stack'[h]) = Last(stack[h])
    <3>1. r[Len(s) - 1] = s[(Len(s) - 1) + 1] BY <1>2, <2>1
    <3>2. (Len(s) - 1) + 1 = Len(s) BY <1>2
    <3>3. QED BY <1>1, <1>2, <3>1, <3>2 DEF Last
  <2>4. Top(h)' = s[1 + 1] BY <1>1, <1>2, <2>1 DEF Top
  <2>5. QED BY <2>1, <2>2, <2>3, <2>4 DEF Kept
<1>8. ASSUME Len(s) = 1
      PROVE  /\ stack'[h] = <<>> /\ Last(s) = Top(h)
             /\ Top(h).at \in Replying <=> h \in Conn
  <2>1. Last(s) = Top(h) BY <1>8 DEF Last, Top
  <2>2. stack'[h] = <<>>
    <3>1. Len(r) = 0 BY <1>2, <1>8
    <3>2. QED BY <1>1, <1>2, <3>1, EmptySeq DEF IsSequence
  <2>3. QED BY <1>8, <2>1, <2>2, TopFrame
<1>9. Top(h).at \in Replying => Len(s) = 1 BY TopFrame
<1>10. QED BY <1>1, <1>2, <1>6, <1>7, <1>8, <1>9

\* A call within the call on top.
LEMMA PushStack ==
    ASSUME TaskInv, Grows, StackInv, NEW h \in Handler, At(h, "flush"),
           NEW f, stack' = [stack EXCEPT ![h] = <<f>> \o @],
           FrameOK(f)', f.at = "resolveLocal"
    PROVE  /\ StackInv'
           /\ stack'[h][1] = f /\ stack'[h] # <<>>
           /\ Len(stack'[h]) = Len(stack[h]) + 1
           /\ \A i \in 1 .. Len(stack[h]) : stack'[h][i + 1] = stack[h][i]
           /\ h \in Conn => Kept(h)
<1> DEFINE s == stack[h]
           r == <<f>> \o s
<1>1. StackOK(h) /\ stack'[h] = r /\ stack' = [stack EXCEPT ![h] = stack'[h]]
      /\ s # <<>> /\ s[1].at = "flush"
  BY DEF StackInv, At, Top
<1>2. Len(s) \in Nat /\ DOMAIN s = 1 .. Len(s) /\ Len(s) >= 1
  BY <1>1, TopFrame
<1>3. /\ IsSequence(r) /\ Len(r) = Len(s) + 1 /\ r[1] = f /\ r # <<>>
      /\ \A i \in 1 .. Len(s) : r[i + 1] = s[i]
  <2>1. IsSequence(s) BY <1>1 DEF StackOK
  <2>2. HIDE DEF s
  <2>3. QED BY <2>1, PushSequence DEF r
<1>4. DOMAIN r = 1 .. Len(s) + 1 BY <1>3, SequenceOver DEF IsSequence
<1>5. ASSUME NEW i \in 1 .. Len(s)
      PROVE  /\ FrameOK(stack[h][i + 1])'
             /\ stack'[h][i + 1].at \in Replying <=> h \in Conn /\ i = Len(s)
             /\ stack'[h][i + 1].at \notin {"get", "resolveReply", "resolveLocal"}
  <2>1. i \in DOMAIN s /\ stack'[h][i + 1] = s[i] BY <1>1, <1>2, <1>3
  <2>2. PICK g : g = s[i] OBVIOUS
  <2>3. FrameOK(g) /\ g = stack'[h][i + 1] BY <1>1, <2>1, <2>2 DEF StackOK
  <2>4. FrameOK(g)' BY <2>3, StaysFrame
  <2>5. FrameOK(stack[h][i + 1])' BY <2>3, <2>4
  <2>6. /\ g.at \in Replying <=> h \in Conn /\ i = Len(s)
        /\ g.at \notin {"get", "resolveReply", "resolveLocal"}
    BY <1>1, <2>1, <2>2 DEF StackOK
  <2>7. QED BY <2>3, <2>5, <2>6
<1>6. StackOK(h)'
  <2>1. PICK n \in Nat : n = Len(s) /\ n >= 1 BY <1>2
  <2>2. ASSUME NEW j \in 1 .. n + 1
        PROVE  /\ FrameOK(stack[h][j])'
               /\ stack'[h][j].at \in Replying <=> h \in Conn /\ j = n + 1
               /\ stack'[h][j].at \in {"get", "resolveReply", "resolveLocal"} => j = 1
    <3>1. CASE j = 1
      <4>1. j # n + 1 BY <2>1, <3>1
      <4>2. QED BY <1>1, <1>3, <3>1, <4>1 DEF Replying
    <3>2. CASE j # 1
      <4>1. j - 1 \in 1 .. n /\ (j - 1) + 1 = j /\ (j = n + 1 <=> j - 1 = n) BY <3>2
      <4>2. PICK i \in 1 .. n : i + 1 = j /\ (j = n + 1 <=> i = n) BY <4>1
      <4>3. i \in 1 .. Len(s) BY <2>1, <4>2, Zenon
      <4>4. QED BY <1>5, <2>1, <4>2, <4>3
    <3>3. QED BY <3>1, <3>2
  <2>3. DOMAIN stack'[h] = 1 .. n + 1 /\ Len(stack'[h]) = n + 1 BY <1>1, <1>3, <1>4, <2>1
  <2>4. QED BY <1>1, <1>3, <2>2, <2>3 DEF StackOK
<1>7. StackInv' BY <1>1, <1>6, MovedStack
<1>8. Kept(h)
  <2>1. Len(s) \in 1 .. Len(s) BY <1>2, Positions
  <2>2. Last(stack'[h]) = Last(stack[h]) BY <1>1, <1>3, <2>1 DEF Last
  <2>3. QED BY <1>1, <1>3, <2>2 DEF Kept
<1>9. QED BY <1>1, <1>3, <1>7, <1>8

\* A new call, alone or with the reply that follows it.
LEMMA EnterOne ==
    ASSUME TaskInv, Grows, StackInv, NEW h \in Handler, NEW f, Enter(h, <<f>>),
           FrameOK(f)', f.at \in Replying <=> h \in Conn
    PROVE  /\ StackInv' /\ stack[h] = <<>>
           /\ stack'[h] # <<>> /\ Len(stack'[h]) = 1 /\ stack'[h][1] = f
           /\ Last(stack'[h]) = f /\ DOMAIN stack'[h] = {1}
<1> DEFINE s == <<f>>
<1>1. IsSequence(s) /\ Len(s) = 1 /\ s[1] = f /\ s # <<>> /\ DOMAIN s = {1}
  BY OneElement
<1>2. stack'[h] = s /\ stack' = [stack EXCEPT ![h] = stack'[h]] /\ stack[h] = <<>>
  BY DEF StackInv, Enter
<1> HIDE DEF s
<1>3. StackOK(h)' BY <1>1, <1>2 DEF StackOK
<1>4. QED BY <1>1, <1>2, <1>3, MovedStack DEF Last

LEMMA EnterTwo ==
    ASSUME TaskInv, Grows, StackInv, NEW h \in Conn, NEW f, NEW g, Enter(h, <<f, g>>),
           FrameOK(f)', FrameOK(g)', f.at \in Inner, g.at \in {"object_id", "ack"}
    PROVE  /\ StackInv' /\ stack[h] = <<>>
           /\ stack'[h] # <<>> /\ Len(stack'[h]) = 2
           /\ stack'[h][1] = f /\ stack'[h][2] = g
           /\ Last(stack'[h]) = g /\ DOMAIN stack'[h] = {1, 2}
<1> DEFINE s == <<f, g>>
<1>1. IsSequence(s) /\ Len(s) = 2 /\ s[1] = f /\ s[2] = g /\ s # <<>> /\ DOMAIN s = {1, 2}
  BY TwoElements
<1>2. stack'[h] = s /\ stack' = [stack EXCEPT ![h] = stack'[h]] /\ stack[h] = <<>>
      /\ h \in Handler
  BY DEF StackInv, Enter, Handler
<1> HIDE DEF s
<1>3. StackOK(h)' BY <1>1, <1>2 DEF StackOK, Inner, Replying
<1>4. QED BY <1>1, <1>2, <1>3, MovedStack DEF Last
-----------------------------------------------------------------------------
(***************************************************************************)
(* The connections a step does not use.                                    *)
(***************************************************************************)
LEMMA StaysConn ==
    ASSUME TaskInv, Grows, NEW k \in Conn, ConnOK(k),
           wants'[k] = wants[k], sent'[k] = sent[k],
           inbox'[k] = inbox[k], outbox'[k] = outbox[k], k \in up' <=> k \in up,
           stack'[k] = stack[k] \/ Kept(k)
    PROVE  ConnOK(k)'
<1>1. ASSUME NEW c \in ThreadsOf(k) PROVE RequestOK(k, c, wants[k][c])'
  <2>1. PICK m : m = wants[k][c] OBVIOUS
  <2>2. RequestOK(k, c, m) BY <2>1 DEF ConnOK
  <2>3. RequestOK(k, c, m)' /\ m = wants'[k][c] BY <2>1, <2>2, StaysRequest
  <2>4. QED BY <2>3
<1>2. stack'[k] = <<>> <=> stack[k] = <<>> BY DEF Kept
<1>3. WireOK(k)'
  <2>1. ASSUME inbox[k] # <<>>
        PROVE  \E c \in ThreadsOf(k) : RequestOK(k, c, Head(inbox[k]))'
    <3>1. PICK m : m = Head(inbox[k]) OBVIOUS
    <3>2. PICK c \in ThreadsOf(k) : RequestOK(k, c, m)
      BY <2>1, <3>1 DEF ConnOK, WireOK
    <3>3. RequestOK(k, c, m)' /\ m = Head(inbox'[k]) BY <3>1, <3>2, StaysRequest
    <3>4. QED BY <3>3
  <2>2. ASSUME outbox[k] # <<>> PROVE ReplyOK(Reply(k))'
    <3>1. PICK r : r = Reply(k) /\ ReplyOK(r) BY <2>2 DEF ConnOK, WireOK
    <3>2. ReplyOK(r)' /\ r = Reply(k)' BY <3>1, StaysReply DEF Reply
    <3>3. QED BY <3>2
  <2>3. QED BY <1>2, <2>1, <2>2 DEF ConnOK, WireOK, Reply
<1>4. ASSUME NEW c \in sent[k] PROVE SenderOK(k, c)'
  <2>1. SenderOK(k, c) BY DEF ConnOK
  <2>2. QED BY <2>1 DEF SenderOK, Kept, Serves, Answers, Reply
<1>5. QED BY <1>1, <1>3, <1>4 DEF ConnOK

\* A step that uses one connection, or none: k may be any handler.
LEMMA OneConn ==
    ASSUME TaskInv, Grows, WireInv, NEW k,
           wants' = [wants EXCEPT ![k] = wants'[k]],
           k \in Conn => wants'[k] = [c \in ThreadsOf(k) |-> wants'[k][c]],
           sent' = [sent EXCEPT ![k] = sent'[k]],
           inbox' = [inbox EXCEPT ![k] = inbox'[k]],
           outbox' = [outbox EXCEPT ![k] = outbox'[k]],
           up' \in {up, up \ {k}},
           \A j \in Conn \ {k} : stack'[j] = stack[j],
           k \in Conn => ConnOK(k)'
    PROVE  WireInv'
<1>1. ASSUME NEW j \in Conn, j # k PROVE ConnOK(j)'
  BY <1>1, StaysConn DEF WireInv, WireTypes
<1>2. WireTypes'
  BY DEF WireInv, WireTypes
<1>3. QED BY <1>1, <1>2 DEF WireInv

LEMMA NoConn ==
    ASSUME TaskInv, Grows, WireInv, NEW h, UNCHANGED connVars,
           \A j \in Conn \ {h} : stack'[j] = stack[j],
           h \in Conn => stack'[h] = stack[h] \/ Kept(h)
    PROVE  WireInv'
<1>1. ASSUME NEW j \in Conn PROVE ConnOK(j)'
  BY <1>1, StaysConn DEF WireInv, connVars
<1>2. QED BY <1>1 DEF WireInv, WireTypes, connVars
-----------------------------------------------------------------------------
(***************************************************************************)
(* The tasks, the values and the scheduler, where a step leaves them.      *)
(***************************************************************************)
LEMMA StaysPool ==
    ASSUME TaskInv, Grows, NEW p, PoolOK(p),
           taskQueue'[p] = taskQueue[p], executing'[p] = executing[p], results'[p] = results[p]
    PROVE  PoolOK(p)'
<1>1. ASSUME NEW e \in ToSet(taskQueue[p]) \cup executing[p] PROVE Called(e[1], e[2])'
  BY StaysCalled DEF PoolOK
<1>2. ASSUME NEW r \in ToSet(results[p]) PROVE Computed(r[1], r[2])'
  BY StaysCalled DEF PoolOK
<1>3. QED BY <1>1, <1>2 DEF PoolOK

\* A step that uses one pool.
LEMMA OnePool ==
    ASSUME TaskInv, Grows, ValueInv, NEW p,
           taskQueue' = [taskQueue EXCEPT ![p] = taskQueue'[p]],
           executing' = [executing EXCEPT ![p] = executing'[p]],
           results' = [results EXCEPT ![p] = results'[p]],
           UNCHANGED store, p \in Pool => PoolOK(p)'
    PROVE  ValueInv'
<1>1. ASSUME NEW q \in Pool, q # p PROVE PoolOK(q)'
  BY <1>1, StaysPool DEF ValueInv
<1>2. ASSUME NEW t \in Task, Store!contains(t)' PROVE Computed(t, store[t])'
  <2>1. PICK v : v = store[t] OBVIOUS
  <2>2. Computed(t, v) BY <1>2, <2>1 DEF ValueInv, Store!contains
  <2>3. Computed(t, v)' /\ v = store'[t] BY <2>1, <2>2, StaysCalled
  <2>4. QED BY <2>3
<1>3. QED BY <1>1, <1>2 DEF ValueInv

LEMMA StaysValues ==
    ASSUME TaskInv, Grows, ValueInv, UNCHANGED <<store, poolVars>>
    PROVE  ValueInv'
<1>1. ASSUME NEW q \in Pool PROVE PoolOK(q)'
  BY <1>1, StaysPool DEF ValueInv, poolVars
<1>2. QED BY <1>1, OnePool DEF ValueInv, poolVars

LEMMA StaysTasks ==
    ASSUME TaskInv, UNCHANGED <<submitted, args, clientVars>>, Asking' = Asking
    PROVE  TaskInv'
BY DEF TaskInv, clientVars

LEMMA StaysSched ==
    ASSUME TaskInv, Grows, SchedInv, UNCHANGED schedVars
    PROVE  SchedInv'
<1>1. ASSUME NEW t \in ToSet(ready) PROVE ArgsStored(t)'
  BY StaysArguments DEF SchedInv
<1>2. ASSUME NEW t \in pending
      PROVE  \A d \in ToSet(args'[t]) : Store!contains(d)' \/ d \in unresolved[t]
  <2>1. args'[t] = args[t] /\ ToSet(args[t]) \subseteq Task
    BY Arguments DEF SchedInv, Grows, TaskInv
  <2>2. QED BY <2>1, StaysStored DEF SchedInv
<1>3. submitted \subseteq submitted' BY DEF Grows
<1>4. waitingOn \in [Task -> Seq(submitted')] /\ ready \in Seq(submitted')
  BY <1>3, SequenceOver, SequenceIn DEF SchedInv
<1>5. QED BY <1>1, <1>2, <1>3, <1>4 DEF SchedInv, schedVars

(***************************************************************************)
(* Grows: a step leaves the tasks and the store, or submits a task with an *)
(* id of its own, or stores the value of a task.  When there is a value    *)
(* already it is the same.                                                 *)
(***************************************************************************)
LEMMA GrowsSame ==
    ASSUME UNCHANGED <<store, submitted, args>>
    PROVE  Grows
BY DEF Grows

LEMMA GrowsSubmit ==
    ASSUME TaskInv, UNCHANGED store, NEW a,
           Table!register_task(Cardinality(submitted) + 1, a)
    PROVE  Grows /\ Cardinality(submitted) + 1 \notin submitted
<1>1. PICK n \in Nat : n = Cardinality(submitted) /\ submitted = 1 .. n
  BY DEF TaskInv
<1>2. n + 1 \notin submitted
  <2>1. n + 1 \notin 1 .. n OBVIOUS
  <2>2. QED BY <1>1, <2>1
<1>3. QED BY <1>1, <1>2 DEF Grows, Table!register_task, TaskInv

LEMMA GrowsPut ==
    ASSUME ValueInv, UNCHANGED <<submitted, args>>, NEW h, NEW t, NEW v,
           Store!PutStore(h, t, v), Computed(t, v)
    PROVE  Grows
<1>1. store' = [store EXCEPT ![t] = v] BY DEF Store!PutStore
<1>2. Store!contains(t) /\ t \in Task => store[t] = v BY DEF ValueInv, Computed
<1>3. ASSUME NEW o \in Task, Store!contains(o) PROVE store'[o] = store[o]
  <2>1. CASE o = t BY <1>1, <1>2, <1>3, <2>1 DEF ValueInv
  <2>2. CASE o # t BY <1>1, <2>2 DEF ValueInv
  <2>3. QED BY <2>1, <2>2
<1>4. QED BY <1>3 DEF Grows

(***************************************************************************)
(* The calls that are about to announce an object.                         *)
(***************************************************************************)
Announces(f, t, o) ==
    /\ f.at \in {"recheck", "finished", "announce"}
    /\ o \in ToSet(f.todo)
    /\ f.task \in {t, o}

LEMMA AnnouncerAt ==
    ASSUME NEW h, NEW t, NEW o, NEW f, NEW j \in DOMAIN stack'[h], f = stack'[h][j],
           Announces(f, t, o)
    PROVE  WillAnnounce(h, t, o)'
BY DEF WillAnnounce, Announces

\* A step of h that takes the call on top on, or ends it, or starts another.
LEMMA AnnouncersStay ==
    ASSUME StackInv, NEW h, stack' = [stack EXCEPT ![h] = stack'[h]],
           h \in Handler =>
               \A i \in DOMAIN stack[h] \ {1} :
                   \E j \in DOMAIN stack'[h] : stack'[h][j] = stack[h][i],
           NEW g \in Handler, NEW t, NEW o, WillAnnounce(g, t, o)
    PROVE  WillAnnounce(g, t, o)' \/ (g = h /\ stack[h] # <<>> /\ Announces(Top(h), t, o))
<1>1. PICK i \in DOMAIN stack[g] : Announces(stack[g][i], t, o)
  BY DEF WillAnnounce, Announces
<1>2. CASE g = h
  <2>1. CASE i = 1
    <3>1. stack[h] # <<>> BY <1>2, <1>1, NoElement
    <3>2. QED BY <1>1, <1>2, <2>1, <3>1 DEF Top
  <2>2. CASE i # 1
    <3>1. PICK j \in DOMAIN stack'[h] : stack'[h][j] = stack[h][i] BY <1>2, <2>2
    <3>2. PICK f : f = stack[g][i] /\ Announces(f, t, o) BY <1>1
    <3>3. QED BY <1>2, <3>1, <3>2, AnnouncerAt
  <2>3. QED BY <2>1, <2>2
<1>3. CASE g # h
  <2>1. stack'[g] = stack[g] BY <1>3 DEF StackInv
  <2>2. PICK f : f = stack[g][i] /\ Announces(f, t, o) BY <1>1
  <2>3. i \in DOMAIN stack'[g] /\ f = stack'[g][i] BY <2>1, <2>2
  <2>4. QED BY <2>2, <2>3, AnnouncerAt
<1>4. QED BY <1>2, <1>3

\* The triggers, where the step changes neither the store nor the scheduler.
LEMMA StaysTriggers ==
    ASSUME StackInv, NoMissedTrigger, NEW h, UNCHANGED <<store, pending, unresolved>>,
           stack' = [stack EXCEPT ![h] = stack'[h]],
           h \in Handler =>
               \A i \in DOMAIN stack[h] \ {1} :
                   \E j \in DOMAIN stack'[h] : stack'[h][j] = stack[h][i],
           h \in Handler /\ stack[h] # <<>> =>
               \A t \in pending, o \in Task \ Fails :
                   Announces(Top(h), t, o) /\ Store!contains(o) => WillAnnounce(h, t, o)'
    PROVE  NoMissedTrigger'
<1>1. ASSUME NEW t \in pending, NEW o \in Task \ Fails,
             o \in unresolved[t], Store!contains(o)
      PROVE  \E g \in Handler : WillAnnounce(g, t, o)'
  <2>1. PICK g \in Handler : WillAnnounce(g, t, o) BY <1>1 DEF NoMissedTrigger
  <2>2. WillAnnounce(g, t, o)' \/ (g = h /\ stack[h] # <<>> /\ Announces(Top(h), t, o))
    BY <2>1, AnnouncersStay
  <2>3. QED BY <1>1, <2>1, <2>2
<1>2. QED BY <1>1 DEF NoMissedTrigger, Store!contains

LEMMA StillTriggers ==
    ASSUME NoMissedTrigger, UNCHANGED <<store, pending, unresolved, stack>>
    PROVE  NoMissedTrigger'
BY DEF NoMissedTrigger, WillAnnounce, Store!contains
-----------------------------------------------------------------------------
(***************************************************************************)
(* A request is read, and served or answered; a reply is sent.             *)
(***************************************************************************)
LEMMA Received ==
    ASSUME WireInv, NEW k \in Conn, inbox[k] # <<>>
    PROVE  /\ Tail(inbox[k]) = <<>> /\ outbox[k] = <<>> /\ stack[k] = <<>>
           /\ sent[k] = {} => k \in Node \ up
           /\ \A c \in sent[k] : wants[k][c] = Head(inbox[k])
           /\ \E c \in ThreadsOf(k) : RequestOK(k, c, Head(inbox[k]))
<1>1. ConnOK(k) /\ WireOK(k) BY DEF WireInv, ConnOK
<1>2. /\ outbox[k] = <<>> /\ stack[k] = <<>> /\ inbox[k] = <<Head(inbox[k])>>
      /\ sent[k] = {} => k \in Node \ up
      /\ \E c \in ThreadsOf(k) : RequestOK(k, c, Head(inbox[k]))
  BY <1>1 DEF WireOK
<1>3. Tail(inbox[k]) = <<>> BY <1>2, OneElement
<1>4. \A c \in sent[k] : wants[k][c] = Head(inbox[k])
  BY <1>1, <1>2 DEF ConnOK, SenderOK
<1>5. QED BY <1>2, <1>3, <1>4

\* The requests of the threads of k.
LEMMA StaysRequests ==
    ASSUME TaskInv, Grows, NEW k \in Conn, ConnOK(k), wants'[k] = wants[k]
    PROVE  \A c \in ThreadsOf(k) : RequestOK(k, c, wants[k][c])'
<1> TAKE c \in ThreadsOf(k)
<1>1. PICK m : m = wants[k][c] OBVIOUS
<1>2. RequestOK(k, c, m) BY <1>1 DEF ConnOK
<1>3. RequestOK(k, c, m)' /\ m = wants'[k][c] BY <1>1, <1>2, StaysRequest
<1>4. QED BY <1>3

LEMMA Served ==
    ASSUME TaskInv, Grows, NEW k \in Conn, ConnOK(k),
           wants'[k] = wants[k], sent'[k] = sent[k], UNCHANGED up,
           inbox'[k] = <<>>, outbox'[k] = <<>>, stack'[k] # <<>>,
           sent[k] = {} => k \in Node \ up,
           \A c \in sent[k] : Serves(Last(stack'[k]), wants[k][c])
    PROVE  ConnOK(k)'
<1>1. \A c \in ThreadsOf(k) : RequestOK(k, c, wants[k][c])' BY StaysRequests
<1>2. WireOK(k)' BY DEF WireOK, ConnOK
<1>3. \A c \in sent[k] : SenderOK(k, c)' BY DEF SenderOK, Serves
<1>4. QED BY <1>1, <1>2, <1>3 DEF ConnOK

LEMMA Answered ==
    ASSUME TaskInv, Grows, NEW k \in Conn, ConnOK(k), WireTypes,
           wants'[k] = wants[k], sent'[k] = sent[k], UNCHANGED up, NEW msg,
           inbox'[k] = <<>>, outbox[k] = <<>>, Answer(k, msg), stack'[k] = <<>>,
           sent[k] = {} => k \in Node \ up, ReplyOK(msg)',
           \A c \in sent[k] : Answers(wants[k][c], msg)
    PROVE  ConnOK(k)'
<1>1. \A c \in ThreadsOf(k) : RequestOK(k, c, wants[k][c])' BY StaysRequests
<1>2. CASE k \in Node \ up
  <2>1. outbox'[k] = <<>> /\ sent[k] = {} BY <1>2 DEF Answer, ConnOK, WireOK
  <2>2. WireOK(k)' BY <1>2, <2>1 DEF WireOK, ConnOK
  <2>3. QED BY <1>1, <2>1, <2>2 DEF ConnOK
<1>3. CASE k \notin Node \ up
  <2>1. outbox'[k] = <<msg>>
    <3>1. outbox'[k] = Append(outbox[k], msg) BY <1>3 DEF Answer, WireTypes
    <3>2. QED BY <3>1, OneElement
  <2>2. outbox'[k] # <<>> /\ Head(outbox'[k]) = msg BY <2>1, OneElement
  <2>3. outbox'[k] = <<Head(outbox'[k])>> BY <2>1, <2>2
  <2>4. WireOK(k)' BY <1>3, <2>2, <2>3 DEF WireOK, Reply
  <2>5. \A c \in sent[k] : SenderOK(k, c)' BY <2>2 DEF SenderOK, Answers, Reply
  <2>6. QED BY <1>1, <2>4, <2>5 DEF ConnOK
<1>4. QED BY <1>2, <1>3
-----------------------------------------------------------------------------
(***************************************************************************)
(* The threads of the clients and the nodes.  They leave the head alone.   *)
(***************************************************************************)
LEMMA SameAsking ==
    ASSUME \A k \in Client, u \in User : Asks(k, u)' <=> Asks(k, u)
    PROVE  Asking' = Asking
<1>1. ASSUME NEW q \in Client \X User PROVE Asks(q[1], q[2])' <=> Asks(q[1], q[2])
  OBVIOUS
<1>2. QED BY <1>1 DEF Asking

\* What a step outside the head leaves to say.
LEMMA HeadStays ==
    ASSUME ClusterInv, UNCHANGED headVars
    PROVE  /\ Grows /\ StackInv' /\ SchedInv' /\ NoMissedTrigger'
           /\ UNCHANGED <<submitted, store, stack>>
<1>1. Grows BY GrowsSame DEF headVars, osVars, tableVars
<1>2. UNCHANGED <<store, stack, schedVars, submitted>> BY DEF headVars, osVars, tableVars
<1>3. QED BY <1>1, <1>2, StillStacks, StaysSched, StillTriggers DEF ClusterInv, schedVars

LEMMA SendInv ==
    ASSUME ClusterInv, NEW k \in Conn, NEW c \in ThreadsOf(k), Send(k, c)
    PROVE  ClusterInv'
<1>1. UNCHANGED headVars /\ UNCHANGED clientVars /\ UNCHANGED poolVars
  BY DEF Send
<1>2. /\ Grows /\ StackInv' /\ SchedInv' /\ NoMissedTrigger'
      /\ UNCHANGED <<submitted, store, stack>>
  BY <1>1, HeadStays
<1>3. ConnOK(k) /\ TaskInv /\ WireInv /\ WireTypes BY DEF ClusterInv, WireInv
<1>4. /\ sent' = [sent EXCEPT ![k] = sent'[k]] /\ sent'[k] = {c}
      /\ inbox' = [inbox EXCEPT ![k] = inbox'[k]]
      /\ UNCHANGED <<wants, outbox, up>> /\ sent[k] = {}
  BY <1>3 DEF Send, WireTypes
<1>5. RequestOK(k, c, wants[k][c]) BY <1>3 DEF ConnOK
<1>6. wants[k][c].cmd # "none" BY <1>5 DEF Send, RequestOK
<1>7. k \notin Node \ up BY <1>3 DEF Send, ConnOK, WireOK
<1>8. inbox[k] = <<>> /\ stack[k] = <<>> /\ outbox[k] = <<>>
  BY <1>3, <1>4, <1>7 DEF ConnOK, WireOK
<1>9. inbox'[k] = <<wants[k][c]>>
  <2>1. inbox'[k] = Append(inbox[k], wants[k][c]) BY <1>3 DEF Send, WireTypes
  <2>2. QED BY <1>8, <2>1, OneElement
<1>10. inbox'[k] # <<>> /\ Head(inbox'[k]) = wants[k][c] BY <1>9, OneElement
<1>11. ConnOK(k)'
  <2>1. \A d \in ThreadsOf(k) : RequestOK(k, d, wants[k][d])'
    BY <1>2, <1>3, <1>4, StaysRequests
  <2>2. RequestOK(k, c, Head(inbox[k]))'
    <3>1. PICK m : m = wants[k][c] /\ RequestOK(k, c, m) BY <1>5
    <3>2. RequestOK(k, c, m)' /\ m = Head(inbox'[k]) BY <1>2, <1>3, <1>10, <3>1, StaysRequest
    <3>3. QED BY <3>2
  <2>3. WireOK(k)' BY <1>2, <1>4, <1>7, <1>8, <1>9, <1>10, <2>2 DEF WireOK
  <2>4. SenderOK(k, c)' BY <1>4, <1>10 DEF SenderOK
  <2>5. QED BY <1>4, <1>6, <2>1, <2>3, <2>4 DEF ConnOK
<1>12. WireInv'
  <2>1. \A j \in Conn : wants'[j] = [d \in ThreadsOf(j) |-> wants'[j][d]]
    BY <1>3, <1>4 DEF WireTypes
  <2>2. \A j : wants' = [wants EXCEPT ![j] = wants'[j]] /\ outbox' = [outbox EXCEPT ![j] = outbox'[j]]
    BY <1>3, <1>4 DEF WireTypes
  <2>3. QED BY <1>2, <1>3, <1>4, <1>11, <2>1, <2>2, OneConn
<1>13. Asking' = Asking
  <2>1. ASSUME NEW j \in Client, NEW u \in User PROVE Asks(j, u)' <=> Asks(j, u)
    <3>1. CASE j = k BY <1>4, <1>10, <3>1 DEF Asks
    <3>2. CASE j # k
      <4>1. sent'[j] = sent[j] /\ inbox'[j] = inbox[j] BY <1>3, <1>4, <3>2 DEF WireTypes, Conn
      <4>2. QED BY <1>4, <4>1 DEF Asks
    <3>3. QED BY <3>1, <3>2
  <2>2. QED BY <2>1, SameAsking
<1>14. TaskInv' BY <1>1, <1>2, <1>3, <1>13, StaysTasks DEF headVars, tableVars
<1>15. ValueInv' BY <1>1, <1>2, StaysValues DEF ClusterInv
<1>16. QED BY <1>2, <1>12, <1>14, <1>15 DEF ClusterInv

LEMMA UserCallInv ==
    ASSUME ClusterInv, NEW k \in Client, NEW u \in User, NEW msg, UserCall(k, u, msg),
           RequestOK(k, u, msg), msg.cmd # "none",
           msg.cmd = "submit_task" => asked < MaxTasks
    PROVE  ClusterInv'
<1>1. UNCHANGED headVars /\ UNCHANGED poolVars /\ UNCHANGED <<sent, inbox, outbox, up, refs>>
  BY DEF UserCall
<1>2. /\ Grows /\ StackInv' /\ SchedInv' /\ NoMissedTrigger'
      /\ UNCHANGED <<submitted, store, stack>>
  BY <1>1, HeadStays
<1>3. ConnOK(k) /\ TaskInv /\ WireInv /\ WireTypes /\ k \in Conn /\ u \in ThreadsOf(k)
      /\ k \notin Node
  BY ClusterAssumption DEF ClusterInv, WireInv, Conn, ThreadsOf
<1>4. /\ wants' = [wants EXCEPT ![k] = wants'[k]]
      /\ wants'[k] = [wants[k] EXCEPT ![u] = msg]
      /\ wants[k] = [c \in ThreadsOf(k) |-> wants[k][c]]
      /\ wants[k][u] = NoRequest
  BY <1>3 DEF UserCall, WireTypes
<1>5. u \notin sent[k] BY <1>3, <1>4 DEF ConnOK, NoRequest, Msg
<1>6. wants'[k][u] = msg /\ \A c \in ThreadsOf(k) \ {u} : wants'[k][c] = wants[k][c]
  BY <1>3, <1>4
<1>7. ConnOK(k)'
  <2>1. ASSUME NEW c \in ThreadsOf(k) PROVE RequestOK(k, c, wants[k][c])'
    <3>1. PICK m : m = wants'[k][c] OBVIOUS
    <3>2. RequestOK(k, c, m) BY <1>3, <1>6, <3>1 DEF ConnOK
    <3>3. RequestOK(k, c, m)' BY <1>2, <1>3, <3>2, StaysRequest
    <3>4. QED BY <3>1, <3>3
  <2>2. ASSUME inbox[k] # <<>>
        PROVE  \E c \in ThreadsOf(k) : RequestOK(k, c, Head(inbox[k]))'
    <3>1. PICK m : m = Head(inbox[k]) OBVIOUS
    <3>2. PICK c \in ThreadsOf(k) : RequestOK(k, c, m)
      BY <1>3, <2>2, <3>1 DEF ConnOK, WireOK
    <3>3. RequestOK(k, c, m)' BY <1>2, <1>3, <3>2, StaysRequest
    <3>4. m = Head(inbox'[k]) BY <1>1, <3>1
    <3>5. QED BY <3>3, <3>4
  <2>3. ASSUME outbox[k] # <<>> PROVE ReplyOK(Reply(k))'
    <3>1. PICK r : r = Reply(k) /\ ReplyOK(r) BY <1>3, <2>3 DEF ConnOK, WireOK
    <3>2. ReplyOK(r)' /\ r = Reply(k)' BY <1>1, <1>2, <1>3, <3>1, StaysReply DEF Reply
    <3>3. QED BY <3>2
  <2>4. WireOK(k)'
    BY <1>1, <1>2, <1>3, <2>2, <2>3 DEF ConnOK, WireOK, Reply
  <2>5. ASSUME NEW c \in sent[k] PROVE wants'[k][c].cmd # "none" /\ SenderOK(k, c)'
    <3>1. wants'[k][c] = wants[k][c] BY <1>3, <1>5, <1>6 DEF ConnOK
    <3>2. wants[k][c].cmd # "none" /\ SenderOK(k, c) BY <1>3 DEF ConnOK
    <3>3. QED BY <1>1, <1>2, <3>1, <3>2 DEF SenderOK, Reply
  <2>6. QED BY <1>1, <1>3, <2>1, <2>4, <2>5 DEF ConnOK
<1>8. WireInv'
  <2>1. \A j : /\ sent' = [sent EXCEPT ![j] = sent'[j]]
               /\ inbox' = [inbox EXCEPT ![j] = inbox'[j]]
               /\ outbox' = [outbox EXCEPT ![j] = outbox'[j]]
    BY <1>1, <1>3 DEF WireTypes
  <2>2. QED BY <1>1, <1>2, <1>3, <1>4, <1>7, <2>1, OneConn
<1>9. ASSUME NEW j \in Client, NEW v \in User, <<j, v>> # <<k, u>>
      PROVE  Asks(j, v)' <=> Asks(j, v)
  <2>1. wants'[j][v] = wants[j][v]
    BY <1>3, <1>4, <1>6, <1>9 DEF WireTypes, Conn, ThreadsOf
  <2>2. QED BY <1>1, <2>1 DEF Asks
<1>10. ~ Asks(k, u) /\ (Asks(k, u)' <=> msg.cmd = "submit_task")
  BY <1>1, <1>4, <1>5, <1>6 DEF Asks, NoRequest, Msg
<1>11. TaskInv'
  <2>1. UNCHANGED <<submitted, args, refs>> BY <1>1 DEF headVars, tableVars
  <2>2. CASE msg.cmd = "submit_task"
    <3>1. asked' = asked + 1 /\ asked < MaxTasks BY <2>2 DEF UserCall
    <3>2. Asking' = Asking \cup {<<k, u>>}
      <4>1. \A q \in Client \X User : Asks(q[1], q[2])' <=> Asks(q[1], q[2]) \/ q = <<k, u>>
        BY <1>9, <1>10, <2>2
      <4>2. QED BY <4>1 DEF Asking
    <3>3. <<k, u>> \notin Asking BY <1>10 DEF Asking
    <3>4. /\ IsFiniteSet(Asking') /\ Cardinality(Asking') = Cardinality(Asking) + 1
          /\ Cardinality(Asking) \in Nat
      BY <1>3, <3>2, <3>3, FS_AddElement, FS_CardinalityType DEF TaskInv
    <3>5. asked' = Cardinality(submitted') + Cardinality(Asking') /\ asked' <= MaxTasks
      <4>1. PICK a \in Nat, b \in Nat : a = Cardinality(submitted) /\ b = Cardinality(Asking)
        BY <1>3, <3>4 DEF TaskInv
      <4>2. asked = a + b BY <1>3, <4>1 DEF TaskInv
      <4>3. Cardinality(submitted') = a /\ Cardinality(Asking') = b + 1 BY <2>1, <3>4, <4>1
      <4>4. QED BY <3>1, <4>2, <4>3, TaskAssumption
    <3>6. QED BY <1>3, <2>1, <3>4, <3>5 DEF TaskInv
  <2>3. CASE msg.cmd # "submit_task"
    <3>1. UNCHANGED asked BY <2>3 DEF UserCall
    <3>2. Asking' = Asking BY <1>9, <1>10, <2>3, SameAsking
    <3>3. QED BY <1>3, <2>1, <3>1, <3>2, StaysTasks DEF clientVars
  <2>4. QED BY <2>2, <2>3
<1>12. ValueInv' BY <1>1, <1>2, <1>3, StaysValues DEF ClusterInv
<1>13. QED BY <1>2, <1>8, <1>11, <1>12 DEF ClusterInv

LEMMA UserCallsInv ==
    ASSUME ClusterInv, NEW k \in Client, NEW u \in User, UserCalls(k, u)
    PROVE  ClusterInv'
<1>1. refs[k] \subseteq submitted BY DEF ClusterInv, TaskInv
<1>2. ASSUME asked < MaxTasks, NEW a \in SeqOf(refs[k], MaxArgs),
             UserCall(k, u, Msg("submit_task", Nothing, a))
      PROVE  ClusterInv'
  <2>1. a \in SeqOf(submitted, MaxArgs) BY <1>1, BoundedSequence, ClusterAssumption
  <2>2. RequestOK(k, u, Msg("submit_task", Nothing, a)) BY <2>1 DEF RequestOK, CommandsOf, Msg
  <2>3. QED BY <1>2, <2>2, UserCallInv DEF Msg
<1>3. ASSUME NEW o \in refs[k], NEW cmd \in {"get_object", "contains_object"},
             UserCall(k, u, Msg(cmd, o, Nothing))
      PROVE  ClusterInv'
  <2>1. RequestOK(k, u, Msg(cmd, o, Nothing)) BY <1>1 DEF RequestOK, CommandsOf, Msg
  <2>2. QED BY <1>3, <2>1, UserCallInv DEF Msg
<1>4. QED BY <1>2, <1>3 DEF UserCalls

\* The thread that holds the lock of its connection gets the reply.
LEMMA ReceiveInv ==
    ASSUME ClusterInv, NEW k \in Conn, NEW c \in ThreadsOf(k), Receive(k, c)
    PROVE  /\ Grows /\ StackInv' /\ SchedInv' /\ NoMissedTrigger' /\ WireInv'
           /\ Asking' = Asking /\ ReplyOK(Reply(k))
           /\ Answers(wants[k][c], Reply(k)) /\ RequestOK(k, c, wants[k][c])
           /\ wants[k][c].cmd # "none" /\ k \notin Node \ up
           /\ outbox[k] = <<Reply(k)>> /\ outbox'[k] = <<>>
<1>1. UNCHANGED headVars /\ UNCHANGED <<inbox, up>> BY DEF Receive
<1>2. /\ Grows /\ StackInv' /\ SchedInv' /\ NoMissedTrigger'
      /\ UNCHANGED <<submitted, store, stack>>
  BY <1>1, HeadStays
<1>3. ConnOK(k) /\ TaskInv /\ WireInv /\ WireTypes BY DEF ClusterInv, WireInv
<1>4. /\ c \in sent[k] /\ outbox[k] # <<>> /\ sent[k] = {c}
      /\ wants[k][c].cmd # "none" /\ SenderOK(k, c) /\ RequestOK(k, c, wants[k][c])
  BY <1>3 DEF Receive, ConnOK
<1>5. /\ k \notin Node \ up /\ stack[k] = <<>> /\ inbox[k] = <<>>
      /\ ReplyOK(Reply(k)) /\ outbox[k] = <<Reply(k)>>
  BY <1>3, <1>4 DEF ConnOK, WireOK
<1>6. Answers(wants[k][c], Reply(k)) BY <1>4, <1>5 DEF SenderOK
<1>7. /\ sent' = [sent EXCEPT ![k] = sent'[k]] /\ sent'[k] = {}
      /\ outbox' = [outbox EXCEPT ![k] = outbox'[k]]
      /\ wants' = [wants EXCEPT ![k] = wants'[k]]
      /\ wants'[k] = [wants[k] EXCEPT ![c] = Idle(k)[c]]
      /\ wants[k] = [d \in ThreadsOf(k) |-> wants[k][d]]
  BY <1>3, <1>4 DEF Receive, WireTypes
<1>8. outbox'[k] = <<>>
  <2>1. outbox'[k] = Tail(outbox[k]) BY <1>3 DEF Receive, WireTypes
  <2>2. QED BY <1>5, <2>1, OneElement
<1>9. wants'[k][c] = Idle(k)[c] /\ \A d \in ThreadsOf(k) \ {c} : wants'[k][d] = wants[k][d]
  BY <1>7
<1>10. RequestOK(k, c, Idle(k)[c])
  <2>1. Idle(k)[c] = IF c = "poller" THEN Poll ELSE NoRequest BY DEF Idle
  <2>2. c = "poller" => k \in Node /\ k \notin Client
    BY ClusterAssumption DEF ThreadsOf, Conn
  <2>3. QED BY <2>1, <2>2 DEF RequestOK, CommandsOf, Poll, NoRequest, Msg
<1>11. ConnOK(k)'
  <2>1. ASSUME NEW d \in ThreadsOf(k) PROVE RequestOK(k, d, wants[k][d])'
    <3>1. PICK m : m = wants'[k][d] OBVIOUS
    <3>2. RequestOK(k, d, m) BY <1>3, <1>9, <1>10, <3>1 DEF ConnOK
    <3>3. RequestOK(k, d, m)' BY <1>2, <1>3, <3>2, StaysRequest
    <3>4. QED BY <3>1, <3>3
  <2>2. WireOK(k)' BY <1>1, <1>2, <1>5, <1>7, <1>8 DEF WireOK
  <2>3. QED BY <1>7, <2>1, <2>2 DEF ConnOK
<1>12. WireInv'
  <2>1. \A j : inbox' = [inbox EXCEPT ![j] = inbox'[j]] BY <1>1, <1>3 DEF WireTypes
  <2>2. QED BY <1>1, <1>2, <1>3, <1>7, <1>11, <2>1, OneConn
<1>13. Asking' = Asking
  <2>1. ASSUME NEW j \in Client, NEW u \in User PROVE Asks(j, u)' <=> Asks(j, u)
    <3>1. CASE j = k /\ u = c
      <4>1. ~ Asks(j, u) BY <1>4, <1>5, <3>1 DEF Asks
      <4>2. wants'[j][u].cmd # "submit_task"
        BY <1>9, <3>1 DEF Idle, Poll, NoRequest, Msg
      <4>3. QED BY <4>1, <4>2 DEF Asks
    <3>2. CASE j = k /\ u # c
      <4>1. wants'[j][u] = wants[j][u]
        BY <1>9, <3>2, ClusterAssumption DEF ThreadsOf, Conn
      <4>2. u \notin sent[j] /\ u \notin sent'[j] BY <1>4, <1>7, <3>2
      <4>3. QED BY <4>1, <4>2 DEF Asks
    <3>3. CASE j # k
      <4>1. sent'[j] = sent[j] /\ wants'[j] = wants[j]
        BY <1>3, <1>7, <3>3 DEF WireTypes, Conn
      <4>2. QED BY <1>1, <4>1 DEF Asks
    <3>4. QED BY <3>1, <3>2, <3>3
  <2>2. QED BY <2>1, SameAsking
<1>14. QED BY <1>2, <1>4, <1>5, <1>6, <1>8, <1>12, <1>13

LEMMA UserReturnInv ==
    ASSUME ClusterInv, NEW k \in Client, NEW u \in User, UserReturn(k, u)
    PROVE  ClusterInv'
<1>1. k \in Conn /\ u \in ThreadsOf(k) /\ Receive(k, u) /\ TaskInv /\ ValueInv
  BY ClusterAssumption DEF UserReturn, Conn, ThreadsOf, ClusterInv
<1>2. /\ Grows /\ StackInv' /\ SchedInv' /\ NoMissedTrigger' /\ WireInv'
      /\ Asking' = Asking /\ ReplyOK(Reply(k))
  BY <1>1, ReceiveInv
<1>3. UNCHANGED <<submitted, args, asked, store, poolVars>>
  BY DEF UserReturn, Receive, headVars, osVars, tableVars, poolVars
<1>4. refs' = [j \in Client |-> refs'[j]] /\ \A j \in Client : refs'[j] \subseteq submitted
  <2>1. CASE Reply(k).cmd = "object_id"
    <3>1. refs' = [refs EXCEPT ![k] = @ \cup {Reply(k).task}] BY <2>1 DEF UserReturn
    <3>2. Reply(k).task \in submitted BY <1>2, <2>1 DEF ReplyOK
    <3> DEFINE o == Reply(k).task
    <3> HIDE DEF o
    <3>3. refs' = [refs EXCEPT ![k] = @ \cup {o}] /\ o \in submitted BY <3>1, <3>2 DEF o
    <3>4. QED BY <1>1, <3>3 DEF TaskInv
  <2>2. CASE Reply(k).cmd # "object_id"
    <3>1. UNCHANGED refs BY <2>2 DEF UserReturn
    <3>2. QED BY <1>1, <3>1 DEF TaskInv
  <2>3. QED BY <2>1, <2>2
<1>5. TaskInv' BY <1>1, <1>2, <1>3, <1>4 DEF TaskInv
<1>6. ValueInv' BY <1>1, <1>2, <1>3, StaysValues
<1>7. QED BY <1>2, <1>5, <1>6 DEF ClusterInv

LEMMA PollReturnInv ==
    ASSUME ClusterInv, NEW n \in Node, PollReturn(n)
    PROVE  ClusterInv'
<1>1. n \in Conn /\ "poller" \in ThreadsOf(n) /\ Receive(n, "poller") /\ TaskInv /\ ValueInv
      /\ n \in Pool
  BY DEF PollReturn, Conn, ThreadsOf, ClusterInv, Pool
<1>2. /\ Grows /\ StackInv' /\ SchedInv' /\ NoMissedTrigger' /\ WireInv'
      /\ Asking' = Asking /\ ReplyOK(Reply(n))
  BY <1>1, ReceiveInv
<1>3. UNCHANGED <<submitted, args, clientVars, store, executing, results>>
  BY DEF PollReturn, Receive, headVars, osVars, tableVars, clientVars
<1>4. TaskInv' BY <1>1, <1>2, <1>3, StaysTasks
<1>5. ValueInv'
  <2>1. CASE Reply(n).cmd = "task"
    <3> DEFINE e == <<Reply(n).task, Reply(n).data>>
    <3>1. Called(e[1], e[2]) BY <1>2, <2>1 DEF ReplyOK
    <3>2. taskQueue' = [taskQueue EXCEPT ![n] = Append(@, e)] BY <2>1 DEF PollReturn
    <3> HIDE DEF e
    <3>3. taskQueue'[n] = Append(taskQueue[n], e)
          /\ taskQueue' = [taskQueue EXCEPT ![n] = taskQueue'[n]]
      BY <1>1, <3>2 DEF ValueInv
    <3>4. PoolOK(n) BY <1>1 DEF ValueInv
    <3>5. IsSequence(taskQueue'[n]) /\ ToSet(taskQueue'[n]) = ToSet(taskQueue[n]) \cup {e}
      BY <3>3, <3>4, AppendSequence DEF PoolOK
    <3>6. ASSUME NEW d \in ToSet(taskQueue'[n]) \cup executing'[n] PROVE Called(d[1], d[2])'
      <4>1. Called(d[1], d[2]) BY <1>3, <3>1, <3>4, <3>5 DEF PoolOK
      <4>2. QED BY <1>1, <1>2, <4>1, StaysCalled
    <3>7. \A r \in ToSet(results'[n]) : Computed(r[1], r[2])'
      BY <1>1, <1>2, <1>3, <3>4, StaysCalled DEF PoolOK
    <3>8. PoolOK(n)' BY <1>3, <3>4, <3>5, <3>6, <3>7 DEF PoolOK
    <3>9. executing' = [executing EXCEPT ![n] = executing'[n]]
          /\ results' = [results EXCEPT ![n] = results'[n]]
      BY <1>1, <1>3 DEF ValueInv
    <3>10. QED BY <1>1, <1>2, <1>3, <3>3, <3>8, <3>9, OnePool
  <2>2. CASE Reply(n).cmd # "task"
    <3>1. UNCHANGED taskQueue BY <2>2 DEF PollReturn
    <3>2. QED BY <1>1, <1>2, <1>3, <3>1, StaysValues DEF poolVars
  <2>3. QED BY <2>1, <2>2
<1>6. QED BY <1>2, <1>4, <1>5 DEF ClusterInv

LEMMA ReportReturnInv ==
    ASSUME ClusterInv, NEW n \in Node, ReportReturn(n)
    PROVE  ClusterInv'
<1>1. n \in Conn /\ "reporter" \in ThreadsOf(n) /\ Receive(n, "reporter") /\ TaskInv /\ ValueInv
  BY DEF ReportReturn, Conn, ThreadsOf, ClusterInv
<1>2. /\ Grows /\ StackInv' /\ SchedInv' /\ NoMissedTrigger' /\ WireInv' /\ Asking' = Asking
  BY <1>1, ReceiveInv
<1>3. UNCHANGED <<submitted, args, clientVars, store, poolVars>>
  BY DEF ReportReturn, Receive, headVars, osVars, tableVars, clientVars, poolVars
<1>4. QED BY <1>1, <1>2, <1>3, StaysTasks, StaysValues DEF ClusterInv

\* A pool whose workers or reporter take the next task or result.
LEMMA PoolStepInv ==
    ASSUME ClusterInv, NEW p \in Pool, UNCHANGED headVars, UNCHANGED connVars,
           UNCHANGED clientVars,
           taskQueue' = [taskQueue EXCEPT ![p] = taskQueue'[p]],
           executing' = [executing EXCEPT ![p] = executing'[p]],
           results' = [results EXCEPT ![p] = results'[p]],
           IsSequence(taskQueue'[p]), IsSequence(results'[p]),
           \A e \in ToSet(taskQueue'[p]) \cup executing'[p] : Called(e[1], e[2]),
           \A r \in ToSet(results'[p]) : Computed(r[1], r[2])
    PROVE  ClusterInv'
<1>1. /\ Grows /\ StackInv' /\ SchedInv' /\ NoMissedTrigger'
      /\ UNCHANGED <<submitted, store, stack>> /\ TaskInv /\ ValueInv /\ WireInv
  BY HeadStays DEF ClusterInv
<1>2. WireInv' BY <1>1, NoConn
<1>3. Asking' = Asking BY DEF Asking, Asks, connVars
<1>4. TaskInv' BY <1>1, <1>3, StaysTasks DEF headVars, tableVars
<1>5. PoolOK(p)' BY <1>1, StaysCalled DEF PoolOK
<1>6. ValueInv' BY <1>1, <1>5, OnePool
<1>7. QED BY <1>1, <1>2, <1>4, <1>6 DEF ClusterInv

LEMMA StartTaskInv ==
    ASSUME ClusterInv, NEW p \in Pool, StartTask(p)
    PROVE  ClusterInv'
<1>1. ValueInv /\ PoolOK(p) BY DEF ClusterInv, ValueInv
<1>2. /\ taskQueue' = [taskQueue EXCEPT ![p] = taskQueue'[p]]
      /\ taskQueue'[p] = Tail(taskQueue[p])
      /\ executing' = [executing EXCEPT ![p] = executing'[p]]
      /\ executing'[p] = executing[p] \cup {Head(taskQueue[p])}
      /\ results' = [results EXCEPT ![p] = results'[p]] /\ results'[p] = results[p]
      /\ taskQueue[p] # <<>>
  BY <1>1 DEF StartTask, ValueInv
<1>3. /\ IsSequence(taskQueue'[p])
      /\ ToSet(taskQueue[p]) = {Head(taskQueue[p])} \cup ToSet(taskQueue'[p])
  BY <1>1, <1>2, TailSequence DEF PoolOK
<1>4. \A e \in ToSet(taskQueue'[p]) \cup executing'[p] : Called(e[1], e[2])
  BY <1>1, <1>2, <1>3 DEF PoolOK
<1>5. QED BY <1>1, <1>2, <1>3, <1>4, PoolStepInv DEF PoolOK, StartTask

LEMMA FinishTaskInv ==
    ASSUME ClusterInv, NEW p \in Pool, NEW e \in executing[p], FinishTask(p, e)
    PROVE  ClusterInv'
<1> DEFINE r == <<e[1], Outcome(e[1], e[2])>>
<1>1. ValueInv /\ PoolOK(p) BY DEF ClusterInv, ValueInv
<1>2. Computed(r[1], r[2]) BY <1>1 DEF PoolOK, Called, Computed
<1>3. results' = [results EXCEPT ![p] = Append(@, r)] BY DEF FinishTask
<1> HIDE DEF r
<1>4. /\ results' = [results EXCEPT ![p] = results'[p]]
      /\ results'[p] = Append(results[p], r)
      /\ executing' = [executing EXCEPT ![p] = executing'[p]]
      /\ executing'[p] \subseteq executing[p]
      /\ taskQueue' = [taskQueue EXCEPT ![p] = taskQueue'[p]] /\ taskQueue'[p] = taskQueue[p]
  BY <1>1, <1>3 DEF FinishTask, ValueInv
<1>5. IsSequence(results'[p]) /\ ToSet(results'[p]) = ToSet(results[p]) \cup {r}
  BY <1>1, <1>4, AppendSequence DEF PoolOK
<1>6. \A d \in ToSet(taskQueue'[p]) \cup executing'[p] : Called(d[1], d[2])
  BY <1>1, <1>4 DEF PoolOK
<1>7. \A d \in ToSet(results'[p]) : Computed(d[1], d[2])
  BY <1>1, <1>2, <1>5 DEF PoolOK
<1>8. QED BY <1>1, <1>4, <1>5, <1>6, <1>7, PoolStepInv DEF PoolOK, FinishTask

LEMMA TakeResultInv ==
    ASSUME ClusterInv, NEW n \in Node, TakeResult(n)
    PROVE  ClusterInv'
<1> DEFINE r == Head(results[n])
           msg == Msg("task_result", r[1], r[2])
<1>1. /\ UNCHANGED headVars /\ UNCHANGED clientVars
      /\ UNCHANGED <<sent, inbox, outbox, up, taskQueue, executing>>
  BY DEF TakeResult
<1>2. /\ Grows /\ StackInv' /\ SchedInv' /\ NoMissedTrigger'
      /\ UNCHANGED <<submitted, store, stack>>
  BY <1>1, HeadStays
<1>3. /\ ConnOK(n) /\ TaskInv /\ WireInv /\ WireTypes /\ ValueInv /\ PoolOK(n)
      /\ n \in Conn /\ n \in Pool /\ "reporter" \in ThreadsOf(n) /\ n \notin Client
      /\ n \in up /\ n \in up'
  BY <1>1, ClusterAssumption
  DEF ClusterInv, WireInv, ValueInv, Conn, Pool, ThreadsOf, TakeResult
<1>4. /\ results' = [results EXCEPT ![n] = results'[n]]
      /\ results'[n] = Tail(results[n]) /\ results[n] # <<>>
  BY <1>3 DEF TakeResult, ValueInv
<1>5. IsSequence(results'[n]) /\ ToSet(results[n]) = {r} \cup ToSet(results'[n])
  BY <1>3, <1>4, TailSequence DEF PoolOK
<1>6. Computed(r[1], r[2]) BY <1>3, <1>5 DEF PoolOK
<1>7. RequestOK(n, "reporter", msg) /\ msg.cmd = "task_result"
  BY <1>3, <1>6 DEF RequestOK, CommandsOf, Msg
<1>8. wants[n]["reporter"] = NoRequest /\ wants' = [wants EXCEPT ![n]["reporter"] = msg]
  BY DEF TakeResult
<1> HIDE DEF msg, r
<1>9. /\ wants' = [wants EXCEPT ![n] = wants'[n]]
      /\ wants'[n] = [wants[n] EXCEPT !["reporter"] = msg]
      /\ wants[n] = [c \in ThreadsOf(n) |-> wants[n][c]]
  BY <1>3, <1>8 DEF WireTypes
<1>10. "reporter" \notin sent[n] BY <1>3, <1>8 DEF ConnOK, NoRequest, Msg
<1>11. /\ wants'[n]["reporter"] = msg
       /\ \A c \in ThreadsOf(n) \ {"reporter"} : wants'[n][c] = wants[n][c]
  BY <1>3, <1>9
<1>12. ConnOK(n)'
  <2>1. ASSUME NEW c \in ThreadsOf(n) PROVE RequestOK(n, c, wants[n][c])'
    <3>1. PICK m : m = wants'[n][c] OBVIOUS
    <3>2. RequestOK(n, c, m) BY <1>3, <1>7, <1>11, <3>1 DEF ConnOK
    <3>3. RequestOK(n, c, m)' BY <1>2, <1>3, <3>2, StaysRequest
    <3>4. QED BY <3>1, <3>3
  <2>2. ASSUME inbox[n] # <<>>
        PROVE  \E c \in ThreadsOf(n) : RequestOK(n, c, Head(inbox[n]))'
    <3>1. PICK m : m = Head(inbox[n]) OBVIOUS
    <3>2. PICK c \in ThreadsOf(n) : RequestOK(n, c, m)
      BY <1>3, <2>2, <3>1 DEF ConnOK, WireOK
    <3>3. RequestOK(n, c, m)' BY <1>2, <1>3, <3>2, StaysRequest
    <3>4. m = Head(inbox'[n]) BY <1>1, <3>1
    <3>5. QED BY <3>3, <3>4
  <2>3. ASSUME outbox[n] # <<>> PROVE ReplyOK(Reply(n))'
    <3>1. PICK m : m = Reply(n) /\ ReplyOK(m) BY <1>3, <2>3 DEF ConnOK, WireOK
    <3>2. ReplyOK(m)' /\ m = Reply(n)' BY <1>1, <1>2, <1>3, <3>1, StaysReply DEF Reply
    <3>3. QED BY <3>2
  <2>4. WireOK(n)'
    BY <1>1, <1>2, <1>3, <2>2, <2>3 DEF ConnOK, WireOK, Reply
  <2>5. ASSUME NEW c \in sent[n] PROVE wants'[n][c].cmd # "none" /\ SenderOK(n, c)'
    <3>1. wants'[n][c] = wants[n][c] BY <1>3, <1>10, <1>11 DEF ConnOK
    <3>2. wants[n][c].cmd # "none" /\ SenderOK(n, c) BY <1>3 DEF ConnOK
    <3>3. QED BY <1>1, <1>2, <3>1, <3>2 DEF SenderOK, Reply
  <2>6. QED BY <1>1, <1>3, <2>1, <2>4, <2>5 DEF ConnOK
<1>13. WireInv'
  <2>1. \A j : /\ sent' = [sent EXCEPT ![j] = sent'[j]]
               /\ inbox' = [inbox EXCEPT ![j] = inbox'[j]]
               /\ outbox' = [outbox EXCEPT ![j] = outbox'[j]]
    BY <1>1, <1>3 DEF WireTypes
  <2>2. wants'[n] = [c \in ThreadsOf(n) |-> wants'[n][c]] BY <1>9
  <2>3. QED BY <1>1, <1>2, <1>3, <1>9, <1>12, <2>1, <2>2, OneConn
<1>14. Asking' = Asking
  <2>1. ASSUME NEW j \in Client, NEW u \in User PROVE Asks(j, u)' <=> Asks(j, u)
    <3>1. wants'[j] = wants[j] BY <1>3, <1>9 DEF WireTypes, Conn
    <3>2. QED BY <1>1, <3>1 DEF Asks
  <2>2. QED BY <2>1, SameAsking
<1>15. TaskInv' BY <1>1, <1>2, <1>3, <1>14, StaysTasks DEF headVars, tableVars
<1>16. PoolOK(n)'
  <2>1. \A e \in ToSet(taskQueue'[n]) \cup executing'[n] : Called(e[1], e[2])'
    BY <1>1, <1>2, <1>3, StaysCalled DEF PoolOK
  <2>2. \A e \in ToSet(results'[n]) : Computed(e[1], e[2])'
    BY <1>2, <1>3, <1>5, StaysCalled DEF PoolOK
  <2>3. QED BY <1>1, <1>3, <1>5, <2>1, <2>2 DEF PoolOK
<1>17. ValueInv'
  <2>1. /\ taskQueue' = [taskQueue EXCEPT ![n] = taskQueue'[n]]
        /\ executing' = [executing EXCEPT ![n] = executing'[n]]
    BY <1>1, <1>3 DEF ValueInv
  <2>2. QED BY <1>2, <1>3, <1>4, <1>16, <2>1, OnePool
<1>18. QED BY <1>2, <1>13, <1>15, <1>17 DEF ClusterInv

LEMMA StopInv ==
    ASSUME ClusterInv, NEW n \in Node, Stop(n)
    PROVE  ClusterInv'
<1>1. UNCHANGED headVars /\ UNCHANGED clientVars /\ n \in up /\ up' = up \ {n}
  BY DEF Stop
<1>2. /\ Grows /\ StackInv' /\ SchedInv' /\ NoMissedTrigger'
      /\ UNCHANGED <<submitted, store, stack>>
  BY <1>1, HeadStays
<1>3. /\ ConnOK(n) /\ TaskInv /\ WireInv /\ WireTypes /\ ValueInv
      /\ n \in Conn /\ n \in Pool /\ n \notin Client
  BY ClusterAssumption DEF ClusterInv, WireInv, ValueInv, Conn, Pool
<1>4. PICK received \in {inbox[n], <<>>} : inbox' = [inbox EXCEPT ![n] = received]
  BY DEF Stop
<1>5. /\ wants' = [wants EXCEPT ![n] = wants'[n]]
      /\ wants'[n] = [c \in ThreadsOf(n) |-> NoRequest]
      /\ sent' = [sent EXCEPT ![n] = sent'[n]] /\ sent'[n] = {}
      /\ inbox' = [inbox EXCEPT ![n] = inbox'[n]] /\ inbox'[n] = received
      /\ outbox' = [outbox EXCEPT ![n] = outbox'[n]] /\ outbox'[n] = <<>>
  BY <1>3, <1>4 DEF Stop, WireTypes
<1>6. ConnOK(n)'
  <2>1. \A c \in ThreadsOf(n) : wants'[n][c] = NoRequest BY <1>5
  <2>2. ASSUME inbox'[n] # <<>>
        PROVE  /\ \E c \in ThreadsOf(n) : RequestOK(n, c, Head(inbox[n]))'
               /\ inbox'[n] = <<Head(inbox'[n])>> /\ stack[n] = <<>>
    <3>1. PICK m : m = Head(inbox[n]) OBVIOUS
    <3>2. inbox[n] # <<>> /\ inbox'[n] = inbox[n] BY <1>4, <1>5, <2>2
    <3>3. PICK c \in ThreadsOf(n) : RequestOK(n, c, m)
      BY <1>3, <3>1, <3>2 DEF ConnOK, WireOK
    <3>4. RequestOK(n, c, m)' BY <1>2, <1>3, <3>3, StaysRequest
    <3>5. m = Head(inbox'[n]) BY <3>1, <3>2
    <3>6. inbox[n] = <<Head(inbox[n])>> /\ stack[n] = <<>>
      BY <1>3, <3>2 DEF ConnOK, WireOK
    <3>7. QED BY <3>2, <3>4, <3>5, <3>6
  <2>3. WireOK(n)' BY <1>1, <1>2, <1>3, <1>5, <2>1, <2>2 DEF WireOK
  <2>4. \A c \in ThreadsOf(n) : RequestOK(n, c, wants[n][c])'
    BY <2>1 DEF RequestOK, CommandsOf, NoRequest, Msg
  <2>5. QED BY <1>5, <2>3, <2>4 DEF ConnOK
<1>7. WireInv'
  <2>1. wants'[n] = [c \in ThreadsOf(n) |-> wants'[n][c]] BY <1>5
  <2>2. QED BY <1>1, <1>2, <1>3, <1>5, <1>6, <2>1, OneConn
<1>8. Asking' = Asking
  <2>1. ASSUME NEW j \in Client, NEW u \in User PROVE Asks(j, u)' <=> Asks(j, u)
    <3>1. wants'[j] = wants[j] /\ sent'[j] = sent[j] /\ inbox'[j] = inbox[j]
      BY <1>3, <1>5 DEF WireTypes, Conn
    <3>2. QED BY <3>1 DEF Asks
  <2>2. QED BY <2>1, SameAsking
<1>9. TaskInv' BY <1>1, <1>2, <1>3, <1>8, StaysTasks DEF headVars, tableVars
<1>10. /\ taskQueue' = [taskQueue EXCEPT ![n] = taskQueue'[n]] /\ taskQueue'[n] = <<>>
       /\ executing' = [executing EXCEPT ![n] = executing'[n]] /\ executing'[n] = {}
       /\ results' = [results EXCEPT ![n] = results'[n]] /\ results'[n] = <<>>
  BY <1>3 DEF Stop, ValueInv
<1>11. PoolOK(n)' BY <1>10, NoElement DEF PoolOK
<1>12. ValueInv' BY <1>2, <1>3, <1>10, <1>11, OnePool
<1>13. QED BY <1>2, <1>7, <1>9, <1>12 DEF ClusterInv
-----------------------------------------------------------------------------
(***************************************************************************)
(* The head, while it neither stores nor schedules.                        *)
(***************************************************************************)
\* A thread of the head takes its calls on.
LEMMA HandlerMoves ==
    ASSUME ClusterInv, NEW h, Grows, StackInv', WireInv', ValueInv', SchedInv',
           Asking' = Asking, UNCHANGED <<store, submitted, args, pending, unresolved>>,
           UNCHANGED clientVars, stack' = [stack EXCEPT ![h] = stack'[h]],
           h \in Handler =>
               \A i \in DOMAIN stack[h] \ {1} :
                   \E j \in DOMAIN stack'[h] : stack'[h][j] = stack[h][i],
           h \in Handler /\ stack[h] # <<>> =>
               \A t \in pending, o \in Task \ Fails :
                   Announces(Top(h), t, o) /\ Store!contains(o) => WillAnnounce(h, t, o)'
    PROVE  ClusterInv'
<1>1. TaskInv' BY StaysTasks DEF ClusterInv
<1>2. NoMissedTrigger' BY StaysTriggers DEF ClusterInv
<1>3. QED BY <1>1, <1>2 DEF ClusterInv

LEMMA HandlerStep ==
    ASSUME ClusterInv, NEW h, Grows, StackInv', WireInv', Asking' = Asking,
           UNCHANGED <<store, submitted, args>>, UNCHANGED schedVars,
           UNCHANGED clientVars, UNCHANGED poolVars,
           stack' = [stack EXCEPT ![h] = stack'[h]],
           h \in Handler =>
               \A i \in DOMAIN stack[h] \ {1} :
                   \E j \in DOMAIN stack'[h] : stack'[h][j] = stack[h][i],
           h \in Handler /\ stack[h] # <<>> =>
               \A t \in pending, o \in Task \ Fails :
                   Announces(Top(h), t, o) /\ Store!contains(o) => WillAnnounce(h, t, o)'
    PROVE  ClusterInv'
<1>1. ValueInv' /\ SchedInv' BY StaysValues, StaysSched DEF ClusterInv
<1>2. QED BY <1>1, HandlerMoves DEF schedVars

\* A handler thread reads a request.
LEMMA ReceivingFacts ==
    ASSUME ClusterInv, NEW h, NEW cmd, Receiving(h, cmd)
    PROVE  /\ h \in Conn /\ h \in Handler /\ ConnOK(h) /\ WireInv /\ WireTypes /\ TaskInv
           /\ inbox' = [inbox EXCEPT ![h] = inbox'[h]] /\ inbox'[h] = <<>>
           /\ inbox[h] # <<>> /\ outbox[h] = <<>> /\ stack[h] = <<>>
           /\ UNCHANGED <<wants, sent, up>>
           /\ sent[h] = {} => h \in Node \ up
           /\ \A c \in sent[h] : wants[h][c] = Head(inbox[h])
           /\ Head(inbox[h]).cmd = cmd
           /\ \E c \in ThreadsOf(h) : RequestOK(h, c, Head(inbox[h]))
           /\ cmd # "submit_task" => Asking' = Asking
<1>1. /\ h \in Conn /\ h \in Handler /\ ConnOK(h) /\ WireInv /\ WireTypes /\ TaskInv
      /\ inbox[h] # <<>> /\ Head(inbox[h]).cmd = cmd /\ UNCHANGED <<wants, sent, up>>
  BY DEF ClusterInv, WireInv, Receiving, Handler
<1>2. /\ Tail(inbox[h]) = <<>> /\ outbox[h] = <<>> /\ stack[h] = <<>>
      /\ sent[h] = {} => h \in Node \ up
      /\ \A c \in sent[h] : wants[h][c] = Head(inbox[h])
      /\ \E c \in ThreadsOf(h) : RequestOK(h, c, Head(inbox[h]))
  BY <1>1, Received
<1>3. inbox' = [inbox EXCEPT ![h] = inbox'[h]] /\ inbox'[h] = <<>>
  BY <1>1, <1>2 DEF Receiving, WireTypes
<1>4. ASSUME cmd # "submit_task" PROVE Asking' = Asking
  <2>1. ASSUME NEW j \in Client, NEW u \in User PROVE Asks(j, u)' <=> Asks(j, u)
    <3>1. CASE j = h
      <4>1. u \in sent[h] => wants[h][u].cmd # "submit_task" BY <1>1, <1>2, <1>4
      <4>2. QED BY <1>1, <3>1, <4>1 DEF Asks
    <3>2. CASE j # h
      <4>1. inbox'[j] = inbox[j] BY <1>1, <1>3, <3>2 DEF WireTypes, Conn
      <4>2. QED BY <1>1, <4>1 DEF Asks
    <3>3. QED BY <3>1, <3>2
  <2>2. QED BY <2>1, SameAsking
<1>5. QED BY <1>1, <1>2, <1>3, <1>4

\* It serves it.
LEMMA ServeWire ==
    ASSUME ClusterInv, Grows, NEW h, NEW cmd, Receiving(h, cmd), UNCHANGED outbox,
           stack' = [stack EXCEPT ![h] = stack'[h]], stack'[h] # <<>>,
           Serves(Last(stack'[h]), Head(inbox[h]))
    PROVE  WireInv'
<1>1. /\ h \in Conn /\ ConnOK(h) /\ WireInv /\ WireTypes /\ TaskInv /\ StackInv
      /\ inbox' = [inbox EXCEPT ![h] = inbox'[h]] /\ inbox'[h] = <<>> /\ outbox[h] = <<>>
      /\ UNCHANGED <<wants, sent, up>>
      /\ sent[h] = {} => h \in Node \ up
      /\ \A c \in sent[h] : wants[h][c] = Head(inbox[h])
  BY ReceivingFacts DEF ClusterInv
<1>2. ConnOK(h)' BY <1>1, Served
<1>3. /\ wants' = [wants EXCEPT ![h] = wants'[h]]
      /\ wants'[h] = [c \in ThreadsOf(h) |-> wants'[h][c]]
      /\ sent' = [sent EXCEPT ![h] = sent'[h]] /\ outbox' = [outbox EXCEPT ![h] = outbox'[h]]
  BY <1>1, ZenonT(30) DEF WireTypes
<1>4. \A j \in Conn \ {h} : stack'[j] = stack[j] BY <1>1 DEF StackInv, Handler
<1>5. QED BY <1>1, <1>2, <1>3, <1>4, OneConn

\* It answers it at once.
LEMMA AnswerWire ==
    ASSUME ClusterInv, Grows, NEW h, NEW cmd, Receiving(h, cmd), UNCHANGED stack, NEW msg,
           Answer(h, msg), ReplyOK(msg)', Answers(Head(inbox[h]), msg)
    PROVE  WireInv'
<1>1. /\ h \in Conn /\ ConnOK(h) /\ WireInv /\ WireTypes /\ TaskInv
      /\ inbox' = [inbox EXCEPT ![h] = inbox'[h]] /\ inbox'[h] = <<>>
      /\ outbox[h] = <<>> /\ stack[h] = <<>>
      /\ UNCHANGED <<wants, sent, up>>
      /\ sent[h] = {} => h \in Node \ up
      /\ \A c \in sent[h] : wants[h][c] = Head(inbox[h])
  BY ReceivingFacts
<1>2. ConnOK(h)' BY <1>1, Answered
<1>3. /\ wants' = [wants EXCEPT ![h] = wants'[h]]
      /\ wants'[h] = [c \in ThreadsOf(h) |-> wants'[h][c]]
      /\ sent' = [sent EXCEPT ![h] = sent'[h]] /\ outbox' = [outbox EXCEPT ![h] = outbox'[h]]
  BY <1>1, ZenonT(30) DEF WireTypes, Answer
<1>4. QED BY <1>1, <1>2, <1>3, OneConn

\* A reply that was not sent at once: it is what is left to do.
LEMMA ReplyWire ==
    ASSUME ClusterInv, Grows, NEW h \in Handler, stack[h] # <<>>, Top(h).at \in Replying,
           Return(h), UNCHANGED <<wants, sent, inbox, up>>, NEW msg,
           Answer(h, msg), ReplyOK(msg)',
           \A m : m.cmd \in {"submit_task", "get_object", "contains_object", "poll_task",
                             "task_result"} /\ Serves(Top(h), m) => Answers(m, msg)
    PROVE  WireInv'
<1>1. /\ h \in Conn /\ ConnOK(h) /\ WireInv /\ WireTypes /\ TaskInv /\ StackInv
  BY TopFrame DEF ClusterInv, WireInv
<1>2. stack'[h] = <<>> /\ Last(stack[h]) = Top(h) BY <1>1, ReturnStack
<1>3. inbox[h] = <<>> /\ outbox[h] = <<>> /\ (sent[h] = {} => h \in Node \ up)
  BY <1>1 DEF ConnOK, WireOK
<1>4. ASSUME NEW c \in sent[h] PROVE Answers(wants[h][c], msg)
  <2>1. Serves(Top(h), wants[h][c]) /\ wants[h][c].cmd # "none"
        /\ RequestOK(h, c, wants[h][c])
    BY <1>1, <1>2, <1>3 DEF ConnOK, SenderOK
  <2>2. QED BY <2>1 DEF RequestOK, CommandsOf
<1>5. ConnOK(h)' BY <1>1, <1>2, <1>3, <1>4, Answered
<1>6. /\ wants' = [wants EXCEPT ![h] = wants'[h]]
      /\ wants'[h] = [c \in ThreadsOf(h) |-> wants'[h][c]]
      /\ sent' = [sent EXCEPT ![h] = sent'[h]] /\ inbox' = [inbox EXCEPT ![h] = inbox'[h]]
      /\ outbox' = [outbox EXCEPT ![h] = outbox'[h]]
  BY <1>1 DEF WireTypes, Answer
<1>7. \A j \in Conn \ {h} : stack'[j] = stack[j] BY <1>1 DEF StackInv, Handler, Return
<1>8. QED BY <1>1, <1>5, <1>6, <1>7, OneConn

LEMMA GetObjectInv ==
    ASSUME ClusterInv, NEW h, OnGetObject(h)
    PROVE  ClusterInv'
<1> DEFINE m == Head(inbox[h])
<1>0. PICK f : f = Frame("get", m.task, <<>>) OBVIOUS
<1>1. Receiving(h, "get_object") /\ Enter(h, <<f>>) BY <1>0 DEF OnGetObject
<1>2. /\ h \in Conn /\ h \in Handler /\ TaskInv /\ StackInv /\ stack[h] = <<>>
      /\ m.cmd = "get_object" /\ \E c \in ThreadsOf(h) : RequestOK(h, c, m)
      /\ Asking' = Asking
  BY <1>1, ReceivingFacts DEF ClusterInv
<1>3. UNCHANGED <<store, submitted, args, outbox, schedVars, clientVars, poolVars>>
  BY DEF OnGetObject, osVars, tableVars
<1>4. Grows BY <1>3, GrowsSame
<1>5. m.task \in submitted BY <1>2 DEF RequestOK
<1>6. FrameOK(f) /\ f.at \in Replying
  <2>1. <<>> \in Seq(submitted) BY EmptySeq
  <2>2. QED BY <1>0, <1>5, <2>1 DEF FrameOK, Frame, Replying
<1>7. FrameOK(f)' BY <1>2, <1>4, <1>6, StaysFrame
<1>8. Serves(f, m) BY <1>0, <1>2 DEF Serves, Frame
<1>9. /\ StackInv' /\ stack'[h] # <<>> /\ stack' = [stack EXCEPT ![h] = stack'[h]]
      /\ Last(stack'[h]) = f
  BY <1>1, <1>2, <1>4, <1>6, <1>7, EnterOne DEF Enter, StackInv
<1>10. WireInv' BY <1>1, <1>3, <1>4, <1>8, <1>9, ServeWire
<1>11. QED BY <1>2, <1>3, <1>4, <1>9, <1>10, NoElement, HandlerStep

LEMMA ContainsInv ==
    ASSUME ClusterInv, NEW h, OnContainsObject(h)
    PROVE  ClusterInv'
<1> DEFINE m == Head(inbox[h])
<1>0. PICK msg : msg = Msg("contains", m.task, Store!contains(m.task)) OBVIOUS
<1>1. Receiving(h, "contains_object") /\ Answer(h, msg) /\ UNCHANGED headVars
      /\ UNCHANGED clientVars /\ UNCHANGED poolVars
  BY <1>0 DEF OnContainsObject
<1>2. /\ h \in Handler /\ stack[h] = <<>> /\ m.cmd = "contains_object" /\ Asking' = Asking
  BY <1>1, ReceivingFacts
<1>3. Grows /\ StackInv' /\ SchedInv' /\ NoMissedTrigger'
      /\ UNCHANGED <<store, stack, submitted, args>> /\ TaskInv /\ ValueInv
  BY <1>1, HeadStays DEF headVars, tableVars, ClusterInv
<1>4. Answers(m, msg) /\ msg.cmd = "contains" BY <1>0, <1>2 DEF Answers, Msg, RepliesTo
<1>5. ReplyOK(msg)' BY <1>4 DEF ReplyOK
<1>6. WireInv' BY <1>1, <1>3, <1>4, <1>5, AnswerWire
<1>7. QED BY <1>1, <1>2, <1>3, <1>6, StaysTasks, StaysValues DEF ClusterInv

LEMMA PollEmptyInv ==
    ASSUME ClusterInv, NEW h, OnPollEmpty(h)
    PROVE  ClusterInv'
<1> DEFINE m == Head(inbox[h])
           msg == Msg("no_task", Nothing, Nothing)
<1>1. Receiving(h, "poll_task") /\ Answer(h, msg) /\ UNCHANGED headVars
      /\ UNCHANGED clientVars /\ UNCHANGED poolVars
  BY DEF OnPollEmpty
<1>2. /\ h \in Handler /\ stack[h] = <<>> /\ m.cmd = "poll_task" /\ Asking' = Asking
      /\ \E c \in ThreadsOf(h) : RequestOK(h, c, m)
  BY <1>1, ReceivingFacts
<1>3. Grows /\ StackInv' /\ SchedInv' /\ NoMissedTrigger'
      /\ UNCHANGED <<store, stack, submitted, args>> /\ TaskInv /\ ValueInv
  BY <1>1, HeadStays DEF headVars, tableVars, ClusterInv
<1>4. Answers(m, msg) /\ msg.cmd = "no_task" BY <1>2 DEF Answers, Msg, RepliesTo, RequestOK
<1>5. ReplyOK(msg)' BY <1>4 DEF ReplyOK
<1> HIDE DEF msg
<1>6. WireInv' BY <1>1, <1>3, <1>4, <1>5, AnswerWire
<1>7. QED BY <1>1, <1>2, <1>3, <1>6, StaysTasks, StaysValues DEF ClusterInv
-----------------------------------------------------------------------------
(***************************************************************************)
(* A ready task is taken, and its arguments are resolved one by one.       *)
(***************************************************************************)
LEMMA PopSched ==
    ASSUME ClusterInv, Grows, Sched!PopReady
    PROVE  /\ SchedInv' /\ UNCHANGED <<pending, unresolved>>
           /\ ready # <<>> /\ ArgsStored(Head(ready))
<1>1. /\ ready # <<>> /\ ready' = Tail(ready) /\ UNCHANGED <<pending, unresolved, waitingOn>>
  BY DEF Sched!PopReady
<1>2. TaskInv /\ SchedInv /\ ready \in Seq(submitted) /\ submitted \subseteq submitted'
  BY DEF ClusterInv, SchedInv, Grows
<1>3. Tail(ready) \in Seq(submitted) /\ ToSet(ready) = {Head(ready)} \cup ToSet(Tail(ready))
  BY <1>1, <1>2, SplitElements
<1>4. ASSUME NEW t \in ToSet(ready) PROVE ArgsStored(t) /\ ArgsStored(t)'
  BY <1>2, <1>4, StaysArguments DEF SchedInv
<1>5. \A t \in ToSet(ready') : ArgsStored(t)' BY <1>1, <1>3, <1>4
<1>6. ASSUME NEW t \in pending
      PROVE  \A d \in ToSet(args'[t]) : Store!contains(d)' \/ d \in unresolved[t]
  <2>1. args'[t] = args[t] /\ ToSet(args[t]) \subseteq Task
    BY <1>2, Arguments DEF SchedInv, Grows, TaskInv
  <2>2. QED BY <1>2, <2>1, StaysStored DEF SchedInv
<1>7. waitingOn \in [Task -> Seq(submitted')] /\ ready' \in Seq(submitted')
  BY <1>1, <1>2, <1>3, SequenceOver, SequenceIn DEF SchedInv
<1>8. SchedInv' BY <1>1, <1>2, <1>5, <1>6, <1>7 DEF SchedInv
<1>9. QED BY <1>1, <1>3, <1>4, <1>8

LEMMA ResolvingFrame ==
    ASSUME TaskInv, NEW t, ArgsStored(t),
           NEW at \in {"resolveReply", "resolveLocal"}, at = "resolveLocal" => HasLocal
    PROVE  FrameOK(Resolving(at, t))
<1>1. t \in submitted BY DEF ArgsStored
<1>2. args[t] \in Seq(submitted) /\ Len(args[t]) \in Nat BY <1>1, Arguments
<1> DEFINE f == Resolving(at, t)
<1>3. /\ f = [at |-> at, task |-> t, todo |-> args[t], vals |-> <<>>]
      /\ f.at = at /\ f.task = t /\ f.todo = args[t] /\ f.vals = <<>>
  BY DEF Resolving, Frame
<1>4. Partial(t, args[t], <<>>)
  <2>1. PICK n \in Nat : n = Len(args[t]) BY <1>2
  <2>2. 0 + n = n /\ \A i \in 1 .. n : 0 + i = i OBVIOUS
  <2>3. Len(<<>>) = 0 /\ IsSequence(<<>>) BY NoElement
  <2>4. \A i \in 1 .. 0 : FALSE OBVIOUS
  <2>5. QED BY <2>1, <2>2, <2>3, <2>4 DEF Partial
<1> HIDE DEF f
<1>5. QED BY <1>1, <1>2, <1>3, <1>4 DEF FrameOK, f, Inner, Replying

LEMMA PollTaskInv ==
    ASSUME ClusterInv, NEW h, OnPollTask(h)
    PROVE  ClusterInv'
<1> DEFINE m == Head(inbox[h])
<1>1. PICK f : f = Resolving("resolveReply", Head(ready)) OBVIOUS
<1>2. Receiving(h, "poll_task") /\ Enter(h, <<f>>) /\ Sched!PopReady BY <1>1 DEF OnPollTask
<1>3. /\ h \in Conn /\ h \in Handler /\ TaskInv /\ ValueInv /\ StackInv /\ stack[h] = <<>>
      /\ m.cmd = "poll_task" /\ \E c \in ThreadsOf(h) : RequestOK(h, c, m)
      /\ Asking' = Asking
  BY <1>2, ReceivingFacts DEF ClusterInv
<1>4. UNCHANGED <<store, submitted, args, outbox, clientVars, poolVars>>
  BY DEF OnPollTask, osVars, tableVars
<1>5. Grows BY <1>4, GrowsSame
<1>6. SchedInv' /\ UNCHANGED <<pending, unresolved>> /\ ArgsStored(Head(ready))
  BY <1>2, <1>5, PopSched
<1>7. f.at = "resolveReply" BY <1>1 DEF Resolving, Frame
<1>8. FrameOK(f) BY <1>1, <1>3, <1>6, ResolvingFrame
<1>9. FrameOK(f)' BY <1>3, <1>5, <1>8, StaysFrame
<1>10. Serves(f, m) BY <1>3, <1>7 DEF Serves, RequestOK
<1>11. /\ StackInv' /\ stack'[h] # <<>> /\ stack' = [stack EXCEPT ![h] = stack'[h]]
       /\ Last(stack'[h]) = f
  BY <1>2, <1>3, <1>5, <1>7, <1>9, EnterOne DEF Enter, StackInv, Replying
<1>12. WireInv' BY <1>2, <1>4, <1>5, <1>10, <1>11, ServeWire
<1>13. ValueInv' BY <1>3, <1>4, <1>5, StaysValues
<1>14. QED BY <1>3, <1>4, <1>5, <1>6, <1>11, <1>12, <1>13, NoElement, HandlerMoves

\* A frame that does not announce anything.
LEMMA Silent ==
    ASSUME NEW f, f.at \notin {"recheck", "finished", "announce"}, NEW t, NEW o
    PROVE  ~ Announces(f, t, o)
BY DEF Announces

LEMMA FlushNextInv ==
    ASSUME ClusterInv, NEW h \in Handler, FlushNext(h)
    PROVE  ClusterInv'
<1>1. PICK f : f = Resolving("resolveLocal", Head(ready)) OBVIOUS
<1>2. /\ At(h, "flush") /\ Sched!PopReady /\ HasLocal
      /\ stack' = [stack EXCEPT ![h] = <<f>> \o @]
  BY <1>1 DEF FlushNext
<1>3. TaskInv /\ ValueInv /\ StackInv /\ WireInv BY DEF ClusterInv
<1>4. UNCHANGED <<store, submitted, args, clientVars, poolVars, connVars>>
  BY DEF FlushNext, restVars, osVars, tableVars
<1>5. Grows BY <1>4, GrowsSame
<1>6. SchedInv' /\ UNCHANGED <<pending, unresolved>> /\ ArgsStored(Head(ready))
  BY <1>2, <1>5, PopSched
<1>7. f.at = "resolveLocal" BY <1>1 DEF Resolving, Frame
<1>8. FrameOK(f) BY <1>1, <1>2, <1>3, <1>6, ResolvingFrame
<1>9. FrameOK(f)' BY <1>3, <1>5, <1>8, StaysFrame
<1>10. /\ StackInv' /\ Len(stack'[h]) = Len(stack[h]) + 1
       /\ \A i \in 1 .. Len(stack[h]) : stack'[h][i + 1] = stack[h][i]
       /\ h \in Conn => Kept(h)
  BY <1>2, <1>3, <1>5, <1>7, <1>9, PushStack
<1>11. /\ stack' = [stack EXCEPT ![h] = stack'[h]] BY <1>2, <1>3 DEF StackInv
<1>12. \A i \in DOMAIN stack[h] : \E j \in DOMAIN stack'[h] : stack'[h][j] = stack[h][i]
  <2>1. DOMAIN stack[h] = 1 .. Len(stack[h]) /\ Len(stack[h]) \in Nat
    BY <1>2, <1>3, AtFrame, TopFrame
  <2>2. DOMAIN stack'[h] = 1 .. Len(stack[h]) + 1
    BY <1>3, <1>10, SequenceOver DEF StackInv, StackOK, IsSequence
  <2>3. PICK n \in Nat : n = Len(stack[h]) BY <2>1
  <2>4. \A i \in 1 .. n : i + 1 \in 1 .. n + 1 OBVIOUS
  <2>5. QED BY <1>10, <2>1, <2>2, <2>3, <2>4
<1>13. WireInv'
  <2>1. \A j \in Conn \ {h} : stack'[j] = stack[j] BY <1>3, <1>11 DEF StackInv, Handler
  <2>2. QED BY <1>3, <1>4, <1>5, <1>10, <2>1, NoConn
<1>14. ValueInv' BY <1>3, <1>4, <1>5, StaysValues
<1>15. Asking' = Asking BY <1>4 DEF Asking, Asks, connVars
<1>16. \A t, o : ~ Announces(Top(h), t, o) BY <1>2, Silent DEF At
<1>17. QED
  BY <1>4, <1>5, <1>6, <1>10, <1>11, <1>12, <1>13, <1>14, <1>15, <1>16, HandlerMoves
-----------------------------------------------------------------------------
(***************************************************************************)
(* The call on top goes on, or returns to the one below.                   *)
(***************************************************************************)
LEMMA GotoFacts ==
    ASSUME ClusterInv, Grows, NEW h \in Handler, stack[h] # <<>>, UNCHANGED connVars,
           NEW f, Goto(h, f), FrameOK(f)', f.at \in Replying <=> Top(h).at \in Replying,
           Top(h).at \notin Replying \/ (f.at = Top(h).at /\ f.task = Top(h).task)
    PROVE  /\ StackInv' /\ WireInv' /\ Asking' = Asking
           /\ stack' = [stack EXCEPT ![h] = stack'[h]]
           /\ \A i \in DOMAIN stack[h] \ {1} :
                 \E j \in DOMAIN stack'[h] : stack'[h][j] = stack[h][i]
           /\ \A t, o : Announces(f, t, o) => WillAnnounce(h, t, o)'
<1>1. TaskInv /\ StackInv /\ WireInv BY DEF ClusterInv
<1>2. /\ StackInv' /\ stack'[h] # <<>> /\ stack'[h][1] = f
      /\ \A i \in 2 .. Len(stack[h]) : stack'[h][i] = stack[h][i]
      /\ Len(stack'[h]) = Len(stack[h])
      /\ h \in Conn => Kept(h)
  BY <1>1, GotoStack
<1>3. /\ DOMAIN stack[h] = 1 .. Len(stack[h]) /\ Len(stack[h]) \in Nat /\ Len(stack[h]) >= 1
      /\ DOMAIN stack'[h] = 1 .. Len(stack[h])
  BY <1>1, <1>2, TopFrame, SequenceOver DEF StackInv, StackOK, IsSequence
<1>4. \A i \in DOMAIN stack[h] \ {1} : i \in 2 .. Len(stack[h]) BY <1>3, Positions
<1>5. stack' = [stack EXCEPT ![h] = stack'[h]] BY <1>1 DEF Goto, StackInv
<1>6. WireInv'
  <2>1. \A j \in Conn \ {h} : stack'[j] = stack[j] BY <1>1, <1>5 DEF StackInv, Handler
  <2>2. QED BY <1>1, <1>2, <2>1, NoConn
<1>7. Asking' = Asking BY DEF Asking, Asks, connVars
<1>8. 1 \in DOMAIN stack'[h] BY <1>3, Positions
<1>9. \A t, o : Announces(f, t, o) => WillAnnounce(h, t, o)' BY <1>2, <1>8, AnnouncerAt
<1>10. QED BY <1>2, <1>3, <1>4, <1>5, <1>6, <1>7, <1>9

LEMMA ReturnFacts ==
    ASSUME ClusterInv, Grows, NEW h \in Handler, stack[h] # <<>>, Return(h)
    PROVE  /\ StackInv' /\ stack' = [stack EXCEPT ![h] = stack'[h]]
           /\ \A i \in DOMAIN stack[h] \ {1} :
                 \E j \in DOMAIN stack'[h] : stack'[h][j] = stack[h][i]
           /\ UNCHANGED connVars /\ Top(h).at \notin Replying =>
                 WireInv' /\ Asking' = Asking
<1>1. TaskInv /\ StackInv /\ WireInv BY DEF ClusterInv
<1>2. /\ StackInv'
      /\ \A i \in 1 .. Len(stack[h]) - 1 : stack'[h][i] = stack[h][i + 1]
      /\ Len(stack'[h]) = Len(stack[h]) - 1
      /\ Top(h).at \notin Replying /\ h \in Conn => Kept(h)
  BY <1>1, ReturnStack
<1>3. /\ DOMAIN stack[h] = 1 .. Len(stack[h]) /\ Len(stack[h]) \in Nat
      /\ DOMAIN stack'[h] = 1 .. Len(stack[h]) - 1
  BY <1>1, <1>2, TopFrame, SequenceOver DEF StackInv, StackOK, IsSequence
<1>4. ASSUME NEW i \in DOMAIN stack[h] \ {1}
      PROVE  \E j \in DOMAIN stack'[h] : stack'[h][j] = stack[h][i]
  <2>1. i - 1 \in 1 .. Len(stack[h]) - 1 /\ (i - 1) + 1 = i BY <1>3, Positions
  <2>2. QED BY <1>2, <1>3, <2>1
<1>5. stack' = [stack EXCEPT ![h] = stack'[h]] BY <1>1 DEF Return, StackInv
<1>6. ASSUME UNCHANGED connVars, Top(h).at \notin Replying PROVE WireInv' /\ Asking' = Asking
  <2>1. \A j \in Conn \ {h} : stack'[j] = stack[j] BY <1>1, <1>5 DEF StackInv, Handler
  <2>2. WireInv' BY <1>1, <1>2, <1>6, <2>1, NoConn
  <2>3. QED BY <1>6, <2>2 DEF Asking, Asks, connVars
<1>7. QED BY <1>2, <1>4, <1>5, <1>6

LEMMA FlushDoneInv ==
    ASSUME ClusterInv, NEW h \in Handler, FlushDone(h)
    PROVE  ClusterInv'
<1>1. /\ At(h, "flush") /\ Return(h) /\ UNCHANGED connVars
      /\ UNCHANGED <<store, submitted, args>> /\ UNCHANGED schedVars
      /\ UNCHANGED clientVars /\ UNCHANGED poolVars
  BY DEF FlushDone, restVars, osVars, tableVars
<1>2. Grows BY <1>1, GrowsSame
<1>3. stack[h] # <<>> /\ Top(h).at = "flush" BY <1>1 DEF At
<1>4. /\ StackInv' /\ WireInv' /\ Asking' = Asking
      /\ stack' = [stack EXCEPT ![h] = stack'[h]]
      /\ \A i \in DOMAIN stack[h] \ {1} :
            \E j \in DOMAIN stack'[h] : stack'[h][j] = stack[h][i]
  BY <1>1, <1>2, <1>3, ReturnFacts DEF Replying
<1>5. \A t, o : ~ Announces(Top(h), t, o) BY <1>3, Silent
<1>6. QED BY <1>1, <1>2, <1>4, <1>5, HandlerStep

LEMMA FailedInv ==
    ASSUME ClusterInv, NEW h \in Handler, Failed(h)
    PROVE  ClusterInv'
<1>1. /\ At(h, "failed") /\ Return(h) /\ UNCHANGED connVars
      /\ UNCHANGED <<store, submitted, args>> /\ UNCHANGED schedVars
      /\ UNCHANGED clientVars /\ UNCHANGED poolVars
  BY DEF Failed, osVars, Table!Record
<1>2. Grows BY <1>1, GrowsSame
<1>3. stack[h] # <<>> /\ Top(h).at = "failed" BY <1>1 DEF At
<1>4. /\ StackInv' /\ WireInv' /\ Asking' = Asking
      /\ stack' = [stack EXCEPT ![h] = stack'[h]]
      /\ \A i \in DOMAIN stack[h] \ {1} :
            \E j \in DOMAIN stack'[h] : stack'[h][j] = stack[h][i]
  BY <1>1, <1>2, <1>3, ReturnFacts DEF Replying
<1>5. \A t, o : ~ Announces(Top(h), t, o) BY <1>3, Silent
<1>6. QED BY <1>1, <1>2, <1>4, <1>5, HandlerStep

\* When nothing is left to resolve, the task can be called.
LEMMA ResolvedAll ==
    ASSUME TaskInv, NEW t, NEW vals, Partial(t, <<>>, vals)
    PROVE  Called(t, vals)
<1>1. ArgsStored(t) /\ t \in submitted /\ IsSequence(vals) BY DEF Partial, ArgsStored
<1>2. /\ Len(args[t]) \in Nat /\ DOMAIN args[t] = 1 .. Len(args[t])
  BY <1>1, Arguments
<1>3. Len(vals) \in Nat /\ DOMAIN vals = 1 .. Len(vals) /\ vals = [i \in DOMAIN vals |-> vals[i]]
  BY <1>1, LenProperties DEF IsSequence
<1>4. Len(vals) = Len(args[t])
  <2>1. Len(vals) + 0 = Len(args[t]) BY NoElement DEF Partial
  <2>2. PICK m \in Nat : m = Len(vals) BY <1>3
  <2>3. m + 0 = m OBVIOUS
  <2>4. QED BY <2>1, <2>2, <2>3
<1>5. \A i \in DOMAIN vals : vals[i] = store[args[t][i]] BY <1>3 DEF Partial
<1>6. vals = [i \in DOMAIN args[t] |-> store[args[t][i]]] BY <1>2, <1>3, <1>4, <1>5
<1>7. QED BY <1>1, <1>6 DEF Called, ArgValues

LEMMA QueueLocalInv ==
    ASSUME ClusterInv, NEW h \in Handler, QueueLocal(h)
    PROVE  ClusterInv'
<1> DEFINE e == <<Top(h).task, Top(h).vals>>
<1>1. /\ At(h, "resolveLocal") /\ Top(h).todo = <<>> /\ Return(h) /\ UNCHANGED connVars
      /\ UNCHANGED <<store, submitted, args, executing, results>> /\ UNCHANGED schedVars
      /\ UNCHANGED clientVars
      /\ taskQueue' = [taskQueue EXCEPT ![Local] = Append(@, e)]
  BY DEF QueueLocal, osVars, tableVars
<1>2. Grows BY <1>1, GrowsSame
<1>3. TaskInv /\ StackInv /\ ValueInv /\ SchedInv BY DEF ClusterInv
<1>4. stack[h] # <<>> /\ FrameOK(Top(h)) /\ Top(h).at = "resolveLocal"
  BY <1>1, <1>3, AtFrame
<1>5. /\ StackInv' /\ WireInv' /\ Asking' = Asking
      /\ stack' = [stack EXCEPT ![h] = stack'[h]]
      /\ \A i \in DOMAIN stack[h] \ {1} :
            \E j \in DOMAIN stack'[h] : stack'[h][j] = stack[h][i]
  BY <1>1, <1>2, <1>4, ReturnFacts DEF Replying
<1>6. \A t, o : ~ Announces(Top(h), t, o) BY <1>4, Silent
<1>7. Called(e[1], e[2]) /\ Local \in Pool
  <2>1. Partial(Top(h).task, <<>>, Top(h).vals) /\ HasLocal BY <1>1, <1>4 DEF FrameOK
  <2>2. QED BY <1>3, <2>1, ResolvedAll DEF Pool
<1> HIDE DEF e
<1>8. /\ taskQueue' = [taskQueue EXCEPT ![Local] = taskQueue'[Local]]
      /\ taskQueue'[Local] = Append(taskQueue[Local], e)
      /\ executing' = [executing EXCEPT ![Local] = executing'[Local]]
      /\ results' = [results EXCEPT ![Local] = results'[Local]] /\ PoolOK(Local)
  BY <1>1, <1>3, <1>7 DEF ValueInv
<1>9. IsSequence(taskQueue'[Local]) /\ ToSet(taskQueue'[Local]) = ToSet(taskQueue[Local]) \cup {e}
  BY <1>8, AppendSequence DEF PoolOK
<1>10. \A d \in ToSet(taskQueue'[Local]) \cup executing'[Local] : Called(d[1], d[2])'
  <2>1. \A d \in ToSet(taskQueue'[Local]) \cup executing'[Local] : Called(d[1], d[2])
    BY <1>1, <1>7, <1>8, <1>9 DEF PoolOK
  <2>2. QED BY <1>2, <1>3, <2>1, StaysCalled
<1>11. \A r \in ToSet(results'[Local]) : Computed(r[1], r[2])'
  BY <1>1, <1>2, <1>3, <1>8, StaysCalled DEF PoolOK
<1>12. PoolOK(Local)' BY <1>1, <1>8, <1>9, <1>10, <1>11 DEF PoolOK
<1>13. ValueInv' BY <1>1, <1>2, <1>3, <1>8, <1>12, OnePool
<1>14. SchedInv' BY <1>1, <1>2, <1>3, StaysSched
<1>15. QED BY <1>1, <1>2, <1>5, <1>6, <1>13, <1>14, HandlerMoves DEF schedVars

\* The wait for an object, and the end of it, are the store's own.
LEMMA WaitingInv ==
    ASSUME ClusterInv, UNCHANGED <<store, stack, submitted, args>>, UNCHANGED schedVars,
           UNCHANGED connVars, UNCHANGED clientVars, UNCHANGED poolVars
    PROVE  ClusterInv'
<1>1. /\ TaskInv /\ ValueInv /\ StackInv /\ WireInv /\ SchedInv /\ NoMissedTrigger /\ Grows
  BY GrowsSame DEF ClusterInv
<1>2. WireInv' BY <1>1, NoConn
<1>3. Asking' = Asking BY DEF Asking, Asks, connVars
<1>4. TaskInv' /\ ValueInv' BY <1>1, <1>3, StaysTasks, StaysValues
<1>5. StackInv' /\ SchedInv' BY <1>1, StillStacks, StaysSched
<1>6. NoMissedTrigger' BY <1>1, StillTriggers DEF schedVars
<1>7. QED BY <1>2, <1>4, <1>5, <1>6 DEF ClusterInv

LEMMA BlockInv ==
    ASSUME ClusterInv, NEW h \in Handler, SetEvent(h) \/ Block(h)
    PROVE  ClusterInv'
<1>1. CASE SetEvent(h)
  BY <1>1, WaitingInv DEF SetEvent, Store!PutSignal, tableVars
<1>2. CASE Block(h)
  BY <1>2, WaitingInv DEF Block, Store!StartWait, restVars, tableVars
<1>3. QED BY <1>1, <1>2

\* The object was there, or is when the wait is over.
LEMMA GotFacts ==
    ASSUME NEW h, NEW o, Got(h, o)
    PROVE  Store!contains(o) /\ UNCHANGED store
BY DEF Got, Store!EndWait, Store!LeaveWait, osVars

LEMMA ResolvedFrame ==
    ASSUME TaskInv, NEW f, FrameOK(f), f.at \in {"resolveReply", "resolveLocal"},
           f.todo # <<>>, NEW v, v = store[Head(f.todo)]
    PROVE  /\ FrameOK(Resolved(f, v))
           /\ Resolved(f, v).at = f.at /\ Resolved(f, v).task = f.task
<1> DEFINE g == Resolved(f, v)
           t == f.task
           s == f.todo
           a == f.vals
<1>1. /\ f = [at |-> f.at, task |-> t, todo |-> s, vals |-> a]
      /\ t \in submitted /\ s \in Seq(submitted) /\ Partial(t, s, a)
      /\ f.at = "resolveLocal" => HasLocal
  BY DEF FrameOK
<1>2. /\ g = [at |-> f.at, task |-> t, todo |-> Tail(s), vals |-> Append(a, v)]
      /\ g.at = f.at /\ g.task = t /\ g.todo = Tail(s) /\ g.vals = Append(a, v)
  <2>1. PICK x, y : x = Tail(s) /\ y = Append(a, v) OBVIOUS
  <2>2. PICK e : e = [f EXCEPT !.todo = x] OBVIOUS
  <2>3. e = [at |-> f.at, task |-> t, todo |-> x, vals |-> a] BY <1>1, <2>2
  <2>4. g = [e EXCEPT !.vals = y] BY <2>1, <2>2 DEF Resolved
  <2>5. QED BY <2>1, <2>3, <2>4
<1>3. /\ IsSequence(a) /\ Len(a) \in Nat /\ IsSequence(s) /\ Len(s) \in Nat
      /\ Len(args[t]) \in Nat /\ Len(a) + Len(s) = Len(args[t])
  BY <1>1, Arguments, SequenceOver DEF Partial, IsSequence
<1>4. Tail(s) \in Seq(submitted) BY <1>1, SplitElements
<1>5. /\ Len(s) >= 1 /\ Len(Tail(s)) = Len(s) - 1 /\ Head(s) = s[1]
      /\ \A i \in 1 .. Len(s) - 1 : Tail(s)[i] = s[i + 1]
  BY <1>3, TailSequence
<1>6. /\ IsSequence(Append(a, v)) /\ Len(Append(a, v)) = Len(a) + 1
      /\ Append(a, v)[Len(a) + 1] = v
      /\ \A i \in 1 .. Len(a) : Append(a, v)[i] = a[i]
  BY <1>3, AppendSequence
<1>7. PICK m \in Nat, n \in Nat, l \in Nat : m = Len(a) /\ n = Len(s) /\ l = Len(args[t])
  BY <1>3
<1>8. m + n = l /\ n >= 1 /\ 1 \in 1 .. n
  <2>1. m + n = l BY <1>3, <1>7, Zenon
  <2>2. n >= 1 BY <1>5, <1>7, Zenon
  <2>3. QED BY <2>1, <2>2
<1>9. v = store[args[t][m + 1]]
  <2>1. s[1] = args[t][m + 1] BY <1>1, <1>7, <1>8 DEF Partial
  <2>2. QED BY <1>5, <2>1
<1>10. Partial(t, Tail(s), Append(a, v))
  <2>1. Len(Append(a, v)) + Len(Tail(s)) = Len(args[t])
    <3>1. Len(Append(a, v)) = m + 1 /\ Len(Tail(s)) = n - 1 BY <1>5, <1>6, <1>7
    <3>2. (m + 1) + (n - 1) = l BY <1>8, TwoParts
    <3>3. QED BY <1>7, <3>1, <3>2
  <2>2. ASSUME NEW i \in 1 .. m + 1 PROVE Append(a, v)[i] = store[args[t][i]]
    <3>1. CASE i = m + 1 BY <1>6, <1>7, <1>9, <3>1
    <3>2. CASE i \in 1 .. m
      <4>1. a[i] = store[args[t][i]] BY <1>1, <1>7, <3>2 DEF Partial
      <4>2. QED BY <1>6, <1>7, <3>2, <4>1
    <3>3. i = m + 1 \/ i \in 1 .. m OBVIOUS
    <3>4. QED BY <3>1, <3>2, <3>3
  <2>3. ASSUME NEW i \in 1 .. n - 1 PROVE Tail(s)[i] = args[t][(m + 1) + i]
    <3>1. i + 1 \in 1 .. n /\ (m + 1) + i = m + (i + 1) BY <1>8, TwoParts
    <3>2. s[i + 1] = args[t][m + (i + 1)] BY <1>1, <1>7, <3>1 DEF Partial
    <3>3. QED BY <1>5, <1>7, <3>1, <3>2
  <2>4. Len(Append(a, v)) = m + 1 /\ Len(Tail(s)) = n - 1 BY <1>5, <1>6, <1>7
  <2>5. ArgsStored(t) BY <1>1 DEF Partial
  <2> HIDE DEF s, a, t
  <2>6. QED BY <1>6, <2>1, <2>2, <2>3, <2>4, <2>5 DEF Partial
<1> HIDE DEF g
<1>11. FrameOK(g)
  BY <1>1, <1>2, <1>4, <1>10 DEF FrameOK, Inner, Replying
<1>12. QED BY <1>2, <1>11 DEF g

LEMMA ResolveArgInv ==
    ASSUME ClusterInv, NEW h \in Handler, ResolveArg(h)
    PROVE  ClusterInv'
<1>1. PICK f : f = Resolved(Top(h), store[NextArg(h)]) OBVIOUS
<1>2. /\ Resolves(h) /\ Top(h).todo # <<>> /\ Got(h, NextArg(h)) /\ Goto(h, f)
      /\ UNCHANGED connVars /\ UNCHANGED <<submitted, args>> /\ UNCHANGED schedVars
      /\ UNCHANGED clientVars /\ UNCHANGED poolVars
  BY <1>1 DEF ResolveArg, restVars, tableVars
<1>3. UNCHANGED store BY <1>2, GotFacts
<1>4. Grows BY <1>2, <1>3, GrowsSame
<1>5. TaskInv /\ StackInv BY DEF ClusterInv
<1>6. /\ stack[h] # <<>> /\ FrameOK(Top(h))
      /\ Top(h).at \in {"resolveReply", "resolveLocal"}
  BY <1>2, <1>5, AtFrame DEF Resolves
<1>7. FrameOK(f) /\ f.at = Top(h).at /\ f.task = Top(h).task
  BY <1>1, <1>2, <1>5, <1>6, ResolvedFrame DEF NextArg
<1>8. FrameOK(f)' BY <1>4, <1>5, <1>7, StaysFrame
<1>9. /\ StackInv' /\ WireInv' /\ Asking' = Asking
      /\ stack' = [stack EXCEPT ![h] = stack'[h]]
      /\ \A i \in DOMAIN stack[h] \ {1} :
            \E j \in DOMAIN stack'[h] : stack'[h][j] = stack[h][i]
  BY <1>2, <1>4, <1>6, <1>7, <1>8, GotoFacts
<1>10. \A t, o : ~ Announces(Top(h), t, o) BY <1>6, Silent
<1>11. QED BY <1>2, <1>3, <1>4, <1>9, <1>10, HandlerStep

\* A call that ends with its reply.
LEMMA ReplyingInv ==
    ASSUME ClusterInv, NEW h \in Handler, stack[h] # <<>>, Top(h).at \in Replying,
           NEW msg, SendReply(h, msg), UNCHANGED store, ReplyOK(msg),
           \A m : m.cmd \in {"submit_task", "get_object", "contains_object", "poll_task",
                             "task_result"} /\ Serves(Top(h), m) => Answers(m, msg)
    PROVE  ClusterInv'
<1>1. /\ Answer(h, msg) /\ Return(h) /\ UNCHANGED <<wants, sent, inbox, up>>
      /\ UNCHANGED <<submitted, args>> /\ UNCHANGED schedVars
      /\ UNCHANGED clientVars /\ UNCHANGED poolVars
  BY DEF SendReply, tableVars
<1>2. Grows /\ TaskInv BY <1>1, GrowsSame DEF ClusterInv
<1>3. WireInv' BY <1>1, <1>2, StaysReply, ReplyWire
<1>4. /\ StackInv' /\ stack' = [stack EXCEPT ![h] = stack'[h]]
      /\ \A i \in DOMAIN stack[h] \ {1} :
            \E j \in DOMAIN stack'[h] : stack'[h][j] = stack[h][i]
  BY <1>1, <1>2, ReturnFacts
<1>5. Asking' = Asking BY <1>1 DEF Asking, Asks
<1>6. \A t, o : ~ Announces(Top(h), t, o) BY Silent DEF Replying
<1>7. QED BY <1>1, <1>2, <1>3, <1>4, <1>5, <1>6, HandlerStep

LEMMA ReplyTaskInv ==
    ASSUME ClusterInv, NEW h \in Handler, ReplyTask(h)
    PROVE  ClusterInv'
<1>1. PICK msg : msg = Msg("task", Top(h).task, Top(h).vals) OBVIOUS
<1>2. /\ At(h, "resolveReply") /\ Top(h).todo = <<>> /\ SendReply(h, msg) /\ UNCHANGED store
  BY <1>1 DEF ReplyTask, osVars
<1>3. TaskInv /\ StackInv BY DEF ClusterInv
<1>4. stack[h] # <<>> /\ FrameOK(Top(h)) /\ Top(h).at = "resolveReply"
  BY <1>2, <1>3, AtFrame
<1>5. Called(Top(h).task, Top(h).vals)
  <2>1. Partial(Top(h).task, <<>>, Top(h).vals) BY <1>2, <1>4 DEF FrameOK
  <2>2. QED BY <1>3, <2>1, ResolvedAll
<1>6. ReplyOK(msg) BY <1>1, <1>5 DEF ReplyOK, Msg
<1>7. ASSUME NEW m, m.cmd \in {"submit_task", "get_object", "contains_object", "poll_task",
                               "task_result"}, Serves(Top(h), m)
      PROVE  Answers(m, msg)
  BY <1>1, <1>4, <1>7 DEF Serves, Answers, RepliesTo, Msg
<1>8. QED BY <1>2, <1>4, <1>6, <1>7, ReplyingInv DEF Replying

LEMMA ReplyValueInv ==
    ASSUME ClusterInv, NEW h \in Handler, ReplyValue(h)
    PROVE  ClusterInv'
<1>1. PICK msg : msg = Msg("value", Top(h).task, store[Top(h).task]) OBVIOUS
<1>2. /\ At(h, "get") /\ Got(h, Top(h).task) /\ SendReply(h, msg)
  BY <1>1 DEF ReplyValue
<1>3. TaskInv /\ StackInv BY DEF ClusterInv
<1>4. stack[h] # <<>> /\ FrameOK(Top(h)) /\ Top(h).at = "get" BY <1>2, <1>3, AtFrame
<1>5. Store!contains(Top(h).task) /\ UNCHANGED store BY <1>2, GotFacts
<1>6. ReplyOK(msg) BY <1>1, <1>3, <1>4, <1>5 DEF ReplyOK, Msg, FrameOK, TaskInv
<1>7. ASSUME NEW m, m.cmd \in {"submit_task", "get_object", "contains_object", "poll_task",
                               "task_result"}, Serves(Top(h), m)
      PROVE  Answers(m, msg)
  BY <1>1, <1>4, <1>7 DEF Serves, Answers, RepliesTo, Msg
<1>8. QED BY <1>2, <1>4, <1>5, <1>6, <1>7, ReplyingInv DEF Replying

LEMMA ReplyDoneInv ==
    ASSUME ClusterInv, NEW h \in Handler, ReplyDone(h)
    PROVE  ClusterInv'
<1>1. PICK cmd \in {"object_id", "ack"} :
          At(h, cmd) /\ SendReply(h, Msg(cmd, Top(h).task, Nothing))
  BY DEF ReplyDone
<1>2. PICK msg : msg = Msg(cmd, Top(h).task, Nothing) OBVIOUS
<1>3. UNCHANGED store BY DEF ReplyDone, osVars
<1>4. stack[h] # <<>> /\ FrameOK(Top(h)) /\ Top(h).at = cmd
  BY <1>1, AtFrame DEF ClusterInv
<1>5. ReplyOK(msg) BY <1>2, <1>4 DEF ReplyOK, Msg, FrameOK
<1>6. ASSUME NEW m, m.cmd \in {"submit_task", "get_object", "contains_object", "poll_task",
                               "task_result"}, Serves(Top(h), m)
      PROVE  Answers(m, msg)
  BY <1>2, <1>4, <1>6 DEF Serves, Answers, RepliesTo, Msg
<1>7. QED BY <1>1, <1>2, <1>3, <1>4, <1>5, <1>6, ReplyingInv DEF Replying
-----------------------------------------------------------------------------
(***************************************************************************)
(* An object is announced to the tasks that wait for it.                   *)
(***************************************************************************)
LEMMA SchedSequences ==
    /\ \A s : Sched!ToSet(s) = ToSet(s)
    /\ \A S : Sched!SetToSeqs(S) = SetToSeqs(S)
<1>1. ASSUME NEW s PROVE Sched!ToSet(s) = ToSet(s) BY DEF Sched!ToSet, ToSet
<1>2. ASSUME NEW S PROVE Sched!SetToSeqs(S) = SetToSeqs(S)
  BY DEF Sched!SetToSeqs, SetToSeqs, Sched!Cardinality, Cardinality
<1>3. QED BY <1>1, <1>2

LEMMA AnnounceSched ==
    ASSUME ClusterInv, Grows, NEW o, o \in submitted, Store!contains(o),
           Sched!OnObjectReady(o)
    PROVE  /\ SchedInv' /\ pending' \subseteq pending
           /\ \A t \in pending' : o \notin unresolved'[t] /\ unresolved'[t] \subseteq unresolved[t]
<1>1. TaskInv /\ SchedInv /\ o \in Task /\ submitted \subseteq submitted'
      /\ submitted \subseteq Task
  BY DEF ClusterInv, TaskInv, Grows
<1> DEFINE R == Sched!Released(o)
           W == Sched!Waiters(o)
<1>2. /\ pending' = pending \ R
      /\ unresolved' = [t \in Task |-> IF t \in W THEN unresolved[t] \ {o} ELSE unresolved[t]]
      /\ waitingOn' = [waitingOn EXCEPT ![o] = <<>>]
      /\ \E r \in SetToSeqs(R) : ready' = ready \o r
  BY SchedSequences DEF Sched!OnObjectReady
<1>3. /\ W = ToSet(waitingOn[o]) \cap pending
      /\ R = {t \in W : unresolved[t] \subseteq {o}}
  BY SchedSequences DEF Sched!Waiters, Sched!Released
<1> HIDE DEF R, W
<1>4. pending \subseteq submitted /\ R \subseteq pending BY <1>1, <1>3 DEF SchedInv
<1>5. PICK r \in SetToSeqs(R) : ready' = ready \o r BY <1>2
<1>6. r \in Seq(R) /\ ToSet(r) = R
  <2>1. IsFiniteSet(submitted)
    <3>1. PICK n \in Nat : submitted = 1 .. n BY <1>1 DEF TaskInv
    <3>2. QED BY <3>1, FS_Interval
  <2>2. IsFiniteSet(R) BY <1>4, <2>1, FS_Subset
  <2>3. QED BY <2>2, ArrangementElements
<1>7. r \in Seq(submitted) BY <1>4, <1>6, SequenceOver, SequenceIn
<1>8. ready' \in Seq(submitted) /\ ToSet(ready') = ToSet(ready) \cup R
  BY <1>1, <1>5, <1>6, <1>7, ConcatElements, ConcatProperties DEF SchedInv
<1>9. ASSUME NEW t \in R PROVE ArgsStored(t)
  <2>1. t \in pending /\ t \in submitted /\ unresolved[t] \subseteq {o} BY <1>3, <1>4
  <2>2. QED BY <1>1, <2>1 DEF SchedInv, ArgsStored
<1>10. \A t \in ToSet(ready') : ArgsStored(t)'
  BY <1>1, <1>8, <1>9, StaysArguments DEF SchedInv
<1>11. ASSUME NEW t \in pending'
       PROVE  /\ t \in pending /\ t \in Task
              /\ unresolved'[t] = unresolved[t] \ {o}
  <2>1. t \in pending /\ t \in Task BY <1>1, <1>2, <1>4
  <2>2. CASE t \in W BY <1>2, <2>1, <2>2
  <2>3. CASE t \notin W
    <3>1. o \notin unresolved[t] BY <1>1, <1>3, <2>1, <2>3 DEF SchedInv
    <3>2. QED BY <1>2, <2>1, <2>3, <3>1
  <2>4. QED BY <2>1, <2>2, <2>3
<1>12. ASSUME NEW t \in pending'
       PROVE  \A d \in ToSet(args'[t]) : Store!contains(d)' \/ d \in unresolved'[t]
  <2>1. t \in submitted /\ args'[t] = args[t] BY <1>1, <1>4, <1>11 DEF Grows
  <2>2. \A d \in ToSet(args[t]) : d \in Task /\ (Store!contains(d) \/ d \in unresolved[t])
    BY <1>1, <1>11, <2>1, Arguments DEF SchedInv
  <2>3. ASSUME NEW d \in ToSet(args[t]) PROVE Store!contains(d)' \/ d \in unresolved'[t]
    <3>1. CASE d = o \/ Store!contains(d) BY <1>1, <2>2, <3>1, StaysStored
    <3>2. CASE d # o /\ ~ Store!contains(d) BY <1>11, <2>2, <3>2
    <3>3. QED BY <3>1, <3>2
  <2>4. QED BY <2>1, <2>3
<1>13. ASSUME NEW t \in pending', NEW p \in unresolved'[t]
       PROVE  p \in submitted' /\ t \in ToSet(waitingOn'[p])
  <2>1. p \in unresolved[t] /\ p # o /\ t \in pending BY <1>11
  <2>2. p \in submitted /\ t \in ToSet(waitingOn[p]) BY <1>1, <2>1 DEF SchedInv
  <2>3. waitingOn'[p] = waitingOn[p] BY <1>1, <1>2, <2>1, <2>2 DEF SchedInv
  <2>4. QED BY <1>1, <2>2, <2>3
<1>14. waitingOn' \in [Task -> Seq(submitted')] /\ ready' \in Seq(submitted')
  <2>1. \A s \in Seq(submitted) : s \in Seq(submitted') BY <1>1, SequenceOver, SequenceIn
  <2>2. <<>> \in Seq(submitted') BY EmptySeq
  <2>3. waitingOn \in [Task -> Seq(submitted')] BY <1>1, <2>1 DEF SchedInv
  <2>4. QED BY <1>1, <1>2, <1>8, <2>1, <2>2, <2>3
<1>15. SchedInv'
  <2>1. unresolved' = [t \in Task |-> unresolved'[t]] BY <1>2
  <2>2. pending' \subseteq submitted' BY <1>1, <1>2, <1>4
  <2>3. QED BY <1>10, <1>12, <1>13, <1>14, <2>1, <2>2 DEF SchedInv
<1>16. QED BY <1>2, <1>11, <1>15

\* The thread that announces o has nothing else to announce that it forgets.
LEMMA AnnounceTriggers ==
    ASSUME StackInv, NoMissedTrigger, NEW h \in Handler, UNCHANGED store, NEW o,
           pending' \subseteq pending,
           \A t \in pending' : o \notin unresolved'[t] /\ unresolved'[t] \subseteq unresolved[t],
           stack' = [stack EXCEPT ![h] = stack'[h]],
           \A i \in DOMAIN stack[h] \ {1} :
               \E j \in DOMAIN stack'[h] : stack'[h][j] = stack[h][i],
           \A t, p : Announces(Top(h), t, p) /\ p # o => WillAnnounce(h, t, p)'
    PROVE  NoMissedTrigger'
<1>1. ASSUME NEW t \in pending', NEW p \in Task \ Fails,
             p \in unresolved'[t], Store!contains(p)
      PROVE  \E g \in Handler : WillAnnounce(g, t, p)'
  <2>1. t \in pending /\ p \in unresolved[t] /\ p # o BY <1>1
  <2>2. PICK g \in Handler : WillAnnounce(g, t, p) BY <1>1, <2>1 DEF NoMissedTrigger
  <2>3. WillAnnounce(g, t, p)' \/ (g = h /\ stack[h] # <<>> /\ Announces(Top(h), t, p))
    BY <2>2, AnnouncersStay
  <2>4. QED BY <2>1, <2>2, <2>3
<1>2. QED BY <1>1 DEF NoMissedTrigger, Store!contains

\* The frame of a submit that has todo left to look at.
LEMMA SubmittingFrame ==
    ASSUME NEW t \in submitted, NEW todo \in Seq(submitted)
    PROVE  /\ FrameOK(Submitting(t, todo))
           /\ Submitting(t, todo).at \in {"flush", "recheck"}
           /\ \A s, o : o \in ToSet(todo) /\ t \in {s, o} => Announces(Submitting(t, todo), s, o)
<1> DEFINE f == Submitting(t, todo)
<1>1. /\ f = [at |-> f.at, task |-> f.task, todo |-> f.todo, vals |-> f.vals]
      /\ f.task = t /\ f.todo = todo /\ f.at = IF todo = <<>> THEN "flush" ELSE "recheck"
  BY DEF Submitting, Frame
<1> HIDE DEF f
<1>2. ToSet(<<>>) = {} BY NoElement
<1>3. FrameOK(f) BY <1>1 DEF FrameOK, Inner, Replying
<1>4. \A s, o : o \in ToSet(todo) /\ t \in {s, o} => Announces(f, s, o)
  BY <1>1, <1>2 DEF Announces
<1>5. QED BY <1>1, <1>3, <1>4 DEF f

LEMMA RecheckInv ==
    ASSUME ClusterInv, NEW h \in Handler, Recheck(h)
    PROVE  ClusterInv'
<1> DEFINE o == NextArg(h)
           todo == Top(h).todo
<1>1. /\ At(h, "recheck") /\ UNCHANGED connVars
      /\ UNCHANGED <<store, submitted, args>> /\ UNCHANGED schedVars
      /\ UNCHANGED clientVars /\ UNCHANGED poolVars
  BY DEF Recheck, restVars, tableVars, osVars
<1>2. Grows /\ TaskInv /\ StackInv BY <1>1, GrowsSame DEF ClusterInv
<1>3. stack[h] # <<>> /\ FrameOK(Top(h)) /\ Top(h).at = "recheck" BY <1>1, <1>2, AtFrame
<1>4. /\ Top(h).task \in submitted /\ todo \in Seq(submitted) /\ todo # <<>>
      /\ Top(h) = [at |-> "recheck", task |-> Top(h).task, todo |-> todo, vals |-> Top(h).vals]
  BY <1>3 DEF FrameOK
<1>5. Tail(todo) \in Seq(submitted) /\ ToSet(todo) = {o} \cup ToSet(Tail(todo))
  BY <1>4, SplitElements DEF NextArg
<1>6. PICK f : /\ f = IF Store!contains(o) THEN [Top(h) EXCEPT !.at = "announce"]
                      ELSE Submitting(Top(h).task, Tail(todo))
               /\ Goto(h, f)
  BY DEF Recheck
<1>7. /\ FrameOK(f) /\ f.at \notin Replying
      /\ \A t, p : Announces(Top(h), t, p) /\ Store!contains(p) => Announces(f, t, p)
  <2>1. CASE Store!contains(o)
    <3>1. /\ f = [at |-> "announce", task |-> Top(h).task, todo |-> todo, vals |-> Top(h).vals]
          /\ f.at = "announce" /\ f.task = Top(h).task /\ f.todo = todo
      BY <1>4, <1>6, <2>1
    <3>2. FrameOK(f) BY <1>4, <2>1, <3>1 DEF FrameOK, NextArg, Inner, Replying
    <3>3. QED BY <3>1, <3>2 DEF Announces, Replying
  <2>2. CASE ~ Store!contains(o)
    <3>1. f = Submitting(Top(h).task, Tail(todo)) BY <1>6, <2>2
    <3>2. /\ FrameOK(f) /\ f.at \in {"flush", "recheck"}
          /\ \A s, p : p \in ToSet(Tail(todo)) /\ Top(h).task \in {s, p} => Announces(f, s, p)
      BY <1>4, <1>5, <3>1, SubmittingFrame
    <3>3. ASSUME NEW t, NEW p, Announces(Top(h), t, p), Store!contains(p)
          PROVE  Announces(f, t, p)
      <4>1. p \in ToSet(todo) /\ p # o /\ Top(h).task \in {t, p} BY <2>2, <3>3 DEF Announces
      <4>2. QED BY <1>5, <3>2, <4>1
    <3>4. QED BY <3>2, <3>3 DEF Replying
  <2>3. QED BY <2>1, <2>2
<1>8. FrameOK(f)' BY <1>2, <1>7, StaysFrame
<1>9. /\ StackInv' /\ WireInv' /\ Asking' = Asking
      /\ stack' = [stack EXCEPT ![h] = stack'[h]]
      /\ \A i \in DOMAIN stack[h] \ {1} :
            \E j \in DOMAIN stack'[h] : stack'[h][j] = stack[h][i]
      /\ \A t, p : Announces(f, t, p) => WillAnnounce(h, t, p)'
  BY <1>1, <1>2, <1>3, <1>6, <1>7, <1>8, GotoFacts DEF Replying
<1>10. \A t, p : Announces(Top(h), t, p) /\ Store!contains(p) => WillAnnounce(h, t, p)'
  BY <1>7, <1>9
<1>11. QED BY <1>1, <1>2, <1>9, <1>10, HandlerStep

\* The calls that announce o, and go on.
LEMMA AnnouncingInv ==
    ASSUME ClusterInv, NEW h \in Handler, stack[h] # <<>>, Top(h).at \in {"announce", "finished"},
           NEW o, o \in submitted, Store!contains(o), Sched!OnObjectReady(o),
           NEW f, Goto(h, f), FrameOK(f), f.at \notin Replying,
           \A t, p : Announces(Top(h), t, p) /\ p # o => Announces(f, t, p),
           UNCHANGED <<store, submitted, args>>, UNCHANGED connVars, UNCHANGED clientVars,
           UNCHANGED poolVars
    PROVE  ClusterInv'
<1>1. /\ Grows /\ TaskInv /\ StackInv /\ ValueInv /\ NoMissedTrigger
  BY GrowsSame DEF ClusterInv
<1>2. /\ SchedInv' /\ pending' \subseteq pending
      /\ \A t \in pending' : o \notin unresolved'[t] /\ unresolved'[t] \subseteq unresolved[t]
  BY <1>1, AnnounceSched
<1>3. FrameOK(f)' BY <1>1, StaysFrame
<1>4. /\ StackInv' /\ WireInv' /\ Asking' = Asking
      /\ stack' = [stack EXCEPT ![h] = stack'[h]]
      /\ \A i \in DOMAIN stack[h] \ {1} :
            \E j \in DOMAIN stack'[h] : stack'[h][j] = stack[h][i]
      /\ \A t, p : Announces(f, t, p) => WillAnnounce(h, t, p)'
  BY <1>1, <1>3, GotoFacts DEF Replying
<1>5. \A t, p : Announces(Top(h), t, p) /\ p # o => WillAnnounce(h, t, p)' BY <1>4
<1>6. NoMissedTrigger' BY <1>1, <1>2, <1>4, <1>5, AnnounceTriggers
<1>7. TaskInv' /\ ValueInv' BY <1>1, <1>4, StaysTasks, StaysValues
<1>8. QED BY <1>2, <1>4, <1>6, <1>7 DEF ClusterInv

LEMMA AnnounceInv ==
    ASSUME ClusterInv, NEW h \in Handler, Announce(h)
    PROVE  ClusterInv'
<1> DEFINE todo == Top(h).todo
<1>1. PICK o, f : /\ o = NextArg(h) /\ Sched!OnObjectReady(o)
                  /\ f = Submitting(Top(h).task, Tail(todo)) /\ Goto(h, f)
  BY DEF Announce
<1>2. /\ At(h, "announce") /\ UNCHANGED <<store, submitted, args>> /\ UNCHANGED connVars
      /\ UNCHANGED clientVars /\ UNCHANGED poolVars
  BY DEF Announce, osVars, restVars, tableVars
<1>3. stack[h] # <<>> /\ FrameOK(Top(h)) /\ Top(h).at = "announce"
  BY <1>2, AtFrame DEF ClusterInv
<1>4. /\ Top(h).task \in submitted /\ todo \in Seq(submitted) /\ todo # <<>>
      /\ Store!contains(o)
  BY <1>1, <1>3 DEF FrameOK, NextArg
<1>5. /\ o \in submitted /\ Tail(todo) \in Seq(submitted)
      /\ ToSet(todo) = {o} \cup ToSet(Tail(todo))
  BY <1>1, <1>4, SplitElements DEF NextArg
<1>6. /\ FrameOK(f) /\ f.at \in {"flush", "recheck"}
      /\ \A s, p : p \in ToSet(Tail(todo)) /\ Top(h).task \in {s, p} => Announces(f, s, p)
  BY <1>1, <1>4, <1>5, SubmittingFrame
<1>7. \A t, p : Announces(Top(h), t, p) /\ p # o => Announces(f, t, p)
  BY <1>5, <1>6 DEF Announces
<1>8. QED BY <1>1, <1>2, <1>3, <1>4, <1>5, <1>6, <1>7, AnnouncingInv DEF Replying

LEMMA FinishedInv ==
    ASSUME ClusterInv, NEW h \in Handler, Finished(h)
    PROVE  ClusterInv'
<1>1. PICK o, f : /\ o = Top(h).task /\ Sched!OnObjectReady(o)
                  /\ f = Frame("flush", o, <<>>) /\ Goto(h, f)
  BY DEF Finished
<1>2. /\ At(h, "finished") /\ UNCHANGED <<store, submitted, args>> /\ UNCHANGED connVars
      /\ UNCHANGED clientVars /\ UNCHANGED poolVars
  BY DEF Finished, osVars, Table!Record
<1>3. stack[h] # <<>> /\ FrameOK(Top(h)) /\ Top(h).at = "finished"
  BY <1>2, AtFrame DEF ClusterInv
<1>4. o \in submitted /\ Store!contains(o) /\ Top(h).todo = <<o>> BY <1>1, <1>3 DEF FrameOK
<1>5. f.at = "flush" /\ FrameOK(f)
  <2>1. <<>> \in Seq(submitted) BY EmptySeq
  <2>2. QED BY <1>1, <1>4, <2>1 DEF FrameOK, Frame, Inner, Replying
<1>6. \A t, p : Announces(Top(h), t, p) => p = o BY <1>4, OneElement DEF Announces
<1>7. QED BY <1>1, <1>2, <1>3, <1>4, <1>5, <1>6, AnnouncingInv DEF Replying
-----------------------------------------------------------------------------
(***************************************************************************)
(* The result of a task is stored.                                         *)
(***************************************************************************)
\* What the thread does next: it announces the object, unless the task raised.
LEMMA AfterPutFrame ==
    ASSUME NEW t, NEW v
    PROVE  \E f : /\ AfterPut(t, v) = <<f>>
                  /\ f = [at |-> f.at, task |-> f.task, todo |-> f.todo, vals |-> f.vals]
                  /\ f.task = t
                  /\ \/ f.at = "finished" /\ f.todo = <<t>> /\ \A s : Announces(f, s, t)
                     \/ f.at = "failed" /\ f.todo = <<>> /\ Raised(v)
<1>1. ToSet(<<t>>) = {t} BY OneElement
<1>2. CASE Raised(v)
  <2>1. PICK f : f = Frame("failed", t, <<>>) OBVIOUS
  <2>2. AfterPut(t, v) = <<f>> BY <1>2, <2>1 DEF AfterPut
  <2>3. QED BY <1>2, <2>1, <2>2 DEF Frame
<1>3. CASE ~ Raised(v)
  <2>1. PICK f : f = Frame("finished", t, <<t>>) OBVIOUS
  <2>2. AfterPut(t, v) = <<f>> BY <1>3, <2>1 DEF AfterPut
  <2>3. /\ f = [at |-> f.at, task |-> f.task, todo |-> f.todo, vals |-> f.vals]
        /\ f.task = t /\ f.at = "finished" /\ f.todo = <<t>>
    BY <2>1 DEF Frame
  <2>4. \A s : Announces(f, s, t) BY <1>1, <2>3 DEF Announces
  <2>5. QED BY <2>2, <2>3, <2>4
<1>4. QED BY <1>2, <1>3

LEMMA PutFacts ==
    ASSUME ClusterInv, NEW h \in Handler, NEW t, NEW v, Computed(t, v),
           Store!PutStore(h, t, v), UNCHANGED <<submitted, args>>
    PROVE  /\ Grows /\ t \in submitted /\ t \in Task
           /\ Store!contains(t)'
           /\ \A o \in Task : o # t => store'[o] = store[o]
           /\ store' = [o \in Task |-> store'[o]]
           /\ \A o \in Task : Store!contains(o)' => Computed(o, store[o])'
           /\ \E f : /\ AfterPut(t, v) = <<f>> /\ FrameOK(f)'
                     /\ f.at \in {"finished", "failed"}
                     /\ t \notin Fails => \A s : Announces(f, s, t)
<1>1. TaskInv /\ ValueInv /\ Grows BY GrowsPut DEF ClusterInv
<1>2. ArgsStored(t) /\ t \in submitted /\ t \in Task /\ v = Outcome(t, ArgValues(t))
  BY <1>1 DEF Computed, ArgsStored, TaskInv
<1>3. store' = [store EXCEPT ![t] = v] BY DEF Store!PutStore
<1>4. store' = [o \in Task |-> store'[o]] /\ store'[t] = v
      /\ \A o \in Task : o # t => store'[o] = store[o]
  BY <1>1, <1>2, <1>3 DEF ValueInv
<1>5. v # Absent BY <1>2 DEF Outcome, Absent
<1>6. Store!contains(t)' BY <1>4, <1>5 DEF Store!contains
<1>7. ASSUME NEW o \in Task, Store!contains(o)' PROVE Computed(o, store[o])'
  <2>1. PICK w : w = store'[o] OBVIOUS
  <2>2. CASE o = t BY <1>1, <1>4, <2>2, StaysCalled
  <2>3. CASE o # t
    <3>1. w = store[o] /\ Store!contains(o) BY <1>4, <1>7, <2>1, <2>3 DEF Store!contains
    <3>2. Computed(o, w) BY <1>1, <3>1 DEF ValueInv
    <3>3. Computed(o, w)' BY <1>1, <3>2, StaysCalled
    <3>4. QED BY <2>1, <3>3
  <2>4. QED BY <2>2, <2>3
<1>8. PICK f : /\ AfterPut(t, v) = <<f>>
               /\ f = [at |-> f.at, task |-> f.task, todo |-> f.todo, vals |-> f.vals]
               /\ f.task = t
               /\ \/ f.at = "finished" /\ f.todo = <<t>> /\ \A s : Announces(f, s, t)
                  \/ f.at = "failed" /\ f.todo = <<>> /\ Raised(v)
  BY AfterPutFrame
<1>9. FrameOK(f)'
  <2>1. <<t>> \in Seq(submitted) /\ <<>> \in Seq(submitted)
    <3>1. IsSequence(<<t>>) /\ ToSet(<<t>>) = {t} BY OneElement
    <3>2. QED BY <1>2, <3>1, SequenceIn, EmptySeq
  <2>2. f.task \in submitted /\ f.todo \in Seq(submitted) BY <1>2, <1>8, <2>1
  <2>3. QED BY <1>6, <1>8, <2>2 DEF FrameOK, Inner, Replying
<1>10. ASSUME t \notin Fails PROVE \A s : Announces(f, s, t)
  <2>1. ~ Raised(v) BY <1>2, <1>10 DEF Raised, Outcome
  <2>2. QED BY <1>8, <2>1
<1>11. QED BY <1>1, <1>2, <1>4, <1>6, <1>7, <1>8, <1>9, <1>10

LEMMA PutTriggers ==
    ASSUME StackInv, NoMissedTrigger, NEW h \in Handler, stack[h] = <<>>,
           stack' = [stack EXCEPT ![h] = stack'[h]], 1 \in DOMAIN stack'[h],
           NEW t, \A o \in Task : o # t => store'[o] = store[o],
           t \notin Fails => \A s : Announces(stack'[h][1], s, t),
           UNCHANGED schedVars
    PROVE  NoMissedTrigger'
<1>1. UNCHANGED <<pending, unresolved>> BY DEF schedVars
<1>2. ASSUME NEW s \in pending, NEW o \in Task \ Fails,
             o \in unresolved[s], Store!contains(o)'
      PROVE  \E g \in Handler : WillAnnounce(g, s, o)'
  <2>1. CASE o = t BY <1>2, <2>1, AnnouncerAt
  <2>2. CASE o # t
    <3>1. Store!contains(o) BY <1>2, <2>2 DEF Store!contains
    <3>2. PICK g \in Handler : WillAnnounce(g, s, o) BY <1>2, <3>1 DEF NoMissedTrigger
    <3>3. DOMAIN stack[h] = {} BY NoElement
    <3>4. WillAnnounce(g, s, o)' BY <3>2, <3>3, AnnouncersStay
    <3>5. QED BY <3>4
  <2>3. QED BY <2>1, <2>2
<1>3. QED BY <1>1, <1>2 DEF NoMissedTrigger

LEMMA TaskResultInv ==
    ASSUME ClusterInv, NEW h, OnTaskResult(h)
    PROVE  ClusterInv'
<1> DEFINE m == Head(inbox[h])
<1>1. PICK t, v, g : /\ t = m.task /\ v = m.data /\ g = ReplyFrame("ack", t)
                     /\ Store!PutStore(h, t, v)
                     /\ Enter(h, AfterPut(t, v) \o <<g>>)
  BY DEF OnTaskResult
<1>2. /\ Receiving(h, "task_result") /\ UNCHANGED <<submitted, args, outbox>>
      /\ UNCHANGED schedVars /\ UNCHANGED clientVars /\ UNCHANGED poolVars
  BY DEF OnTaskResult, tableVars
<1>3. /\ h \in Conn /\ h \in Handler /\ TaskInv /\ ValueInv /\ StackInv /\ SchedInv
      /\ NoMissedTrigger /\ stack[h] = <<>>
      /\ m.cmd = "task_result" /\ \E c \in ThreadsOf(h) : RequestOK(h, c, m)
      /\ Asking' = Asking
  BY <1>2, ReceivingFacts DEF ClusterInv
<1>4. Computed(t, v) BY <1>1, <1>3 DEF RequestOK
<1>5. /\ Grows /\ t \in submitted
      /\ \A o \in Task : o # t => store'[o] = store[o]
      /\ store' = [o \in Task |-> store'[o]]
      /\ \A o \in Task : Store!contains(o)' => Computed(o, store[o])'
  BY <1>1, <1>2, <1>3, <1>4, PutFacts
<1>6. PICK f : /\ AfterPut(t, v) = <<f>> /\ FrameOK(f)'
               /\ f.at \in {"finished", "failed"}
               /\ t \notin Fails => \A s : Announces(f, s, t)
  BY <1>1, <1>2, <1>3, <1>4, PutFacts
<1>7. Enter(h, <<f, g>>) BY <1>1, <1>6, PushOne
<1>8. FrameOK(g)' /\ g.at = "ack" /\ g.task = t
  <2>1. <<>> \in Seq(submitted) BY EmptySeq
  <2>2. QED BY <1>1, <1>2, <1>5, <2>1 DEF FrameOK, ReplyFrame, Frame, Replying
<1>9. /\ StackInv' /\ stack'[h] # <<>> /\ stack'[h][1] = f /\ 1 \in DOMAIN stack'[h]
      /\ Last(stack'[h]) = g /\ stack' = [stack EXCEPT ![h] = stack'[h]]
  BY <1>3, <1>5, <1>6, <1>7, <1>8, EnterTwo, ZenonT(30) DEF Enter, StackInv, Inner
<1>10. Serves(g, m) BY <1>1, <1>3, <1>8 DEF Serves
<1>11. WireInv' BY <1>2, <1>5, <1>9, <1>10, ServeWire
<1>12. NoMissedTrigger' BY <1>2, <1>3, <1>5, <1>6, <1>9, PutTriggers
<1>13. TaskInv' /\ SchedInv' BY <1>2, <1>3, <1>5, StaysTasks, StaysSched
<1>14. ValueInv'
  <2>1. UNCHANGED <<taskQueue, executing, results>> BY <1>2 DEF poolVars
  <2>2. \A p \in Pool : PoolOK(p)' BY <1>3, <1>5, <2>1, StaysPool DEF ValueInv
  <2>3. QED BY <1>3, <1>5, <2>1, <2>2 DEF ValueInv
<1>15. QED BY <1>9, <1>11, <1>12, <1>13, <1>14 DEF ClusterInv

LEMMA CollectLocalInv ==
    ASSUME ClusterInv, CollectLocal
    PROVE  ClusterInv'
<1> DEFINE h == Local
           r == Head(results[h])
<1>1. PICK t, v : /\ t = r[1] /\ v = r[2]
                  /\ Store!PutStore(h, t, v) /\ Enter(h, AfterPut(t, v))
  BY DEF CollectLocal
<1>2. /\ UNCHANGED <<submitted, args, taskQueue, executing>>
      /\ UNCHANGED schedVars /\ UNCHANGED clientVars /\ UNCHANGED connVars
      /\ HasLocal /\ results[h] # <<>> /\ results' = [results EXCEPT ![h] = Tail(@)]
  BY DEF CollectLocal, tableVars
<1>3. /\ h \in Pool /\ h \in Handler /\ h \notin Conn
      /\ TaskInv /\ ValueInv /\ StackInv /\ SchedInv /\ WireInv /\ NoMissedTrigger
      /\ PoolOK(h)
  BY <1>2, ClusterAssumption DEF ClusterInv, ValueInv, Pool, Handler, Conn
<1>4. /\ results'[h] = Tail(results[h]) /\ IsSequence(results'[h])
      /\ ToSet(results[h]) = {r} \cup ToSet(results'[h])
      /\ results' = [p \in Pool |-> results'[p]]
      /\ \A p \in Pool : p # h => results'[p] = results[p]
  <2>1. results'[h] = Tail(results[h]) BY <1>2, <1>3 DEF ValueInv
  <2>2. IsSequence(results[h]) BY <1>3 DEF PoolOK
  <2>3. /\ results' = [p \in Pool |-> results'[p]]
        /\ \A p \in Pool : p # h => results'[p] = results[p]
    BY <1>2, <1>3 DEF ValueInv
  <2>4. QED BY <1>2, <2>1, <2>2, <2>3, TailSequence
<1>5. Computed(t, v) BY <1>1, <1>3, <1>4 DEF PoolOK
<1>6. /\ Grows
      /\ \A o \in Task : o # t => store'[o] = store[o]
      /\ store' = [o \in Task |-> store'[o]]
      /\ \A o \in Task : Store!contains(o)' => Computed(o, store[o])'
  BY <1>1, <1>2, <1>3, <1>5, PutFacts
<1>7. PICK f : /\ AfterPut(t, v) = <<f>> /\ FrameOK(f)'
               /\ f.at \in {"finished", "failed"}
               /\ t \notin Fails => \A s : Announces(f, s, t)
  BY <1>1, <1>2, <1>3, <1>5, PutFacts
<1>8. Enter(h, <<f>>) BY <1>1, <1>7
<1>9. /\ StackInv' /\ stack[h] = <<>> /\ stack'[h][1] = f /\ 1 \in DOMAIN stack'[h]
      /\ stack' = [stack EXCEPT ![h] = stack'[h]]
  BY <1>3, <1>6, <1>7, <1>8, EnterOne DEF Enter, StackInv, Replying
<1>10. WireInv'
  <2>1. \A j \in Conn \ {h} : stack'[j] = stack[j] BY <1>3, <1>9 DEF StackInv, Handler
  <2>2. QED BY <1>2, <1>3, <1>6, <2>1, NoConn
<1>11. NoMissedTrigger' BY <1>2, <1>3, <1>6, <1>7, <1>9, PutTriggers
<1>12. Asking' = Asking BY <1>2 DEF Asking, Asks, connVars
<1>13. TaskInv' /\ SchedInv' BY <1>2, <1>3, <1>6, <1>12, StaysTasks, StaysSched
<1>14. ValueInv'
  <2>1. ASSUME NEW p \in Pool, p # h PROVE PoolOK(p)'
    BY <1>2, <1>3, <1>4, <1>6, <2>1, StaysPool DEF ValueInv
  <2>2. PoolOK(h)'
    <3>1. \A e \in ToSet(taskQueue'[h]) \cup executing'[h] : Called(e[1], e[2])'
      BY <1>2, <1>3, <1>6, StaysCalled DEF PoolOK
    <3>2. \A e \in ToSet(results'[h]) : Computed(e[1], e[2])'
      BY <1>3, <1>4, <1>6, StaysCalled DEF PoolOK
    <3>3. QED BY <1>2, <1>3, <1>4, <3>1, <3>2 DEF PoolOK
  <2>3. QED BY <1>2, <1>3, <1>4, <1>6, <2>1, <2>2 DEF ValueInv
<1>15. QED BY <1>9, <1>10, <1>11, <1>13, <1>14 DEF ClusterInv
-----------------------------------------------------------------------------
(***************************************************************************)
(* A task is submitted: its id is the next one, and there is one for it.   *)
(***************************************************************************)
LEMMA SubmitAsking ==
    ASSUME ClusterInv, NEW h, Receiving(h, "submit_task")
    PROVE  \E q \in Asking : Asking' = Asking \ {q}
<1>1. /\ h \in Conn /\ ConnOK(h) /\ WireTypes
      /\ inbox' = [inbox EXCEPT ![h] = inbox'[h]] /\ inbox'[h] = <<>> /\ inbox[h] # <<>>
      /\ UNCHANGED <<wants, sent, up>>
      /\ sent[h] = {} => h \in Node \ up
      /\ \A c \in sent[h] : wants[h][c] = Head(inbox[h])
      /\ Head(inbox[h]).cmd = "submit_task"
      /\ \E c \in ThreadsOf(h) : RequestOK(h, c, Head(inbox[h]))
  BY ReceivingFacts
<1>2. h \in Client BY <1>1 DEF RequestOK, CommandsOf
<1>3. ThreadsOf(h) = User BY <1>2, ClusterAssumption DEF ThreadsOf
<1>4. h \notin Node BY <1>2, ClusterAssumption
<1>5. PICK c \in sent[h] : TRUE BY <1>1, <1>4
<1>6. c \in User /\ \A d \in sent[h] : d = c BY <1>1, <1>3, <1>5 DEF ConnOK
<1>7. Asks(h, c) /\ ~ Asks(h, c)' BY <1>1, <1>5 DEF Asks
<1>8. ASSUME NEW j \in Client, NEW u \in User, <<j, u>> # <<h, c>>
      PROVE  Asks(j, u)' <=> Asks(j, u)
  <2>1. CASE j = h
    <3>1. u \notin sent[h] BY <1>6, <1>8, <2>1
    <3>2. QED BY <1>1, <2>1, <3>1 DEF Asks
  <2>2. CASE j # h
    <3>1. inbox'[j] = inbox[j] BY <1>1, <2>2 DEF WireTypes, Conn
    <3>2. QED BY <1>1, <3>1 DEF Asks
  <2>3. QED BY <2>1, <2>2
<1>9. <<h, c>> \in Asking BY <1>2, <1>6, <1>7 DEF Asking
<1>10. Asking' = Asking \ {<<h, c>>}
  <2>1. ASSUME NEW q \in Client \X User
        PROVE  Asks(q[1], q[2])' <=> Asks(q[1], q[2]) /\ q # <<h, c>>
    <3>1. q = <<q[1], q[2]>> /\ q[1] \in Client /\ q[2] \in User OBVIOUS
    <3>2. QED BY <1>7, <1>8, <3>1
  <2>2. QED BY <2>1 DEF Asking
<1>11. QED BY <1>9, <1>10

LEMMA SubmitTasks ==
    ASSUME ClusterInv, NEW h, Receiving(h, "submit_task"), UNCHANGED clientVars,
           NEW t, t = Cardinality(submitted) + 1,
           NEW a \in SeqOf(submitted, MaxArgs), Table!register_task(t, a)
    PROVE  /\ TaskInv'
           /\ t \in Task /\ t \in submitted' /\ submitted' = submitted \cup {t}
           /\ args'[t] = a
<1>1. TaskInv /\ IsFiniteSet(Asking) BY DEF ClusterInv, TaskInv
<1>2. PICK q \in Asking : Asking' = Asking \ {q} BY SubmitAsking
<1>3. PICK k \in Nat : k = Cardinality(Asking) BY <1>1, FS_CardinalityType
<1>4. IsFiniteSet(Asking') /\ Cardinality(Asking') = k - 1 /\ k >= 1
  <2>1. Asking # {} /\ k # 0 BY <1>1, <1>2, <1>3, FS_EmptySet
  <2>2. IsFiniteSet(Asking') /\ Cardinality(Asking') = k - 1
    BY <1>1, <1>2, <1>3, FS_RemoveElement
  <2>3. QED BY <1>3, <2>1, <2>2
<1>5. PICK n \in Nat : n = Cardinality(submitted) /\ submitted = 1 .. n
  BY <1>1 DEF TaskInv
<1>6. asked = n + k /\ asked <= MaxTasks BY <1>1, <1>3, <1>5 DEF TaskInv
<1>7. t = n + 1 /\ t \in Task
  <2>1. t = n + 1 BY <1>5
  <2>2. n + 1 <= MaxTasks BY <1>3, <1>4, <1>6, TaskAssumption
  <2>3. QED BY <2>1, <2>2, TaskAssumption DEF Task
<1>8. submitted' = submitted \cup {t} /\ submitted' = 1 .. n + 1
  <2>1. submitted' = submitted \cup {t} BY DEF Table!register_task
  <2>2. 1 .. n + 1 = (1 .. n) \cup {n + 1} OBVIOUS
  <2>3. QED BY <1>5, <1>7, <2>1, <2>2
<1>9. Cardinality(submitted') = n + 1
  <2>1. IsFiniteSet(submitted) /\ t \notin submitted
    <3>1. n + 1 \notin 1 .. n OBVIOUS
    <3>2. IsFiniteSet(1 .. n) BY FS_Interval
    <3>3. QED BY <1>5, <1>7, <3>1, <3>2
  <2>2. QED BY <1>5, <1>8, <2>1, FS_AddElement
<1>10. submitted' \subseteq Task BY <1>1, <1>7, <1>8 DEF TaskInv
<1>11. args' = [args EXCEPT ![t] = a] BY DEF Table!register_task
<1>12. args' \in [Task -> SeqOf(submitted', MaxArgs)] /\ args'[t] = a
  <2>1. SeqOf(submitted, MaxArgs) \subseteq SeqOf(submitted', MaxArgs)
    BY <1>8, BoundedSequence, ClusterAssumption
  <2>2. QED BY <1>1, <1>7, <1>11, <2>1 DEF TaskInv
<1>13. /\ refs' = [j \in Client |-> refs'[j]]
       /\ \A j \in Client : refs'[j] \subseteq submitted'
  BY <1>1, <1>8 DEF TaskInv, clientVars
<1>14. asked' = Cardinality(submitted') + Cardinality(Asking') /\ asked' <= MaxTasks
  <2>1. asked' = asked BY DEF clientVars
  <2>2. n + k = (n + 1) + (k - 1) BY <1>3, <1>5
  <2>3. QED BY <1>4, <1>6, <1>9, <2>1, <2>2
<1>15. TaskInv'
  <2>1. Cardinality(submitted') \in Nat /\ submitted' = 1 .. Cardinality(submitted')
    <3>1. n + 1 \in Nat OBVIOUS
    <3>2. QED BY <1>8, <1>9, <3>1
  <2>2. QED BY <1>4, <1>10, <1>12, <1>13, <1>14, <2>1 DEF TaskInv
<1>16. QED BY <1>7, <1>8, <1>12, <1>15

\* The index: every argument leads to the task, and nothing is dropped from it.
LEMMA IndexedTask ==
    ASSUME NEW S, S \subseteq Task, waitingOn \in [Task -> Seq(S)],
           NEW t \in S, NEW a \in Seq(S)
    PROVE  /\ Sched!Indexed(t, a) \in [Task -> Seq(S)]
           /\ \A o \in Task : ToSet(waitingOn[o]) \subseteq ToSet(Sched!Indexed(t, a)[o])
           /\ \A o \in ToSet(a) : t \in ToSet(Sched!Indexed(t, a)[o])
<1> DEFINE U(o) == {i \in DOMAIN a : a[i] = o}
           n(o) == Cardinality(U(o))
           w == [o \in Task |-> waitingOn[o] \o [i \in 1 .. n(o) |-> t]]
<1>1. Sched!Indexed(t, a) = w
  BY DEF Sched!Indexed, Sched!Uses, Sched!Cardinality, Cardinality
<1>2. ASSUME NEW o \in Task
      PROVE  /\ w[o] \in Seq(S) /\ ToSet(waitingOn[o]) \subseteq ToSet(w[o])
             /\ o \in ToSet(a) => t \in ToSet(w[o])
  <2>1. n(o) \in Nat /\ (o \in ToSet(a) => n(o) # 0) BY UsesFinite
  <2>2. PICK k \in Nat, s \in Seq(S) : k = n(o) /\ s = waitingOn[o] BY <2>1
  <2>3. w[o] = s \o [i \in 1 .. k |-> t] BY <2>2
  <2>4. PICK r : r = s \o [i \in 1 .. k |-> t] OBVIOUS
  <2>5. r \in Seq(S) /\ ToSet(s) \subseteq ToSet(r) /\ (k # 0 => t \in ToSet(r))
    BY <2>4, RepeatedElement
  <2> HIDE DEF w, n
  <2>6. QED BY <2>1, <2>2, <2>3, <2>4, <2>5
<1>3. ToSet(a) \subseteq Task BY SequenceOver
<1>4. w = [o \in Task |-> w[o]] OBVIOUS
<1> HIDE DEF w
<1>5. QED BY <1>1, <1>2, <1>3, <1>4

LEMMA SubmitSched ==
    ASSUME ClusterInv, Grows, UNCHANGED store, submitted' \subseteq Task,
           NEW t \in submitted', t \notin submitted,
           NEW a \in SeqOf(submitted, MaxArgs), args'[t] = a, Sched!SchedSubmit(t, a)
    PROVE  /\ SchedInv' /\ pending' \subseteq pending \cup {t}
           /\ t \in pending' => unresolved'[t] = ToSet(a)
           /\ \A s \in pending : unresolved'[s] = unresolved[s]
<1>1. TaskInv /\ SchedInv /\ submitted \subseteq submitted' /\ pending \subseteq submitted
      /\ submitted \subseteq Task
  BY DEF ClusterInv, Grows, SchedInv, TaskInv
<1>2. /\ a \in Seq(submitted) /\ ToSet(a) \subseteq submitted
  BY BoundedSequence, ClusterAssumption
<1>3. \A s \in Seq(submitted) : s \in Seq(submitted')
  BY <1>1, SequenceOver, SequenceIn
<1>4. waitingOn \in [Task -> Seq(submitted')] /\ ready \in Seq(submitted')
  BY <1>1, <1>3 DEF SchedInv
<1>5. ASSUME NEW s \in ToSet(ready) PROVE ArgsStored(s)'
  BY <1>1, StaysArguments DEF SchedInv
<1>6. ASSUME NEW s \in pending
      PROVE  \A d \in ToSet(args'[s]) : Store!contains(d)' \/ d \in unresolved[s]
  BY <1>1 DEF SchedInv, Grows, Store!contains
<1>7. CASE a = <<>>
  <2>1. ready' = Append(ready, t) /\ UNCHANGED <<pending, unresolved, waitingOn>>
    BY <1>7 DEF Sched!SchedSubmit
  <2>2. ready' \in Seq(submitted') /\ ToSet(ready') = ToSet(ready) \cup {t}
    BY <1>4, <2>1, AppendElements, AppendProperties
  <2>3. ArgsStored(t)' BY <1>7, NoElement DEF ArgsStored
  <2>4. SchedInv' BY <1>1, <1>4, <1>5, <1>6, <2>1, <2>2, <2>3 DEF SchedInv
  <2>5. QED BY <1>1, <2>1, <2>4
<1>8. CASE a # <<>>
  <2>1. /\ pending' = pending \cup {t} /\ ready' = ready
        /\ unresolved' = [unresolved EXCEPT ![t] = ToSet(a)]
        /\ waitingOn' = Sched!Indexed(t, a)
    BY <1>8, SchedSequences DEF Sched!SchedSubmit
  <2>2. /\ waitingOn' \in [Task -> Seq(submitted')]
        /\ \A o \in Task : ToSet(waitingOn[o]) \subseteq ToSet(waitingOn'[o])
        /\ \A o \in ToSet(a) : t \in ToSet(waitingOn'[o])
    BY <1>2, <1>3, <1>4, <2>1, IndexedTask
  <2>3. /\ unresolved' = [s \in Task |-> unresolved'[s]]
        /\ unresolved'[t] = ToSet(a)
        /\ \A s \in pending : unresolved'[s] = unresolved[s]
    BY <1>1, <2>1 DEF SchedInv
  <2>4. \A s \in pending' : \A d \in ToSet(args'[s]) :
            Store!contains(d)' \/ d \in unresolved'[s]
    BY <1>6, <2>1, <2>3
  <2>5. ASSUME NEW s \in pending', NEW o \in unresolved'[s]
        PROVE  o \in submitted' /\ s \in ToSet(waitingOn'[o])
    <3>1. CASE s = t BY <1>1, <1>2, <2>2, <2>3, <3>1
    <3>2. CASE s \in pending
      <4>1. o \in submitted /\ s \in ToSet(waitingOn[o]) BY <1>1, <2>3, <3>2 DEF SchedInv
      <4>2. QED BY <1>1, <2>2, <4>1
    <3>3. QED BY <2>1, <3>1, <3>2
  <2>6. SchedInv'
    <3>1. pending' \subseteq submitted' BY <1>1, <2>1
    <3>2. QED BY <1>4, <1>5, <2>1, <2>2, <2>3, <2>4, <2>5, <3>1 DEF SchedInv
  <2>7. QED BY <2>1, <2>3, <2>6
<1>9. QED BY <1>7, <1>8

LEMMA SubmitTaskInv ==
    ASSUME ClusterInv, NEW h, OnSubmitTask(h)
    PROVE  ClusterInv'
<1> DEFINE m == Head(inbox[h])
<1>1. PICK t, a, f, g :
          /\ t = Cardinality(submitted) + 1 /\ a = m.data
          /\ f = Submitting(t, a) /\ g = ReplyFrame("object_id", t)
          /\ Table!register_task(t, a) /\ Sched!SchedSubmit(t, a)
          /\ Enter(h, <<f, g>>)
  BY DEF OnSubmitTask
<1>2. /\ Receiving(h, "submit_task") /\ UNCHANGED <<store, outbox>>
      /\ UNCHANGED clientVars /\ UNCHANGED poolVars
  BY DEF OnSubmitTask, osVars
<1>3. /\ h \in Conn /\ h \in Handler /\ TaskInv /\ ValueInv /\ StackInv
      /\ NoMissedTrigger /\ stack[h] = <<>>
      /\ m.cmd = "submit_task" /\ \E c \in ThreadsOf(h) : RequestOK(h, c, m)
  BY <1>2, ReceivingFacts DEF ClusterInv
<1>4. a \in SeqOf(submitted, MaxArgs) /\ m.task = Nothing BY <1>1, <1>3 DEF RequestOK
<1>5. Grows /\ t \notin submitted BY <1>1, <1>2, <1>3, GrowsSubmit
<1>6. TaskInv' /\ t \in Task /\ t \in submitted' /\ args'[t] = a
  BY <1>1, <1>2, <1>4, SubmitTasks
<1>7. submitted' \subseteq Task /\ submitted \subseteq submitted'
  BY <1>5, <1>6 DEF TaskInv, Grows
<1>8. /\ SchedInv' /\ pending' \subseteq pending \cup {t}
      /\ t \in pending' => unresolved'[t] = ToSet(a)
      /\ \A s \in pending : unresolved'[s] = unresolved[s]
  BY <1>1, <1>2, <1>4, <1>5, <1>6, <1>7, SubmitSched
<1>9. a \in Seq(submitted') /\ <<>> \in Seq(submitted')
  BY <1>4, <1>7, BoundedSequence, ClusterAssumption, SequenceOver, SequenceIn, EmptySeq
<1>10. /\ FrameOK(f)' /\ f.at \in Inner
       /\ \A o \in ToSet(a) : Announces(f, t, o)
  <2>1. /\ f = [at |-> f.at, task |-> f.task, todo |-> f.todo, vals |-> f.vals]
        /\ f.task = t /\ f.todo = a /\ f.at = IF a = <<>> THEN "flush" ELSE "recheck"
    BY <1>1 DEF Submitting, Frame
  <2>2. FrameOK(f)' BY <1>6, <1>9, <2>1 DEF FrameOK, Inner, Replying
  <2>3. \A o \in ToSet(a) : Announces(f, t, o) BY <2>1, NoElement DEF Announces
  <2>4. QED BY <2>1, <2>2, <2>3 DEF Inner
<1>11. /\ FrameOK(g)' /\ g.at = "object_id" /\ g.task = t
  <2>1. /\ g = [at |-> g.at, task |-> g.task, todo |-> g.todo, vals |-> g.vals]
        /\ g.task = t /\ g.todo = <<>> /\ g.at = "object_id"
    BY <1>1 DEF ReplyFrame, Frame
  <2>2. QED BY <1>6, <1>9, <2>1 DEF FrameOK, Inner, Replying
<1>12. /\ StackInv' /\ stack'[h] # <<>> /\ stack'[h][1] = f /\ 1 \in DOMAIN stack'[h]
       /\ Last(stack'[h]) = g /\ stack' = [stack EXCEPT ![h] = stack'[h]]
  <2>1. Enter(h, <<f, g>>) /\ g.at \in {"object_id", "ack"} /\ f.at \in Inner
    BY <1>1, <1>10, <1>11
  <2>2. /\ StackInv' /\ stack'[h] # <<>> /\ stack'[h][1] = f
        /\ Last(stack'[h]) = g /\ DOMAIN stack'[h] = {1, 2}
    BY <1>3, <1>5, <1>10, <1>11, <2>1, EnterTwo
  <2>3. stack' = [stack EXCEPT ![h] = stack'[h]] BY <1>3, <2>1 DEF Enter, StackInv
  <2>4. QED BY <2>2, <2>3
<1>13. Serves(g, m) BY <1>3, <1>4, <1>11 DEF Serves
<1>14. WireInv' BY <1>2, <1>5, <1>12, <1>13, ServeWire
<1>15. ValueInv' BY <1>2, <1>3, <1>5, StaysValues
<1>16. ASSUME NEW s \in pending', NEW o \in Task \ Fails,
              o \in unresolved'[s], Store!contains(o)'
       PROVE  \E k \in Handler : WillAnnounce(k, s, o)'
  <2>1. CASE s = t
    <3>1. Announces(f, s, o) BY <1>8, <1>10, <1>16, <2>1
    <3>2. QED BY <1>3, <1>12, <3>1, AnnouncerAt
  <2>2. CASE s # t
    <3>1. s \in pending /\ o \in unresolved[s] /\ Store!contains(o)
      BY <1>2, <1>8, <1>16, <2>2 DEF Store!contains
    <3>2. PICK k \in Handler : WillAnnounce(k, s, o) BY <1>3, <3>1 DEF NoMissedTrigger
    <3>3. DOMAIN stack[h] = {} BY <1>3, NoElement
    <3>4. WillAnnounce(k, s, o)' BY <1>3, <1>12, <3>2, <3>3, AnnouncersStay
    <3>5. QED BY <3>4
  <2>3. QED BY <2>1, <2>2
<1>17. NoMissedTrigger' BY <1>16 DEF NoMissedTrigger
<1>18. QED BY <1>6, <1>8, <1>12, <1>14, <1>15, <1>17 DEF ClusterInv

-----------------------------------------------------------------------------
(***************************************************************************)
(* The invariant holds at first and after every step.                      *)
(***************************************************************************)
LEMMA InitInv == Init => ClusterInv
<1> SUFFICES ASSUME Init PROVE ClusterInv
  OBVIOUS
<1>1. /\ submitted = {} /\ args = [t \in Task |-> <<>>]
      /\ store = [t \in Task |-> Absent]
      /\ pending = {} /\ unresolved = [t \in Task |-> {}]
      /\ waitingOn = [t \in Task |-> <<>>] /\ ready = <<>>
  <2>1. submitted = {} /\ args = [t \in Task |-> <<>>] BY DEF Init, Table!TableInit, Table!Task, Task
  <2>2. store = [t \in Task |-> Absent] BY DEF Init, Store!OSInit
  <2>3. /\ pending = {} /\ unresolved = [t \in Task |-> {}]
        /\ waitingOn = [t \in Task |-> <<>>] /\ ready = <<>>
    BY DEF Init, Sched!SchedInit
  <2>4. QED BY <2>1, <2>2, <2>3
<1>2. \A k \in Conn : \A c \in ThreadsOf(k) : RequestOK(k, c, wants[k][c])
  <2> TAKE k \in Conn
  <2> TAKE c \in ThreadsOf(k)
  <2>1. wants[k][c] = IF c = "poller" THEN Poll ELSE NoRequest BY DEF Init, Idle
  <2>2. CASE c = "poller"
    <3>1. k \in Node /\ k \notin Client
      BY <2>2, ClusterAssumption DEF Conn, ThreadsOf
    <3>2. wants[k][c].cmd = "poll_task" /\ wants[k][c].task = Nothing
      BY <2>1, <2>2 DEF Poll, Msg
    <3>3. QED BY <2>2, <3>1, <3>2 DEF RequestOK, CommandsOf
  <2>3. CASE c # "poller"
    <3>1. wants[k][c] = NoRequest /\ NoRequest.cmd = "none"
      BY <2>1, <2>3 DEF NoRequest, Msg
    <3>2. QED BY <3>1 DEF RequestOK, CommandsOf
  <2>4. QED BY <2>2, <2>3
<1>3. Asking = {}
  <2>1. ASSUME NEW k \in Client, NEW u \in User PROVE ~ Asks(k, u)
    <3>1. k \in Conn /\ u \in ThreadsOf(k) /\ u # "poller"
      BY ClusterAssumption DEF Conn, ThreadsOf
    <3>2. wants[k][u] = NoRequest BY <3>1 DEF Init, Idle
    <3>3. QED BY <3>2 DEF Asks, NoRequest, Msg
  <2>2. QED BY <2>1 DEF Asking
<1>4. TaskInv
  <2>1. Cardinality(submitted) = 0 /\ Cardinality(Asking) = 0 /\ IsFiniteSet(Asking)
    BY <1>1, <1>3, FS_EmptySet
  <2>2. 1 .. 0 = {} OBVIOUS
  <2>3. args \in [Task -> SeqOf(submitted, MaxArgs)]
    BY <1>1, EmptyIsBounded, ClusterAssumption
  <2>4. refs = [k \in Client |-> {}] /\ asked = 0 BY DEF Init
  <2>5. QED BY <1>1, <2>1, <2>2, <2>3, <2>4, TaskAssumption DEF TaskInv
<1>5. ValueInv
  <2>1. \A t \in Task : ~ Store!contains(t) BY <1>1 DEF Store!contains
  <2>2. \A p \in Pool : PoolOK(p) BY NoElement DEF Init, PoolOK
  <2>3. QED BY <1>1, <2>1, <2>2 DEF Init, ValueInv
<1>6. StackInv BY NoElement DEF Init, StackInv, StackOK
<1>7. WireInv
  <2>1. WireTypes BY DEF Init, WireTypes, Idle
  <2>2. ASSUME NEW k \in Conn PROVE ConnOK(k)
    <3>1. sent[k] = {} /\ inbox[k] = <<>> /\ outbox[k] = <<>> /\ stack[k] = <<>> /\ up = Node
      BY DEF Init, Handler
    <3>2. WireOK(k) BY <3>1 DEF WireOK
    <3>3. QED BY <1>2, <3>1, <3>2 DEF ConnOK
  <2>3. QED BY <2>1, <2>2 DEF WireInv
<1>8. SchedInv
  <2>1. <<>> \in Seq(submitted) /\ ToSet(<<>>) = {} BY EmptySeq, NoElement
  <2>2. QED BY <1>1, <2>1 DEF SchedInv
<1>9. NoMissedTrigger BY <1>1 DEF NoMissedTrigger
<1>10. QED BY <1>4, <1>5, <1>6, <1>7, <1>8, <1>9 DEF ClusterInv

LEMMA HeadStepInv ==
    ASSUME ClusterInv, NEW h \in Handler, HeadStep(h)
    PROVE  ClusterInv'
<1>1. CASE Dispatch(h)
  BY <1>1, SubmitTaskInv, GetObjectInv, ContainsInv, PollEmptyInv, PollTaskInv,
     TaskResultInv DEF Dispatch
<1>2. CASE SetEvent(h) \/ Block(h) BY <1>2, BlockInv
<1>3. CASE Finished(h) BY <1>3, FinishedInv
<1>4. CASE Failed(h) BY <1>4, FailedInv
<1>5. CASE Recheck(h) BY <1>5, RecheckInv
<1>6. CASE Announce(h) BY <1>6, AnnounceInv
<1>7. CASE FlushNext(h) BY <1>7, FlushNextInv
<1>8. CASE FlushDone(h) BY <1>8, FlushDoneInv
<1>9. CASE ResolveArg(h) BY <1>9, ResolveArgInv
<1>10. CASE QueueLocal(h) BY <1>10, QueueLocalInv
<1>11. CASE ReplyTask(h) BY <1>11, ReplyTaskInv
<1>12. CASE ReplyValue(h) BY <1>12, ReplyValueInv
<1>13. CASE ReplyDone(h) BY <1>13, ReplyDoneInv
<1>14. QED
  BY <1>1, <1>2, <1>3, <1>4, <1>5, <1>6, <1>7, <1>8, <1>9, <1>10, <1>11, <1>12, <1>13
     DEF HeadStep

LEMMA NextInv == ClusterInv /\ [Next]_vars => ClusterInv'
<1> SUFFICES ASSUME ClusterInv, [Next]_vars PROVE ClusterInv'
  OBVIOUS
<1>1. ASSUME NEW h \in Handler, HeadStep(h) PROVE ClusterInv'
  BY <1>1, HeadStepInv
<1>2. CASE CollectLocal BY <1>2, CollectLocalInv
<1>3. ASSUME NEW k \in Conn, NEW c \in ThreadsOf(k), Send(k, c) PROVE ClusterInv'
  BY <1>3, SendInv
<1>4. ASSUME NEW k \in Client, NEW u \in User, UserCalls(k, u) \/ UserReturn(k, u)
      PROVE  ClusterInv'
  BY <1>4, UserCallsInv, UserReturnInv
<1>5. ASSUME NEW n \in Node, NodeReturn(n) \/ TakeResult(n) \/ Stop(n)
      PROVE  ClusterInv'
  BY <1>5, PollReturnInv, ReportReturnInv, TakeResultInv, StopInv DEF NodeReturn
<1>6. ASSUME NEW p \in Pool, PoolStep(p) PROVE ClusterInv'
  <2>1. CASE StartTask(p) BY <2>1, StartTaskInv
  <2>2. CASE \E e \in executing[p] : FinishTask(p, e) BY <2>2, FinishTaskInv
  <2>3. QED BY <1>6, <2>1, <2>2 DEF PoolStep
<1>7. CASE UNCHANGED vars
  <2>1. /\ UNCHANGED headVars /\ UNCHANGED connVars
        /\ UNCHANGED clientVars /\ UNCHANGED poolVars
    BY <1>7 DEF vars
  <2>2. UNCHANGED <<store, stack, submitted, args>> /\ UNCHANGED schedVars
    BY <2>1 DEF headVars, osVars, tableVars
  <2>3. QED BY <2>1, <2>2, WaitingInv
<1>8. QED BY <1>1, <1>2, <1>3, <1>4, <1>5, <1>6, <1>7 DEF Next

THEOREM ClusterInvariant == Spec => []ClusterInv
BY InitInv, NextInv, PTL DEF Spec

-----------------------------------------------------------------------------
(***************************************************************************)
(* The tasks, objects and arguments the head, the clients and the nodes    *)
(* speak of are tasks that have been submitted (head.py:257-301).          *)
(***************************************************************************)
THEOREM ClusterTypeOK == Spec => []TypeOK
<1>1. ClusterInv => TypeOK
  <2> SUFFICES ASSUME ClusterInv PROVE TypeOK
    OBVIOUS
  <2>1. /\ submitted \subseteq Task /\ args \in [Task -> SeqOf(submitted, MaxArgs)]
        /\ \A k \in Client : refs[k] \subseteq submitted
    BY DEF ClusterInv, TaskInv
  <2>2. ASSUME NEW h \in Handler, NEW i \in DOMAIN stack[h]
        PROVE  stack[h][i].task \in submitted /\ ToSet(stack[h][i].todo) \subseteq submitted
    <3>1. FrameOK(stack[h][i]) BY DEF ClusterInv, StackInv, StackOK
    <3>2. QED BY <3>1, SequenceOver DEF FrameOK
  <2>3. \A k \in Conn : sent[k] \subseteq ThreadsOf(k)
    BY DEF ClusterInv, WireInv, ConnOK
  <2>4. \A p \in Pool : \A e \in ToSet(taskQueue[p]) \cup executing[p] : e[1] \in submitted
    BY DEF ClusterInv, ValueInv, PoolOK, Called, ArgsStored
  <2>5. pending \cup ToSet(ready) \subseteq submitted
    BY DEF ClusterInv, SchedInv, ArgsStored
  <2>6. up \subseteq Node BY DEF ClusterInv, WireInv, WireTypes
  <2>7. QED BY <2>1, <2>2, <2>3, <2>4, <2>5, <2>6 DEF TypeOK
<1>2. QED BY <1>1, ClusterInvariant, PTL

(***************************************************************************)
(* A reply goes to the thread whose request it answers, and a get returns  *)
(* the value of its object (remote_runtime.py:79-83, node.py:127-131).     *)
(***************************************************************************)
THEOREM ClusterRepliesMatch == Spec => []CallersGetTheirReply
<1>1. ClusterInv => CallersGetTheirReply
  <2> SUFFICES ASSUME ClusterInv, NEW k \in Conn, NEW c \in sent[k], outbox[k] # <<>>
               PROVE  /\ Reply(k).cmd \in RepliesTo(wants[k][c].cmd)
                      /\ wants[k][c].task # Nothing => Reply(k).task = wants[k][c].task
                      /\ Reply(k).cmd = "value" => Reply(k).data = store[Reply(k).task]
    BY DEF CallersGetTheirReply
  <2>1. ConnOK(k) BY DEF ClusterInv, WireInv
  <2>2. inbox[k] = <<>> /\ stack[k] = <<>> /\ ReplyOK(Reply(k)) BY <2>1 DEF ConnOK, WireOK
  <2>3. Answers(wants[k][c], Reply(k)) BY <2>1, <2>2 DEF ConnOK, SenderOK
  <2>4. QED BY <2>2, <2>3 DEF Answers, ReplyOK
<1>2. QED BY <1>1, ClusterInvariant, PTL

(***************************************************************************)
(* A task leaves the scheduler with its arguments in the store, so that no *)
(* handler thread sleeps in resolve_args (head.py:240-247, 310-316).       *)
(***************************************************************************)
THEOREM ClusterArgsInStore == Spec => []ReadyArgsInStore
<1>1. ClusterInv => ReadyArgsInStore
  <2> SUFFICES ASSUME ClusterInv PROVE ReadyArgsInStore
    OBVIOUS
  <2>1. \A t \in ToSet(ready) : \A d \in ToSet(args[t]) : Store!contains(d)
    BY DEF ClusterInv, SchedInv, ArgsStored
  <2>2. ASSUME NEW h \in Handler, Resolves(h), NEW d \in ToSet(Top(h).todo)
        PROVE  Store!contains(d)
    <3>1. PICK f : f = Top(h) OBVIOUS
    <3>2. FrameOK(f) /\ f.at \in {"resolveLocal", "resolveReply"}
      BY <2>2, <3>1, AtFrame DEF Resolves, ClusterInv
    <3>3. Partial(f.task, f.todo, f.vals) /\ f.task \in submitted /\ f.todo \in Seq(submitted)
      BY <3>2 DEF FrameOK
    <3>4. PICK i \in 1 .. Len(f.todo) : d = f.todo[i]
      BY <2>2, <3>1, <3>3, SequenceOver DEF ToSet
    <3>5. PICK l \in Nat, m \in Nat, n \in Nat :
              l = Len(args[f.task]) /\ m = Len(f.vals) /\ n = Len(f.todo)
      BY <3>3, Arguments, SequenceOver DEF Partial, IsSequence, ClusterInv
    <3>6. m + i \in 1 .. l /\ d = args[f.task][m + i]
      <4>1. m + n = l /\ i \in 1 .. n BY <3>3, <3>5 DEF Partial
      <4>2. m + i \in 1 .. l BY <4>1, TwoParts
      <4>3. QED BY <3>3, <3>4, <3>5, <4>2 DEF Partial
    <3>7. d \in ToSet(args[f.task])
      BY <3>3, <3>5, <3>6, Arguments DEF ClusterInv
    <3>8. QED BY <3>3, <3>7 DEF Partial, ArgsStored
  <2>3. QED BY <2>1, <2>2 DEF ReadyArgsInStore
<1>2. QED BY <1>1, ClusterInvariant, PTL

(***************************************************************************)
(* As long as a task waits for an object that is in the store, a handler   *)
(* thread is about to announce it: the one that submitted the task or the  *)
(* one that stored the object (head.py:257-301, 340-359).                  *)
(***************************************************************************)
THEOREM ClusterTriggers == Spec => []NoMissedTrigger
<1>1. ClusterInv => NoMissedTrigger BY DEF ClusterInv
<1>2. QED BY <1>1, ClusterInvariant, PTL

-----------------------------------------------------------------------------
(***************************************************************************)
(* The refinement: what the cluster does to the tasks and the store is     *)
(* what Futures promises.                                                  *)
(***************************************************************************)
futures == <<submitted, args, store>>

LEMMA FutureInit == Init => Fut!FutInit
<1> SUFFICES ASSUME Init PROVE Fut!FutInit
  OBVIOUS
<1>1. submitted = {} /\ args = [t \in Task |-> <<>>]
  BY DEF Init, Table!TableInit, Table!Task, Task
<1>2. store = [t \in Task |-> Absent] BY DEF Init, Store!OSInit
<1>3. QED BY <1>1, <1>2 DEF Fut!FutInit, Fut!Task, Task

\* A submit creates the future of the task.
LEMMA FutureSubmit ==
    ASSUME ClusterInv, NEW h, OnSubmitTask(h)
    PROVE  Fut!FutNext
<1> DEFINE m == Head(inbox[h])
<1>1. PICK t, a : t = Cardinality(submitted) + 1 /\ a = m.data /\ Table!register_task(t, a)
  BY DEF OnSubmitTask
<1>2. Receiving(h, "submit_task") /\ UNCHANGED store /\ UNCHANGED clientVars
  BY DEF OnSubmitTask, osVars
<1>3. a \in SeqOf(submitted, MaxArgs) /\ TaskInv
  <2>1. TaskInv /\ m.cmd = "submit_task" /\ \E c \in ThreadsOf(h) : RequestOK(h, c, m)
    BY <1>2, ReceivingFacts
  <2>2. QED BY <1>1, <2>1 DEF RequestOK
<1>4. t \notin submitted BY <1>1, <1>2, <1>3, GrowsSubmit
<1>5. t \in Task /\ submitted' = submitted \cup {t} /\ args'[t] = a
  BY <1>1, <1>2, <1>3, SubmitTasks
<1>6. args' = [args EXCEPT ![t] = args'[t]] BY <1>1, <1>5 DEF Table!register_task
<1>7. Fut!ToSet(a) \subseteq submitted
  <2>1. Fut!ToSet(a) = ToSet(a) BY DEF Fut!ToSet, ToSet
  <2>2. QED BY <1>3, <2>1, BoundedSequence, ClusterAssumption
<1>8. Fut!Create(t) BY <1>2, <1>4, <1>5, <1>6, <1>7 DEF Fut!Create
<1>9. QED BY <1>5, <1>8 DEF Fut!FutNext, Fut!Task, Task

\* A result resolves it, unless it has been resolved already.
LEMMA FuturePut ==
    ASSUME ClusterInv, NEW h, NEW t, NEW v, Computed(t, v),
           Store!PutStore(h, t, v), UNCHANGED <<submitted, args>>
    PROVE  Fut!FutNext \/ UNCHANGED futures
<1>1. ValueInv /\ TaskInv BY DEF ClusterInv
<1>2. /\ t \in submitted /\ t \in Task
      /\ \A d \in ToSet(args[t]) : store[d] # Absent
      /\ v = Outcome(t, [i \in DOMAIN args[t] |-> store[args[t][i]]])
  BY <1>1 DEF Computed, ArgsStored, ArgValues, TaskInv, Store!contains
<1>3. store' = [store EXCEPT ![t] = v] BY DEF Store!PutStore
<1>4. CASE store[t] = Absent
  <2>1. Fut!ToSet(args[t]) = ToSet(args[t]) BY DEF Fut!ToSet, ToSet
  <2>2. \A vals : Fut!Outcome(t, vals) = Outcome(t, vals) BY DEF Fut!Outcome, Outcome
  <2>3. Fut!Resolve(t) BY <1>2, <1>3, <1>4, <2>1, <2>2 DEF Fut!Resolve
  <2>4. QED BY <1>2, <2>3 DEF Fut!FutNext, Fut!Task, Task
<1>5. CASE store[t] # Absent
  <2>1. store[t] = v BY <1>1, <1>2, <1>5 DEF ValueInv, Computed, ArgValues, Store!contains
  <2>2. store' = store BY <1>1, <1>3, <2>1 DEF ValueInv
  <2>3. QED BY <2>2 DEF futures
<1>6. QED BY <1>4, <1>5

LEMMA FutureHead ==
    ASSUME ClusterInv, NEW h \in Handler, HeadStep(h)
    PROVE  Fut!FutNext \/ UNCHANGED futures
<1>1. CASE OnSubmitTask(h) BY <1>1, FutureSubmit
<1>2. CASE OnTaskResult(h)
  <2> DEFINE m == Head(inbox[h])
  <2>1. /\ Receiving(h, "task_result") /\ UNCHANGED <<submitted, args>>
        /\ Store!PutStore(h, m.task, m.data)
    BY <1>2 DEF OnTaskResult, tableVars
  <2>2. m.cmd = "task_result" /\ \E c \in ThreadsOf(h) : RequestOK(h, c, m)
    BY <2>1, ReceivingFacts
  <2>3. Computed(m.task, m.data) BY <2>2 DEF RequestOK
  <2>4. QED BY <2>1, <2>3, FuturePut
<1>3. CASE OnGetObject(h) BY <1>3 DEF OnGetObject, osVars, tableVars, futures
<1>4. CASE OnContainsObject(h)
  BY <1>4 DEF OnContainsObject, headVars, osVars, tableVars, futures
<1>5. CASE OnPollEmpty(h)
  BY <1>5 DEF OnPollEmpty, headVars, osVars, tableVars, futures
<1>6. CASE OnPollTask(h) BY <1>6 DEF OnPollTask, osVars, tableVars, futures
<1>7. CASE SetEvent(h) BY <1>7 DEF SetEvent, Store!PutSignal, tableVars, futures
<1>8. CASE Finished(h) BY <1>8 DEF Finished, Table!Record, osVars, futures
<1>9. CASE Failed(h) BY <1>9 DEF Failed, Table!Record, osVars, futures
<1>10. CASE Recheck(h) \/ Announce(h) \/ FlushNext(h) \/ FlushDone(h)
  BY <1>10 DEF Recheck, Announce, FlushNext, FlushDone, osVars, restVars, tableVars, futures
<1>11. CASE Block(h) BY <1>11 DEF Block, Store!StartWait, restVars, tableVars, futures
<1>12. CASE ResolveArg(h)
  <2>1. UNCHANGED store BY <1>12, GotFacts DEF ResolveArg
  <2>2. QED BY <1>12, <2>1 DEF ResolveArg, restVars, tableVars, futures
<1>13. CASE QueueLocal(h) BY <1>13 DEF QueueLocal, osVars, tableVars, futures
<1>14. CASE ReplyTask(h) BY <1>14 DEF ReplyTask, SendReply, osVars, tableVars, futures
<1>15. CASE ReplyValue(h)
  <2>1. UNCHANGED store BY <1>15, GotFacts DEF ReplyValue
  <2>2. QED BY <1>15, <2>1 DEF ReplyValue, SendReply, tableVars, futures
<1>16. CASE ReplyDone(h) BY <1>16 DEF ReplyDone, SendReply, osVars, tableVars, futures
<1>17. QED
  BY <1>1, <1>2, <1>3, <1>4, <1>5, <1>6, <1>7, <1>8, <1>9, <1>10, <1>11, <1>12, <1>13,
     <1>14, <1>15, <1>16 DEF HeadStep, Dispatch

LEMMA FutureNext ==
    ASSUME ClusterInv, [Next]_vars
    PROVE  [Fut!FutNext]_futures
<1>1. ASSUME NEW h \in Handler, HeadStep(h) PROVE [Fut!FutNext]_futures
  BY <1>1, FutureHead
<1>2. CASE CollectLocal
  <2>1. /\ UNCHANGED <<submitted, args>> /\ HasLocal /\ results[Local] # <<>>
        /\ Store!PutStore(Local, Head(results[Local])[1], Head(results[Local])[2])
    BY <1>2 DEF CollectLocal, tableVars
  <2>2. PoolOK(Local) BY <2>1 DEF ClusterInv, ValueInv, Pool
  <2>3. Head(results[Local]) \in ToSet(results[Local])
    BY <2>1, <2>2, TailSequence DEF PoolOK
  <2>4. Computed(Head(results[Local])[1], Head(results[Local])[2])
    BY <2>2, <2>3 DEF PoolOK
  <2>5. QED BY <2>1, <2>4, FuturePut
<1>3. ASSUME UNCHANGED headVars PROVE [Fut!FutNext]_futures
  BY <1>3 DEF headVars, osVars, tableVars, futures
<1>4. ASSUME NEW k \in Conn, NEW c \in ThreadsOf(k), Send(k, c) PROVE UNCHANGED headVars
  BY <1>4 DEF Send
<1>5. ASSUME NEW k \in Client, NEW u \in User, UserCalls(k, u) \/ UserReturn(k, u)
      PROVE  UNCHANGED headVars
  BY <1>5 DEF UserCalls, UserCall, UserReturn, Receive
<1>6. ASSUME NEW n \in Node, NodeReturn(n) \/ TakeResult(n) \/ Stop(n)
      PROVE  UNCHANGED headVars
  BY <1>6 DEF NodeReturn, PollReturn, ReportReturn, Receive, TakeResult, Stop
<1>7. ASSUME NEW p \in Pool, PoolStep(p) PROVE UNCHANGED headVars
  BY <1>7 DEF PoolStep, StartTask, FinishTask
<1>8. CASE UNCHANGED vars BY <1>3, <1>8 DEF vars
<1>9. QED BY <1>1, <1>2, <1>3, <1>4, <1>5, <1>6, <1>7, <1>8 DEF Next

(***************************************************************************)
(* An ObjectRef is a future, wherever its task is executed and whatever    *)
(* stops: it is created by one submit_task, with arguments created before  *)
(* it, and is resolved once, to what its function makes of their values    *)
(* (head.py:257-301, 340-359).                                             *)
(***************************************************************************)
THEOREM ClusterFutures == Spec => FuturesSafety
<1>1. ClusterInv /\ [Next]_vars => [Fut!FutNext]_(Fut!futVars)
  BY FutureNext DEF futures, Fut!futVars
<1>2. QED BY <1>1, FutureInit, ClusterInvariant, PTL DEF Spec, FuturesSafety, Fut!FutSafety
-----------------------------------------------------------------------------
(***************************************************************************)
(* Where a task is.  OneCopy counts its places; here a place is a kind and *)
(* the handler, node or pool it belongs to, and what is in it twice is the *)
(* matter of OnceEach.                                                     *)
(***************************************************************************)
OnHead(h, t) == h \in Handler /\ Resolves(h) /\ Top(h).task = t

InReply(n, t) ==
    n \in Node /\ outbox[n] # <<>> /\ Reply(n).cmd = "task" /\ Reply(n).task = t

InReport(n, t) ==
    /\ n \in Node /\ inbox[n] # <<>>
    /\ Head(inbox[n]).cmd = "task_result" /\ Head(inbox[n]).task = t

AtReporter(n, t) ==
    /\ n \in Node /\ wants[n]["reporter"] # NoRequest
    /\ wants[n]["reporter"].task = t /\ "reporter" \notin sent[n]

Holds(q, t) == \E e \in ToSet(q) : e[1] = t
InQueue(p, t) == p \in Pool /\ Holds(taskQueue[p], t)
AtWorker(p, t) == p \in Pool /\ \E e \in executing[p] : e[1] = t
InResults(p, t) == p \in Pool /\ Holds(results[p], t)

In(kind, x, t) ==
    \/ kind = "scheduler" /\ x = Nothing /\ t \in pending
    \/ kind = "ready" /\ x = Nothing /\ t \in ToSet(ready)
    \/ kind = "head" /\ OnHead(x, t)
    \/ kind = "store" /\ x = Nothing /\ t \in Task /\ Store!contains(t)
    \/ kind = "polled" /\ InReply(x, t)
    \/ kind = "reported" /\ InReport(x, t)
    \/ kind = "reporter" /\ AtReporter(x, t)
    \/ kind = "queue" /\ InQueue(x, t)
    \/ kind = "worker" /\ AtWorker(x, t)
    \/ kind = "result" /\ InResults(x, t)

\* A task is in one place, ...
Alone ==
    \A t, k, x, l, y : In(k, x, t) /\ In(l, y, t) => k = l /\ x = y

\* ... in some place unless a node has stopped, ...
NoneLost == up = Node => \A t \in submitted : \E k, x : In(k, x, t)

\* ... and there once.
Distinct(q) == \A i, j \in DOMAIN q : q[i][1] = q[j][1] => i = j

OnceEach ==
    /\ IsInjective(ready)
    /\ \A p \in Pool :
          /\ Distinct(taskQueue[p]) /\ Distinct(results[p])
          /\ \A e, f \in executing[p] : e[1] = f[1] => e = f

OneInv == Alone /\ NoneLost /\ OnceEach

\* A task that is somewhere has been submitted.
LEMMA InSubmitted ==
    ASSUME ClusterInv, NEW k, NEW x, NEW t, In(k, x, t)
    PROVE  t \in submitted
<1>1. CASE t \in pending \/ t \in ToSet(ready)
  BY <1>1, SequenceOver DEF ClusterInv, SchedInv
<1>2. CASE t \in Task /\ Store!contains(t)
  BY <1>2 DEF ClusterInv, ValueInv, Computed, ArgsStored
<1>3. CASE OnHead(x, t)
  <2>1. stack[x] # <<>> BY <1>3 DEF OnHead, Resolves, At
  <2>2. QED BY <1>3, <2>1, TopFrame DEF OnHead, ClusterInv, FrameOK
<1>4. CASE InReply(x, t)
  BY <1>4 DEF InReply, ClusterInv, WireInv, ConnOK, WireOK, ReplyOK, Called, ArgsStored, Conn
<1>5. CASE InReport(x, t)
  <2>1. PICK c \in ThreadsOf(x) : RequestOK(x, c, Head(inbox[x]))
    BY <1>5 DEF InReport, ClusterInv, WireInv, ConnOK, WireOK, Conn
  <2>2. QED BY <1>5, <2>1 DEF InReport, RequestOK, Computed, ArgsStored
<1>6. CASE AtReporter(x, t)
  <2>1. RequestOK(x, "reporter", wants[x]["reporter"])
    BY <1>6 DEF AtReporter, ClusterInv, WireInv, ConnOK, Conn, ThreadsOf
  <2>2. x \notin Client BY <1>6, ClusterAssumption DEF AtReporter
  <2>3. wants[x]["reporter"].cmd = "task_result"
    BY <1>6, <2>1, <2>2 DEF AtReporter, RequestOK, CommandsOf
  <2>4. QED BY <1>6, <2>1, <2>3 DEF AtReporter, RequestOK, Computed, ArgsStored
<1>7. CASE InQueue(x, t) \/ AtWorker(x, t) \/ InResults(x, t)
  BY <1>7 DEF InQueue, AtWorker, InResults, Holds, ClusterInv, ValueInv, PoolOK,
              Called, Computed, ArgsStored
<1>8. QED BY <1>1, <1>2, <1>3, <1>4, <1>5, <1>6, <1>7 DEF In

(***************************************************************************)
(* The ways a step may disturb this: not at all, by taking a task from one *)
(* place to another, or by losing what a stopped node had.                 *)
(***************************************************************************)
LEMMA Unmoved ==
    ASSUME Alone, NoneLost, UNCHANGED submitted, up' = Node => up = Node,
           \A k, x, t : In(k, x, t)' <=> In(k, x, t)
    PROVE  Alone' /\ NoneLost'
BY DEF Alone, NoneLost

LEMMA Moved ==
    ASSUME Alone, NoneLost, UNCHANGED submitted, up' = Node => up = Node,
           NEW s, NEW k0, NEW x0, NEW k1, NEW x1, In(k0, x0, s),
           \A k, x, t : In(k, x, t)' <=> \/ In(k, x, t) /\ ~ (k = k0 /\ x = x0 /\ t = s)
                                         \/ k = k1 /\ x = x1 /\ t = s
    PROVE  Alone' /\ NoneLost'
<1>1. Alone'
  <2> SUFFICES ASSUME NEW t, NEW k, NEW x, NEW l, NEW y, In(k, x, t)', In(l, y, t)'
               PROVE  k = l /\ x = y
    BY DEF Alone
  <2>1. CASE t = s BY <2>1 DEF Alone
  <2>2. CASE t # s
    <3>1. In(k, x, t) /\ In(l, y, t) BY <2>2
    <3>2. QED BY <3>1 DEF Alone
  <2>3. QED BY <2>1, <2>2
<1>2. NoneLost'
  <2> SUFFICES ASSUME up' = Node, NEW t \in submitted'
               PROVE  \E k, x : In(k, x, t)'
    BY DEF NoneLost
  <2>1. CASE t = s
    <3>1. In(k1, x1, t)' BY <2>1
    <3>2. QED BY <3>1
  <2>2. CASE t # s
    <3>1. PICK k, x : In(k, x, t) BY DEF NoneLost
    <3>2. In(k, x, t)' BY <2>2, <3>1
    <3>3. QED BY <3>2
  <2>3. QED BY <2>1, <2>2
<1>3. QED BY <1>1, <1>2

LEMMA Lost ==
    ASSUME Alone, up' # Node, \A k, x, t : In(k, x, t)' => In(k, x, t)
    PROVE  Alone' /\ NoneLost'
<1>1. Alone' BY DEF Alone
<1>2. QED BY <1>1 DEF NoneLost

\* What is kept in variables that do not change is where it was.
LEMMA StaysIn ==
    /\ UNCHANGED stack => \A x, t : OnHead(x, t)' <=> OnHead(x, t)
    /\ UNCHANGED store => \A t : Store!contains(t)' <=> Store!contains(t)
    /\ UNCHANGED outbox => \A x, t : InReply(x, t)' <=> InReply(x, t)
    /\ UNCHANGED inbox => \A x, t : InReport(x, t)' <=> InReport(x, t)
    /\ UNCHANGED <<wants, sent>> => \A x, t : AtReporter(x, t)' <=> AtReporter(x, t)
    /\ UNCHANGED taskQueue => \A x, t : InQueue(x, t)' <=> InQueue(x, t)
    /\ UNCHANGED executing => \A x, t : AtWorker(x, t)' <=> AtWorker(x, t)
    /\ UNCHANGED results => \A x, t : InResults(x, t)' <=> InResults(x, t)
BY DEF OnHead, Resolves, At, Top, Store!contains, InReply, Reply, InReport, AtReporter,
       InQueue, AtWorker, InResults, Holds

LEMMA StaysOnce ==
    ASSUME OnceEach, UNCHANGED <<ready, taskQueue, executing, results>>
    PROVE  OnceEach'
BY DEF OnceEach, Distinct

\* A queue grows and shrinks.
LEMMA AppendDistinct ==
    ASSUME NEW q, IsSequence(q), NEW e, Distinct(q), ~ Holds(q, e[1])
    PROVE  Distinct(Append(q, e))
<1> DEFINE r == Append(q, e)
<1>1. PICK n \in Nat : n = Len(q) BY SequenceOver DEF IsSequence
<1>2. /\ DOMAIN q = 1 .. n /\ DOMAIN r = 1 .. n + 1
      /\ \A i \in 1 .. n : r[i] = q[i] /\ q[i] \in ToSet(q)
      /\ r[n + 1] = e
  BY <1>1, AppendSequence, SequenceOver DEF IsSequence, ToSet
<1>3. \A i \in 1 .. n : q[i][1] # e[1] BY <1>2 DEF Holds
<1>4. \A i \in 1 .. n + 1 : i \in 1 .. n \/ i = n + 1 OBVIOUS
<1> HIDE DEF r
<1>5. QED BY <1>2, <1>3, <1>4 DEF Distinct, r

LEMMA TailDistinct ==
    ASSUME NEW q, IsSequence(q), q # <<>>, Distinct(q)
    PROVE  /\ Distinct(Tail(q))
           /\ \A t : Holds(Tail(q), t) <=> Holds(q, t) /\ t # Head(q)[1]
           /\ Holds(q, Head(q)[1])
<1> DEFINE r == Tail(q)
<1>1. PICK n \in Nat : n = Len(q) /\ n >= 1 BY TailSequence
<1>2. /\ DOMAIN q = 1 .. n /\ DOMAIN r = 1 .. n - 1
      /\ \A i \in 1 .. n - 1 : r[i] = q[i + 1] /\ i + 1 \in 1 .. n
      /\ Head(q) = q[1] /\ 1 \in 1 .. n
      /\ ToSet(q) = {Head(q)} \cup ToSet(r)
  BY <1>1, TailSequence, SequenceOver DEF IsSequence
<1>3. \A i, j \in 1 .. n - 1 : i + 1 = j + 1 => i = j OBVIOUS
<1>4. \A i \in 1 .. n - 1 : i + 1 # 1 OBVIOUS
<1>5. Distinct(r) BY <1>2, <1>3 DEF Distinct
<1>6. ~ Holds(r, Head(q)[1])
  <2>1. \A i \in 1 .. n - 1 : r[i][1] # q[1][1] BY <1>2, <1>4 DEF Distinct
  <2>2. QED BY <1>2, <2>1 DEF Holds, ToSet
<1>7. \A t : Holds(q, t) <=> Holds(r, t) \/ t = Head(q)[1] BY <1>2 DEF Holds
<1>8. QED BY <1>5, <1>6, <1>7

LEMMA AppendHolds ==
    ASSUME NEW q, IsSequence(q), NEW e
    PROVE  \A t : Holds(Append(q, e), t) <=> Holds(q, t) \/ t = e[1]
BY AppendSequence DEF Holds
-----------------------------------------------------------------------------
\* A call goes on, is entered or returns.
LEMMA OtherHandlers ==
    ASSUME StackInv, NEW h, stack' = [stack EXCEPT ![h] = stack'[h]]
    PROVE  \A x, t : x # h => (OnHead(x, t)' <=> OnHead(x, t))
BY DEF OnHead, Resolves, At, Top, StackInv

LEMMA NowOnHead ==
    ASSUME StackInv, NEW h \in Handler, NEW f, stack'[h] # <<>>, stack'[h][1] = f,
           stack' = [stack EXCEPT ![h] = stack'[h]]
    PROVE  \A x, t : OnHead(x, t)' <=>
               \/ x # h /\ OnHead(x, t)
               \/ x = h /\ f.at \in {"resolveLocal", "resolveReply"} /\ f.task = t
<1>1. \A t : OnHead(h, t)' <=> f.at \in {"resolveLocal", "resolveReply"} /\ f.task = t
  BY DEF OnHead, Resolves, At, Top
<1>2. QED BY <1>1, OtherHandlers

LEMMA ReturnOnHead ==
    ASSUME StackInv, NEW h \in Handler, stack[h] # <<>>, Return(h)
    PROVE  \A x, t : OnHead(x, t)' <=> x # h /\ OnHead(x, t)
<1>1. StackOK(h) /\ stack'[h] = Tail(stack[h]) /\ stack' = [stack EXCEPT ![h] = stack'[h]]
  BY DEF StackInv, Return
<1>2. ASSUME stack'[h] # <<>> PROVE stack'[h][1].at \notin {"resolveLocal", "resolveReply"}
  <2> DEFINE s == stack[h]
             n == Len(s)
  <2>1. /\ IsSequence(s) /\ n \in Nat /\ DOMAIN s = 1 .. n
        /\ IsSequence(Tail(s)) /\ Len(Tail(s)) = n - 1
        /\ \A i \in 1 .. n - 1 : Tail(s)[i] = s[i + 1]
    BY <1>1, TailSequence, SequenceOver DEF StackOK, IsSequence
  <2>2. n - 1 \in Nat /\ n - 1 >= 1 BY <1>1, <1>2, <2>1, TailSequence
  <2>3. 1 \in 1 .. n - 1 /\ 1 + 1 \in 1 .. n /\ 1 + 1 # 1 BY <2>1, <2>2
  <2>4. stack'[h][1] = stack[h][1 + 1] BY <1>1, <2>1, <2>3
  <2>5. stack[h][1 + 1].at \notin {"resolveLocal", "resolveReply"}
    BY <1>1, <2>1, <2>3 DEF StackOK
  <2>6. QED BY <2>4, <2>5
<1>3. \A t : ~ OnHead(h, t)' BY <1>2 DEF OnHead, Resolves, At, Top
<1>4. QED BY <1>1, <1>3, OtherHandlers

\* Where a call is that does not resolve arguments.
LEMMA NotOnHead ==
    ASSUME NEW h, stack[h] = <<>> \/ Top(h).at \notin {"resolveLocal", "resolveReply"}
    PROVE  \A t : ~ OnHead(h, t)
BY DEF OnHead, Resolves, At

\* A request is read, and a reply written.
LEMMA ReadReport ==
    ASSUME ClusterInv, NEW h, NEW cmd, Receiving(h, cmd)
    PROVE  /\ \A x, t : InReport(x, t)' <=> InReport(x, t) /\ x # h
           /\ \A t : InReport(h, t) => cmd = "task_result" /\ t = Head(inbox[h]).task
<1>1. /\ h \in Conn /\ inbox' = [inbox EXCEPT ![h] = inbox'[h]] /\ inbox'[h] = <<>>
      /\ Head(inbox[h]).cmd = cmd /\ WireTypes
  BY ReceivingFacts
<1>2. QED BY <1>1 DEF InReport, WireTypes, Conn

LEMMA WrittenReply ==
    ASSUME ClusterInv, NEW h \in Conn, outbox[h] = <<>>, NEW msg, Answer(h, msg)
    PROVE  \A x, t : InReply(x, t)' <=>
               \/ InReply(x, t)
               \/ x = h /\ h \in up /\ msg.cmd = "task" /\ msg.task = t
<1>1. outbox = [k \in Conn |-> outbox[k]] /\ up \subseteq Node /\ Node \subseteq Conn
  BY DEF ClusterInv, WireInv, WireTypes, Conn
<1>2. CASE h \in Node \ up
  BY <1>2 DEF Answer, InReply, Reply
<1>3. CASE h \notin Node \ up
  <2>1. outbox' = [outbox EXCEPT ![h] = <<msg>>]
    <3>1. Append(outbox[h], msg) = <<msg>> BY OneElement
    <3>2. QED BY <1>3, <3>1 DEF Answer
  <2>2. outbox'[h] = <<msg>> /\ \A x \in Node : x # h => outbox'[x] = outbox[x]
    BY <1>1, <2>1
  <2>3. <<msg>> # <<>> /\ Head(<<msg>>) = msg BY OneElement
  <2>4. QED BY <1>1, <1>3, <2>2, <2>3 DEF InReply, Reply
<1>4. QED BY <1>2, <1>3

\* The handler that replies.
LEMMA ReplyingFacts ==
    ASSUME ClusterInv, NEW h \in Handler, stack[h] # <<>>, Top(h).at \in Replying
    PROVE  h \in Conn /\ outbox[h] = <<>>
<1>1. h \in Conn BY TopFrame DEF ClusterInv
<1>2. QED BY <1>1 DEF ClusterInv, WireInv, ConnOK, WireOK
-----------------------------------------------------------------------------
(***************************************************************************)
(* The steps that move no task.                                            *)
(***************************************************************************)
LEMMA QuietHandler ==
    ASSUME OneInv, UNCHANGED <<store, submitted, pending, ready, wants, sent, up>>,
           UNCHANGED poolVars,
           \A x, t : OnHead(x, t)' <=> OnHead(x, t),
           \A x, t : InReply(x, t)' <=> InReply(x, t),
           \A x, t : InReport(x, t)' <=> InReport(x, t)
    PROVE  OneInv'
<1>1. \A k, x, t : In(k, x, t)' <=> In(k, x, t)
  BY StaysIn DEF In, poolVars
<1>2. OnceEach' BY StaysOnce DEF OneInv, poolVars
<1>3. QED BY <1>1, <1>2, Unmoved DEF OneInv

LEMMA GetObjectOne ==
    ASSUME ClusterInv, OneInv, NEW h, OnGetObject(h)
    PROVE  OneInv'
<1>1. PICK f : f = Frame("get", Head(inbox[h]).task, <<>>) OBVIOUS
<1>2. /\ Receiving(h, "get_object") /\ Enter(h, <<f>>)
      /\ UNCHANGED <<store, submitted, pending, ready, outbox>> /\ UNCHANGED poolVars
  BY <1>1 DEF OnGetObject, osVars, schedVars, tableVars
<1>3. /\ h \in Handler /\ UNCHANGED <<wants, sent, up>> /\ StackInv /\ stack[h] = <<>>
  BY <1>2, ReceivingFacts DEF ClusterInv
<1>4. \A x, t : InReport(x, t)' <=> InReport(x, t)
  BY <1>2, ReadReport
<1>5. \A x, t : OnHead(x, t)' <=> OnHead(x, t)
  <2>1. /\ stack'[h] # <<>> /\ stack'[h][1] = f
        /\ stack' = [stack EXCEPT ![h] = stack'[h]]
    BY <1>2, <1>3, OneElement DEF Enter, StackInv
  <2>2. f.at = "get" BY <1>1 DEF Frame
  <2>3. QED BY <1>3, <2>1, <2>2, NowOnHead, NotOnHead
<1>6. QED BY <1>2, <1>3, <1>4, <1>5, QuietHandler, StaysIn

LEMMA AnswerOne ==
    ASSUME ClusterInv, OneInv, NEW h, NEW cmd, Receiving(h, cmd), cmd # "task_result",
           NEW msg, Answer(h, msg), msg.cmd # "task",
           UNCHANGED headVars, UNCHANGED poolVars
    PROVE  OneInv'
<1>1. /\ h \in Conn /\ UNCHANGED <<wants, sent, up>> /\ outbox[h] = <<>>
  BY ReceivingFacts
<1>2. \A x, t : InReport(x, t)' <=> InReport(x, t) BY ReadReport
<1>3. \A x, t : InReply(x, t)' <=> InReply(x, t) BY <1>1, WrittenReply
<1>4. UNCHANGED <<store, submitted, pending, ready, stack>>
  BY DEF headVars, osVars, schedVars, tableVars
<1>5. QED BY <1>1, <1>2, <1>3, <1>4, QuietHandler, StaysIn

LEMMA ReturningOne ==
    ASSUME ClusterInv, OneInv, NEW h \in Handler, stack[h] # <<>>, Return(h),
           Top(h).at \notin {"resolveLocal", "resolveReply"},
           UNCHANGED <<store, submitted, pending, ready, wants, sent, inbox, up>>,
           UNCHANGED poolVars,
           \A x, t : InReply(x, t)' <=> InReply(x, t)
    PROVE  OneInv'
<1>1. \A x, t : OnHead(x, t)' <=> OnHead(x, t)
  BY ReturnOnHead, NotOnHead DEF ClusterInv
<1>2. QED BY <1>1, QuietHandler, StaysIn

LEMMA GotoOnHead ==
    ASSUME ClusterInv, NEW h \in Handler, stack[h] # <<>>, NEW f, Goto(h, f),
           \/ f.at = Top(h).at /\ f.task = Top(h).task
           \/ {f.at, Top(h).at} \cap {"resolveLocal", "resolveReply"} = {}
    PROVE  \A x, t : OnHead(x, t)' <=> OnHead(x, t)
<1>1. StackInv /\ StackOK(h) BY DEF ClusterInv, StackInv
<1>2. /\ stack'[h] # <<>> /\ stack'[h][1] = f /\ stack' = [stack EXCEPT ![h] = stack'[h]]
  <2>1. IsSequence(Tail(stack[h])) BY <1>1, TailSequence DEF StackOK
  <2>2. stack'[h] = <<f>> \o Tail(stack[h]) /\ stack' = [stack EXCEPT ![h] = stack'[h]]
    BY <1>1 DEF Goto, StackInv
  <2>3. QED BY <2>1, <2>2, PushSequence
<1>3. \A t : OnHead(h, t) <=>
          Top(h).at \in {"resolveLocal", "resolveReply"} /\ Top(h).task = t
  BY DEF OnHead, Resolves, At
<1>4. \A x, t : OnHead(x, t)' <=>
          \/ x # h /\ OnHead(x, t)
          \/ x = h /\ f.at \in {"resolveLocal", "resolveReply"} /\ f.task = t
  BY <1>1, <1>2, NowOnHead
<1>5. QED BY <1>3, <1>4

LEMMA GoingOne ==
    ASSUME ClusterInv, OneInv, NEW h \in Handler, stack[h] # <<>>, NEW f, Goto(h, f),
           \/ f.at = Top(h).at /\ f.task = Top(h).task
           \/ {f.at, Top(h).at} \cap {"resolveLocal", "resolveReply"} = {},
           UNCHANGED <<store, submitted, pending, ready>>, UNCHANGED connVars,
           UNCHANGED poolVars
    PROVE  OneInv'
BY GotoOnHead, QuietHandler, StaysIn DEF connVars

LEMMA BlockOne ==
    ASSUME ClusterInv, OneInv, NEW h \in Handler, SetEvent(h) \/ Block(h)
    PROVE  OneInv'
<1>1. UNCHANGED <<store, submitted, pending, ready, stack, wants, sent, inbox, outbox, up>>
      /\ UNCHANGED poolVars
  BY DEF SetEvent, Block, Store!PutSignal, Store!StartWait, schedVars, tableVars,
         connVars, restVars
<1>2. QED BY <1>1, QuietHandler, StaysIn

LEMMA RecheckOne ==
    ASSUME ClusterInv, OneInv, NEW h \in Handler, Recheck(h)
    PROVE  OneInv'
<1>1. PICK f : /\ Goto(h, f)
               /\ f = IF Store!contains(NextArg(h))
                      THEN [Top(h) EXCEPT !.at = "announce"]
                      ELSE Submitting(Top(h).task, Tail(Top(h).todo))
  BY DEF Recheck
<1>2. /\ stack[h] # <<>> /\ Top(h).at = "recheck" /\ FrameOK(Top(h))
      /\ UNCHANGED <<store, submitted, pending, ready>> /\ UNCHANGED connVars
      /\ UNCHANGED poolVars
  BY AtFrame DEF Recheck, ClusterInv, osVars, schedVars, restVars, tableVars
<1>3. f.at \in {"announce", "flush", "recheck"}
  BY <1>1, <1>2 DEF Submitting, Frame, FrameOK
<1>4. QED BY <1>1, <1>2, <1>3, GoingOne

LEMMA ResolveArgOne ==
    ASSUME ClusterInv, OneInv, NEW h \in Handler, ResolveArg(h)
    PROVE  OneInv'
<1>1. PICK f : f = Resolved(Top(h), store[NextArg(h)]) /\ Goto(h, f)
  BY DEF ResolveArg
<1>2. /\ Resolves(h) /\ Top(h).todo # <<>> /\ UNCHANGED store /\ stack[h] # <<>>
      /\ UNCHANGED <<submitted, pending, ready>> /\ UNCHANGED connVars
      /\ UNCHANGED poolVars
  BY GotFacts DEF ResolveArg, schedVars, restVars, tableVars, Resolves, At
<1>3. FrameOK(Top(h)) /\ Top(h).at \in {"resolveLocal", "resolveReply"}
  BY <1>2, TopFrame DEF ClusterInv, Resolves, At
<1>4. f.at = Top(h).at /\ f.task = Top(h).task
  BY <1>1, <1>2, <1>3, ResolvedFrame DEF ClusterInv, NextArg
<1>5. QED BY <1>1, <1>2, <1>4, GoingOne

LEMMA FlushDoneOne ==
    ASSUME ClusterInv, OneInv, NEW h \in Handler, FlushDone(h) \/ Failed(h)
    PROVE  OneInv'
<1>1. /\ stack[h] # <<>> /\ Top(h).at \in {"flush", "failed"} /\ Return(h)
      /\ UNCHANGED <<store, submitted, pending, ready, wants, sent, inbox, outbox, up>>
      /\ UNCHANGED poolVars
  BY DEF FlushDone, Failed, At, osVars, schedVars, restVars, tableVars, connVars,
         Table!Record
<1>2. QED BY <1>1, ReturningOne, StaysIn

LEMMA SendReplyOne ==
    ASSUME ClusterInv, OneInv, NEW h \in Handler, ReplyValue(h) \/ ReplyDone(h)
    PROVE  OneInv'
<1>1. PICK msg : /\ SendReply(h, msg) /\ msg.cmd \in {"value", "object_id", "ack"}
                 /\ stack[h] # <<>> /\ Top(h).at \in {"get", "object_id", "ack"}
  <2>1. CASE ReplyValue(h)
    <3>1. PICK msg : msg = Msg("value", Top(h).task, store[Top(h).task]) OBVIOUS
    <3>2. SendReply(h, msg) BY <2>1, <3>1 DEF ReplyValue
    <3>3. QED BY <2>1, <3>1, <3>2 DEF ReplyValue, At, Msg
  <2>2. CASE ReplyDone(h)
    <3>1. PICK cmd \in {"object_id", "ack"} :
              At(h, cmd) /\ SendReply(h, Msg(cmd, Top(h).task, Nothing))
      BY <2>2 DEF ReplyDone
    <3>2. Msg(cmd, Top(h).task, Nothing).cmd = cmd BY DEF Msg
    <3>3. QED BY <3>1, <3>2 DEF At
  <2>3. QED BY <2>1, <2>2
<1>2. /\ Answer(h, msg) /\ Return(h) /\ UNCHANGED store
      /\ UNCHANGED <<submitted, pending, ready, wants, sent, inbox, up>>
      /\ UNCHANGED poolVars
  BY <1>1, GotFacts DEF SendReply, ReplyValue, ReplyDone, osVars, schedVars, tableVars
<1>3. \A x, t : InReply(x, t)' <=> InReply(x, t)
  BY <1>1, <1>2, ReplyingFacts, WrittenReply DEF Replying
<1>4. QED BY <1>1, <1>2, <1>3, ReturningOne

\* The threads of a client have nothing to do with where a task is.
LEMMA UserOne ==
    ASSUME ClusterInv, OneInv, NEW k \in Client, NEW u \in User,
           UserCalls(k, u) \/ UserReturn(k, u) \/ Send(k, u)
    PROVE  OneInv'
<1>1. k \notin Node /\ Node \subseteq Conn /\ WireTypes
  BY ClusterAssumption DEF Conn, ClusterInv, WireInv
<1>2. \A n \in Node : /\ wants'[n] = wants[n] /\ sent'[n] = sent[n]
                      /\ inbox'[n] = inbox[n] /\ outbox'[n] = outbox[n]
  BY <1>1 DEF UserCalls, UserCall, UserReturn, Receive, Send, WireTypes
<1>3. /\ \A x, t : InReply(x, t)' <=> InReply(x, t)
      /\ \A x, t : InReport(x, t)' <=> InReport(x, t)
      /\ \A x, t : AtReporter(x, t)' <=> AtReporter(x, t)
  BY <1>2 DEF InReply, Reply, InReport, AtReporter
<1>4. UNCHANGED headVars /\ UNCHANGED poolVars /\ UNCHANGED up
  BY DEF UserCalls, UserCall, UserReturn, Receive, Send, poolVars
<1>5. UNCHANGED <<store, submitted, pending, ready, stack>>
  BY <1>4 DEF headVars, osVars, schedVars, tableVars
<1>6. \A x, j, t : In(j, x, t)' <=> In(j, x, t)
  BY <1>3, <1>4, <1>5, StaysIn DEF In, poolVars
<1>7. QED BY <1>4, <1>5, <1>6, Unmoved, StaysOnce DEF OneInv, poolVars
-----------------------------------------------------------------------------
(***************************************************************************)
(* The steps of a node, and of a pool of workers.                          *)
(***************************************************************************)
\* The other nodes and pools.
LEMMA OtherNodes ==
    ASSUME ClusterInv, NEW n
    PROVE  /\ wants' = [wants EXCEPT ![n] = wants'[n]] /\ sent' = [sent EXCEPT ![n] = sent'[n]] =>
                 \A x, t : x # n => (AtReporter(x, t)' <=> AtReporter(x, t))
           /\ inbox' = [inbox EXCEPT ![n] = inbox'[n]] =>
                 \A x, t : x # n => (InReport(x, t)' <=> InReport(x, t))
           /\ outbox' = [outbox EXCEPT ![n] = outbox'[n]] =>
                 \A x, t : x # n => (InReply(x, t)' <=> InReply(x, t))
           /\ taskQueue' = [taskQueue EXCEPT ![n] = taskQueue'[n]] =>
                 \A x, t : x # n => (InQueue(x, t)' <=> InQueue(x, t))
           /\ executing' = [executing EXCEPT ![n] = executing'[n]] =>
                 \A x, t : x # n => (AtWorker(x, t)' <=> AtWorker(x, t))
           /\ results' = [results EXCEPT ![n] = results'[n]] =>
                 \A x, t : x # n => (InResults(x, t)' <=> InResults(x, t))
BY DEF ClusterInv, WireInv, WireTypes, ValueInv, Conn, AtReporter, InReport, InReply, Reply,
       InQueue, AtWorker, InResults, Holds

LEMMA OncePool ==
    ASSUME ClusterInv, OnceEach, NEW p, IsInjective(ready)',
           taskQueue' = [taskQueue EXCEPT ![p] = taskQueue'[p]],
           executing' = [executing EXCEPT ![p] = executing'[p]],
           results' = [results EXCEPT ![p] = results'[p]],
           p \in Pool => /\ Distinct(taskQueue'[p]) /\ Distinct(results'[p])
                         /\ \A e, f \in executing'[p] : e[1] = f[1] => e = f
    PROVE  OnceEach'
<1>1. \A x \in Pool : x # p =>
          /\ taskQueue'[x] = taskQueue[x] /\ executing'[x] = executing[x]
          /\ results'[x] = results[x]
  BY DEF ClusterInv, ValueInv
<1>2. QED BY <1>1 DEF OnceEach, Distinct

LEMMA NodeSendOne ==
    ASSUME ClusterInv, OneInv, NEW n \in Node, NEW c \in ThreadsOf(n), Send(n, c)
    PROVE  OneInv'
<1>1. PICK m : m = wants[n][c] OBVIOUS
<1>2. /\ n \in Conn /\ n \notin Client /\ ConnOK(n) /\ WireTypes /\ c \in {"poller", "reporter"}
  BY ClusterAssumption DEF Conn, ClusterInv, WireInv, ThreadsOf
<1>3. /\ m # NoRequest /\ sent[n] = {} /\ RequestOK(n, c, m)
      /\ UNCHANGED headVars /\ UNCHANGED poolVars /\ UNCHANGED <<wants, outbox, up>>
      /\ sent' = [sent EXCEPT ![n] = @ \cup {c}]
      /\ inbox' = [inbox EXCEPT ![n] = Append(@, m)]
  BY <1>1, <1>2 DEF Send, ConnOK
<1>4. inbox[n] = <<>> BY <1>1, <1>2, <1>3 DEF ConnOK, WireOK
<1>5. /\ sent'[n] = {c} /\ inbox'[n] = <<m>> /\ inbox'[n] # <<>> /\ Head(inbox'[n]) = m
      /\ sent' = [sent EXCEPT ![n] = sent'[n]] /\ inbox' = [inbox EXCEPT ![n] = inbox'[n]]
      /\ wants' = [wants EXCEPT ![n] = wants'[n]]
  BY <1>2, <1>3, <1>4, OneElement DEF WireTypes
<1>6. m.cmd = IF c = "poller" THEN "poll_task" ELSE "task_result"
  BY <1>2, <1>3 DEF RequestOK, CommandsOf
<1>7. UNCHANGED <<store, submitted, pending, ready, stack>>
  BY <1>3 DEF headVars, osVars, schedVars, tableVars
<1>8. OnceEach' BY <1>3, <1>7, StaysOnce DEF OneInv, poolVars
<1>9. \A t : /\ ~ InReport(n, t)
             /\ InReport(n, t)' <=> c = "reporter" /\ m.task = t
             /\ AtReporter(n, t)' <=> AtReporter(n, t) /\ c = "poller"
             /\ c = "reporter" => (AtReporter(n, t) <=> m.task = t)
  BY <1>1, <1>2, <1>3, <1>4, <1>5, <1>6 DEF InReport, AtReporter
<1>10. \A x, t : x # n => /\ InReport(x, t)' <=> InReport(x, t)
                          /\ AtReporter(x, t)' <=> AtReporter(x, t)
  BY <1>5, OtherNodes
<1>11. CASE c = "poller"
  <2>1. \A k, x, t : In(k, x, t)' <=> In(k, x, t)
    BY <1>3, <1>7, <1>9, <1>10, <1>11, StaysIn DEF In, poolVars
  <2>2. QED BY <1>3, <1>7, <1>8, <2>1, Unmoved DEF OneInv
<1>12. CASE c = "reporter"
  <2>1. In("reporter", n, m.task) BY <1>9, <1>12 DEF In
  <2>2. \A k, x, t : In(k, x, t)' <=>
            \/ In(k, x, t) /\ ~ (k = "reporter" /\ x = n /\ t = m.task)
            \/ k = "reported" /\ x = n /\ t = m.task
    BY <1>3, <1>7, <1>9, <1>10, <1>12, StaysIn DEF In, poolVars
  <2>3. QED BY <1>3, <1>7, <1>8, <2>1, <2>2, Moved DEF OneInv
<1>13. QED BY <1>2, <1>11, <1>12

LEMMA NodeReceives ==
    ASSUME ClusterInv, NEW n \in Node, NEW c \in ThreadsOf(n), Receive(n, c)
    PROVE  /\ UNCHANGED <<store, submitted, pending, ready, stack, inbox, up, executing, results>>
           /\ Reply(n).cmd \in IF c = "poller" THEN {"task", "no_task"} ELSE {"ack"}
           /\ \A x, t : AtReporter(x, t)' <=> AtReporter(x, t)
           /\ \A x, t : InReply(x, t)' <=> InReply(x, t) /\ x # n
           /\ \A t : InReply(n, t) <=> Reply(n).cmd = "task" /\ Reply(n).task = t
<1>1. /\ n \in Conn /\ n \notin Client /\ ConnOK(n) /\ WireTypes /\ c \in {"poller", "reporter"}
      /\ "reporter" \in ThreadsOf(n)
  BY ClusterAssumption DEF Conn, ClusterInv, WireInv, ThreadsOf
<1>2. /\ Answers(wants[n][c], Reply(n)) /\ RequestOK(n, c, wants[n][c])
      /\ wants[n][c].cmd # "none" /\ outbox[n] = <<Reply(n)>> /\ outbox'[n] = <<>>
  BY <1>1, ReceiveInv
<1>3. /\ UNCHANGED <<store, submitted, pending, ready, stack, inbox, up, executing, results>>
      /\ c \in sent[n] /\ outbox[n] # <<>>
      /\ sent' = [sent EXCEPT ![n] = @ \ {c}]
      /\ outbox' = [outbox EXCEPT ![n] = Tail(@)]
      /\ wants' = [wants EXCEPT ![n][c] = Idle(n)[c]]
  BY DEF Receive, headVars, osVars, schedVars, tableVars
<1>4. wants[n][c].cmd = IF c = "poller" THEN "poll_task" ELSE "task_result"
  BY <1>1, <1>2 DEF RequestOK, CommandsOf
<1>5. Reply(n).cmd \in IF c = "poller" THEN {"task", "no_task"} ELSE {"ack"}
  BY <1>1, <1>2, <1>4 DEF Answers, RepliesTo
<1>6. /\ sent'[n] = sent[n] \ {c} /\ sent' = [sent EXCEPT ![n] = sent'[n]]
      /\ outbox' = [outbox EXCEPT ![n] = outbox'[n]]
      /\ wants' = [wants EXCEPT ![n] = wants'[n]]
      /\ wants'[n] = [wants[n] EXCEPT ![c] = Idle(n)[c]]
      /\ wants[n] = [d \in ThreadsOf(n) |-> wants[n][d]]
  BY <1>1, <1>3 DEF WireTypes
<1>7. \A t : AtReporter(n, t)' <=> AtReporter(n, t)
  <2>1. CASE c = "poller"
    <3>1. wants'[n]["reporter"] = wants[n]["reporter"] BY <1>1, <1>6, <2>1
    <3>2. QED BY <1>6, <2>1, <3>1 DEF AtReporter
  <2>2. CASE c = "reporter"
    <3>1. wants'[n]["reporter"] = NoRequest BY <1>1, <1>6, <2>2 DEF Idle
    <3>2. QED BY <1>3, <2>2, <3>1 DEF AtReporter
  <2>3. QED BY <1>1, <2>1, <2>2
<1>8. \A t : ~ InReply(n, t)' BY <1>2 DEF InReply
<1>9. \A t : InReply(n, t) <=> Reply(n).cmd = "task" /\ Reply(n).task = t
  BY <1>3 DEF InReply
<1>10. \A x, t : x # n => /\ AtReporter(x, t)' <=> AtReporter(x, t)
                          /\ InReply(x, t)' <=> InReply(x, t)
  BY <1>6, OtherNodes
<1>11. QED BY <1>3, <1>5, <1>7, <1>8, <1>9, <1>10

LEMMA NodeReturnOne ==
    ASSUME ClusterInv, OneInv, NEW n \in Node, NodeReturn(n)
    PROVE  OneInv'
<1>1. PICK c \in {"poller", "reporter"} : /\ Receive(n, c)
                                          /\ c = "poller" => PollReturn(n)
                                          /\ c = "reporter" => UNCHANGED taskQueue
  BY DEF NodeReturn, PollReturn, ReportReturn
<1>2. /\ UNCHANGED <<store, submitted, pending, ready, stack, inbox, up, executing, results>>
      /\ Reply(n).cmd \in IF c = "poller" THEN {"task", "no_task"} ELSE {"ack"}
      /\ \A x, t : AtReporter(x, t)' <=> AtReporter(x, t)
      /\ \A x, t : InReply(x, t)' <=> InReply(x, t) /\ x # n
      /\ \A t : InReply(n, t) <=> Reply(n).cmd = "task" /\ Reply(n).task = t
  BY <1>1, NodeReceives DEF ThreadsOf
<1>3. CASE Reply(n).cmd # "task"
  <2>1. UNCHANGED taskQueue BY <1>1, <1>3 DEF PollReturn
  <2>2. \A k, x, t : In(k, x, t)' <=> In(k, x, t)
    BY <1>2, <1>3, <2>1, StaysIn DEF In
  <2>3. QED BY <1>2, <2>1, <2>2, Unmoved, StaysOnce DEF OneInv
<1>4. CASE Reply(n).cmd = "task"
  <2>1. PICK e : e = <<Reply(n).task, Reply(n).data>> OBVIOUS
  <2>2. /\ n \in Pool /\ IsSequence(taskQueue[n])
        /\ taskQueue' = [taskQueue EXCEPT ![n] = Append(@, e)]
    BY <1>1, <1>2, <1>4, <2>1 DEF PollReturn, Pool, ClusterInv, ValueInv, PoolOK
  <2>3. /\ taskQueue'[n] = Append(taskQueue[n], e)
        /\ taskQueue' = [taskQueue EXCEPT ![n] = taskQueue'[n]]
        /\ executing' = [executing EXCEPT ![n] = executing'[n]]
        /\ results' = [results EXCEPT ![n] = results'[n]]
    BY <1>2, <2>2 DEF ClusterInv, ValueInv
  <2>4. In("polled", n, e[1]) BY <1>2, <1>4, <2>1 DEF In
  <2>5. ~ Holds(taskQueue[n], e[1])
    <3>1. In("queue", n, e[1]) => FALSE BY <2>4 DEF OneInv, Alone
    <3>2. QED BY <2>2, <3>1 DEF In, InQueue
  <2>6. \A x, t : InQueue(x, t)' <=> InQueue(x, t) \/ (x = n /\ t = e[1])
    BY <2>2, <2>3, AppendHolds, OtherNodes DEF InQueue
  <2>7. \A k, x, t : In(k, x, t)' <=>
            \/ In(k, x, t) /\ ~ (k = "polled" /\ x = n /\ t = e[1])
            \/ k = "queue" /\ x = n /\ t = e[1]
    BY <1>2, <1>4, <2>1, <2>6, StaysIn DEF In
  <2>8. OnceEach'
    <3>1. Distinct(taskQueue'[n])
      BY <2>2, <2>3, <2>5, AppendDistinct DEF OneInv, OnceEach
    <3>2. QED BY <1>2, <2>2, <2>3, <3>1, OncePool DEF OneInv, OnceEach
  <2>9. QED BY <1>2, <2>4, <2>7, <2>8, Moved DEF OneInv
<1>5. QED BY <1>3, <1>4

LEMMA PoolStepOne ==
    ASSUME ClusterInv, OneInv, NEW p \in Pool, PoolStep(p)
    PROVE  OneInv'
<1>1. /\ UNCHANGED <<store, submitted, pending, ready, stack, wants, sent, inbox, outbox, up>>
      /\ IsSequence(taskQueue[p]) /\ IsSequence(results[p])
      /\ Distinct(taskQueue[p]) /\ Distinct(results[p])
      /\ \A e, f \in executing[p] : e[1] = f[1] => e = f
  BY DEF PoolStep, StartTask, FinishTask, headVars, connVars, osVars, schedVars, tableVars,
         ClusterInv, ValueInv, PoolOK, OneInv, OnceEach
<1>2. CASE StartTask(p)
  <2>1. PICK e : e = Head(taskQueue[p]) OBVIOUS
  <2>2. /\ taskQueue[p] # <<>> /\ UNCHANGED results
        /\ executing' = [executing EXCEPT ![p] = executing'[p]]
        /\ executing'[p] = executing[p] \cup {e}
        /\ taskQueue' = [taskQueue EXCEPT ![p] = taskQueue'[p]]
        /\ taskQueue'[p] = Tail(taskQueue[p])
        /\ results' = [results EXCEPT ![p] = results'[p]]
    BY <1>2, <2>1 DEF StartTask, ClusterInv, ValueInv
  <2>3. /\ Distinct(taskQueue'[p])
        /\ \A t : Holds(taskQueue'[p], t) <=> Holds(taskQueue[p], t) /\ t # e[1]
        /\ Holds(taskQueue[p], e[1])
    BY <1>1, <2>1, <2>2, TailDistinct
  <2>4. In("queue", p, e[1]) BY <2>3 DEF In, InQueue
  <2>5. \A f \in executing[p] : f[1] # e[1]
    <3>1. In("worker", p, e[1]) => FALSE BY <2>4 DEF OneInv, Alone
    <3>2. QED BY <3>1 DEF In, AtWorker
  <2>6. /\ \A x, t : InQueue(x, t)' <=> InQueue(x, t) /\ ~ (x = p /\ t = e[1])
        /\ \A x, t : AtWorker(x, t)' <=> AtWorker(x, t) \/ (x = p /\ t = e[1])
    <3>1. \A t : /\ InQueue(p, t)' <=> InQueue(p, t) /\ t # e[1]
                 /\ AtWorker(p, t)' <=> AtWorker(p, t) \/ t = e[1]
      BY <2>2, <2>3 DEF InQueue, AtWorker
    <3>2. \A x, t : x # p => /\ InQueue(x, t)' <=> InQueue(x, t)
                             /\ AtWorker(x, t)' <=> AtWorker(x, t)
      BY <2>2, OtherNodes
    <3>3. QED BY <3>1, <3>2
  <2>7. \A k, x, t : In(k, x, t)' <=>
            \/ In(k, x, t) /\ ~ (k = "queue" /\ x = p /\ t = e[1])
            \/ k = "worker" /\ x = p /\ t = e[1]
    BY <1>1, <2>2, <2>6, StaysIn DEF In
  <2>8. OnceEach'
    <3>1. \A f, g \in executing'[p] : f[1] = g[1] => f = g BY <1>1, <2>2, <2>5
    <3>2. QED BY <1>1, <2>2, <2>3, <3>1, OncePool DEF OneInv, OnceEach
  <2>9. QED BY <1>1, <2>4, <2>7, <2>8, Moved DEF OneInv
<1>3. ASSUME NEW e \in executing[p], FinishTask(p, e) PROVE OneInv'
  <2>1. PICK r : r = <<e[1], Outcome(e[1], e[2])>> OBVIOUS
  <2>2. /\ UNCHANGED taskQueue
        /\ executing' = [executing EXCEPT ![p] = executing'[p]]
        /\ executing'[p] = executing[p] \ {e}
        /\ taskQueue' = [taskQueue EXCEPT ![p] = taskQueue'[p]]
        /\ results'[p] = Append(results[p], r)
        /\ results' = [results EXCEPT ![p] = results'[p]]
    BY <1>3, <2>1 DEF FinishTask, ClusterInv, ValueInv
  <2>3. In("worker", p, e[1]) BY DEF In, AtWorker
  <2>4. ~ Holds(results[p], r[1])
    <3>1. In("result", p, e[1]) => FALSE BY <2>3 DEF OneInv, Alone
    <3>2. QED BY <2>1, <3>1 DEF In, InResults
  <2>5. Distinct(results'[p]) BY <1>1, <2>2, <2>4, AppendDistinct
  <2>6. /\ \A x, t : AtWorker(x, t)' <=> AtWorker(x, t) /\ ~ (x = p /\ t = e[1])
        /\ \A x, t : InResults(x, t)' <=> InResults(x, t) \/ (x = p /\ t = e[1])
    <3>1. \A t : AtWorker(p, t)' <=> AtWorker(p, t) /\ t # e[1]
      BY <1>1, <2>2 DEF AtWorker
    <3>2. \A t : InResults(p, t)' <=> InResults(p, t) \/ t = e[1]
      BY <1>1, <2>1, <2>2, AppendHolds DEF InResults
    <3>3. \A x, t : x # p => /\ AtWorker(x, t)' <=> AtWorker(x, t)
                             /\ InResults(x, t)' <=> InResults(x, t)
      BY <2>2, OtherNodes
    <3>4. QED BY <3>1, <3>2, <3>3
  <2>7. \A k, x, t : In(k, x, t)' <=>
            \/ In(k, x, t) /\ ~ (k = "worker" /\ x = p /\ t = e[1])
            \/ k = "result" /\ x = p /\ t = e[1]
    BY <1>1, <2>2, <2>6, StaysIn DEF In
  <2>8. OnceEach'
    <3>1. \A f, g \in executing'[p] : f[1] = g[1] => f = g BY <1>1, <2>2
    <3>2. QED BY <1>1, <2>2, <2>5, <3>1, OncePool DEF OneInv, OnceEach
  <2>9. QED BY <1>1, <2>3, <2>7, <2>8, Moved DEF OneInv
<1>4. QED BY <1>2, <1>3 DEF PoolStep

LEMMA TakeResultOne ==
    ASSUME ClusterInv, OneInv, NEW n \in Node, TakeResult(n)
    PROVE  OneInv'
<1>1. PICK r : r = Head(results[n]) OBVIOUS
<1>2. PICK m : m = Msg("task_result", r[1], r[2]) OBVIOUS
<1>3. /\ n \in Pool /\ n \in Conn /\ "reporter" \in ThreadsOf(n)
      /\ IsSequence(results[n]) /\ Distinct(results[n]) /\ results[n] # <<>>
      /\ wants[n]["reporter"] = NoRequest
      /\ UNCHANGED <<store, submitted, pending, ready, stack, sent, inbox, outbox, up>>
      /\ UNCHANGED <<taskQueue, executing>> /\ ConnOK(n)
  BY DEF TakeResult, Pool, Conn, ThreadsOf, ClusterInv, ValueInv, PoolOK, OneInv, OnceEach,
         headVars, osVars, schedVars, tableVars, WireInv
<1>4. /\ results' = [results EXCEPT ![n] = results'[n]] /\ results'[n] = Tail(results[n])
      /\ taskQueue' = [taskQueue EXCEPT ![n] = taskQueue'[n]]
      /\ executing' = [executing EXCEPT ![n] = executing'[n]]
  BY <1>3 DEF TakeResult, ClusterInv, ValueInv
<1>5. /\ wants' = [wants EXCEPT ![n] = wants'[n]] /\ wants'[n]["reporter"] = m
      /\ sent' = [sent EXCEPT ![n] = sent'[n]]
  <2>1. wants' = [wants EXCEPT ![n]["reporter"] = m] BY <1>1, <1>2 DEF TakeResult
  <2>2. wants[n] = [c \in ThreadsOf(n) |-> wants[n][c]] /\ WireTypes
    BY <1>3 DEF ClusterInv, WireInv, WireTypes
  <2>3. QED BY <1>3, <2>1, <2>2 DEF WireTypes
<1>6. m # NoRequest /\ m.task = r[1] BY <1>2 DEF NoRequest, Msg
<1>7. "reporter" \notin sent[n] BY <1>3 DEF ConnOK, NoRequest, Msg
<1>8. /\ Distinct(results'[n]) /\ Holds(results[n], r[1])
      /\ \A t : Holds(results'[n], t) <=> Holds(results[n], t) /\ t # r[1]
  BY <1>1, <1>3, <1>4, TailDistinct
<1>9. In("result", n, r[1]) BY <1>3, <1>8 DEF In, InResults
<1>10. /\ \A x, t : InResults(x, t)' <=> InResults(x, t) /\ ~ (x = n /\ t = r[1])
       /\ \A x, t : AtReporter(x, t)' <=> AtReporter(x, t) \/ (x = n /\ t = r[1])
  <2>1. \A t : InResults(n, t)' <=> InResults(n, t) /\ t # r[1]
    BY <1>3, <1>8 DEF InResults
  <2>2. \A t : ~ AtReporter(n, t) /\ (AtReporter(n, t)' <=> t = r[1])
    BY <1>3, <1>5, <1>6, <1>7 DEF AtReporter
  <2>3. \A x, t : x # n => /\ InResults(x, t)' <=> InResults(x, t)
                           /\ AtReporter(x, t)' <=> AtReporter(x, t)
    BY <1>4, <1>5, OtherNodes
  <2>4. QED BY <2>1, <2>2, <2>3
<1>11. \A k, x, t : In(k, x, t)' <=>
           \/ In(k, x, t) /\ ~ (k = "result" /\ x = n /\ t = r[1])
           \/ k = "reporter" /\ x = n /\ t = r[1]
  BY <1>3, <1>10, StaysIn DEF In
<1>12. OnceEach'
  BY <1>3, <1>4, <1>8, OncePool DEF OneInv, OnceEach
<1>13. QED BY <1>3, <1>9, <1>11, <1>12, Moved DEF OneInv

LEMMA StopOne ==
    ASSUME ClusterInv, OneInv, NEW n \in Node, Stop(n)
    PROVE  OneInv'
<1>1. /\ UNCHANGED <<store, submitted, pending, ready, stack>> /\ up' # Node
      /\ n \in Conn /\ n \in Pool /\ "reporter" \in ThreadsOf(n)
  BY DEF Stop, headVars, osVars, schedVars, tableVars, Conn, Pool, ThreadsOf
<1>2. /\ taskQueue' = [taskQueue EXCEPT ![n] = taskQueue'[n]] /\ taskQueue'[n] = <<>>
      /\ executing' = [executing EXCEPT ![n] = executing'[n]] /\ executing'[n] = {}
      /\ results' = [results EXCEPT ![n] = results'[n]] /\ results'[n] = <<>>
  BY <1>1 DEF Stop, ClusterInv, ValueInv
<1>3. /\ wants' = [wants EXCEPT ![n] = wants'[n]]
      /\ wants'[n] = [c \in ThreadsOf(n) |-> NoRequest]
      /\ sent' = [sent EXCEPT ![n] = sent'[n]]
      /\ outbox' = [outbox EXCEPT ![n] = outbox'[n]] /\ outbox'[n] = <<>>
      /\ inbox' = [inbox EXCEPT ![n] = inbox'[n]] /\ inbox'[n] \in {inbox[n], <<>>}
  BY <1>1 DEF Stop, ClusterInv, WireInv, WireTypes
<1>4. wants'[n]["reporter"] = NoRequest BY <1>1, <1>3
<1>5. \A t : /\ ~ AtReporter(n, t)' /\ ~ InReply(n, t)'
             /\ InReport(n, t)' => InReport(n, t)
             /\ ~ InQueue(n, t)' /\ ~ AtWorker(n, t)' /\ ~ InResults(n, t)'
  BY <1>2, <1>3, <1>4, NoElement
  DEF AtReporter, InReply, InReport, InQueue, AtWorker, InResults, Holds
<1>6. \A x, t : x # n =>
          /\ AtReporter(x, t)' <=> AtReporter(x, t)
          /\ InReply(x, t)' <=> InReply(x, t)
          /\ InReport(x, t)' <=> InReport(x, t)
          /\ InQueue(x, t)' <=> InQueue(x, t)
          /\ AtWorker(x, t)' <=> AtWorker(x, t)
          /\ InResults(x, t)' <=> InResults(x, t)
  BY <1>2, <1>3, OtherNodes
<1>7. \A k, x, t : In(k, x, t)' => In(k, x, t)
  <2>1. \A x, t :
          /\ AtReporter(x, t)' => AtReporter(x, t)
          /\ InReply(x, t)' => InReply(x, t)
          /\ InReport(x, t)' => InReport(x, t)
          /\ InQueue(x, t)' => InQueue(x, t)
          /\ AtWorker(x, t)' => AtWorker(x, t)
          /\ InResults(x, t)' => InResults(x, t)
    <3> TAKE x, t
    <3>1. CASE x = n BY <1>5, <3>1
    <3>2. CASE x # n BY <1>6, <3>2
    <3>3. QED BY <3>1, <3>2
  <2>2. QED BY <1>1, <2>1, StaysIn DEF In
<1>8. OnceEach'
  <2>1. Distinct(<<>>) BY NoElement DEF Distinct
  <2>2. QED BY <1>1, <1>2, <2>1, OncePool DEF OneInv, OnceEach
<1>9. QED BY <1>1, <1>7, <1>8, Lost DEF OneInv
-----------------------------------------------------------------------------
(***************************************************************************)
(* A result is stored.                                                     *)
(***************************************************************************)
LEMMA PutStored ==
    ASSUME ClusterInv, NEW h \in Handler, NEW s, NEW v, Computed(s, v),
           Store!PutStore(h, s, v), UNCHANGED <<submitted, args>>
    PROVE  \A t : (t \in Task /\ Store!contains(t))' <=>
               (t \in Task /\ Store!contains(t)) \/ t = s
BY PutFacts DEF Store!contains

LEMMA EnterAfterPut ==
    ASSUME ClusterInv, NEW h \in Handler, NEW s, NEW v, NEW rest, IsSequence(rest),
           Enter(h, AfterPut(s, v) \o rest)
    PROVE  \A x, t : OnHead(x, t)' <=> OnHead(x, t)
<1>1. PICK f : AfterPut(s, v) = <<f>> /\ f.at \in {"finished", "failed"}
  BY AfterPutFrame
<1>2. StackInv BY DEF ClusterInv
<1>3. /\ stack[h] = <<>> /\ stack'[h] = <<f>> \o rest
      /\ stack' = [stack EXCEPT ![h] = stack'[h]]
  BY <1>1, <1>2 DEF Enter, StackInv
<1>4. stack'[h] # <<>> /\ stack'[h][1] = f BY <1>3, PushSequence
<1>5. \A x, t : OnHead(x, t)' <=>
          \/ x # h /\ OnHead(x, t)
          \/ x = h /\ f.at \in {"resolveLocal", "resolveReply"} /\ f.task = t
  BY <1>2, <1>3, <1>4, NowOnHead
<1>6. \A t : ~ OnHead(h, t) BY <1>3, NotOnHead
<1>7. QED BY <1>1, <1>5, <1>6

LEMMA TaskResultOne ==
    ASSUME ClusterInv, OneInv, NEW h, OnTaskResult(h)
    PROVE  OneInv'
<1>1. PICK s, v : s = Head(inbox[h]).task /\ v = Head(inbox[h]).data OBVIOUS
<1>2. PICK g : g = ReplyFrame("ack", s) OBVIOUS
<1>3. /\ Receiving(h, "task_result") /\ Store!PutStore(h, s, v)
      /\ Enter(h, AfterPut(s, v) \o <<g>>)
      /\ UNCHANGED <<submitted, args, pending, ready, outbox>> /\ UNCHANGED poolVars
  BY <1>1, <1>2 DEF OnTaskResult, schedVars, tableVars
<1>4. /\ h \in Handler /\ h \in Conn /\ inbox[h] # <<>> /\ UNCHANGED <<wants, sent, up>>
      /\ Head(inbox[h]).cmd = "task_result"
      /\ \E c \in ThreadsOf(h) : RequestOK(h, c, Head(inbox[h]))
  BY <1>3, ReceivingFacts
<1>5. Computed(s, v) /\ h \in Node
  BY <1>1, <1>4, ClusterAssumption DEF RequestOK, CommandsOf, Conn
<1>6. /\ \A t : (t \in Task /\ Store!contains(t))' <=>
                    (t \in Task /\ Store!contains(t)) \/ t = s
      /\ \A x, t : OnHead(x, t)' <=> OnHead(x, t)
  BY <1>3, <1>4, <1>5, PutStored, EnterAfterPut, OneElement
<1>7. /\ InReport(h, s) /\ \A t : InReport(h, t) => t = s
      /\ \A x, t : InReport(x, t)' <=> InReport(x, t) /\ x # h
  BY <1>1, <1>3, <1>4, <1>5, ReadReport DEF InReport
<1>8. In("reported", h, s) BY <1>7 DEF In
<1>9. \A k, x, t : In(k, x, t)' <=>
          \/ In(k, x, t) /\ ~ (k = "reported" /\ x = h /\ t = s)
          \/ k = "store" /\ x = Nothing /\ t = s
  BY <1>3, <1>4, <1>6, <1>7, StaysIn DEF In, poolVars
<1>10. QED BY <1>3, <1>4, <1>8, <1>9, Moved, StaysOnce DEF OneInv, poolVars

LEMMA CollectLocalOne ==
    ASSUME ClusterInv, OneInv, CollectLocal
    PROVE  OneInv'
<1>1. PICK r : r = Head(results[Local]) OBVIOUS
<1>2. PICK s, v : s = r[1] /\ v = r[2] OBVIOUS
<1>3. /\ HasLocal /\ results[Local] # <<>> /\ Store!PutStore(Local, s, v)
      /\ Enter(Local, AfterPut(s, v))
      /\ UNCHANGED <<submitted, args, pending, ready>> /\ UNCHANGED connVars
      /\ UNCHANGED <<taskQueue, executing>>
  BY <1>1, <1>2 DEF CollectLocal, schedVars, tableVars
<1>4. /\ Local \in Pool /\ Local \in Handler
      /\ IsSequence(results[Local]) /\ Distinct(results[Local])
      /\ \A e \in ToSet(results[Local]) : Computed(e[1], e[2])
  BY <1>3 DEF Pool, Handler, ClusterInv, ValueInv, PoolOK, OneInv, OnceEach
<1>5. Computed(s, v) BY <1>1, <1>2, <1>3, <1>4, TailSequence
<1>6. \A t : (t \in Task /\ Store!contains(t))' <=>
                 (t \in Task /\ Store!contains(t)) \/ t = s
  BY <1>3, <1>4, <1>5, PutStored
<1>7. \A x, t : OnHead(x, t)' <=> OnHead(x, t)
  <2>1. PICK f : AfterPut(s, v) = <<f>> BY AfterPutFrame
  <2>2. AfterPut(s, v) \o <<>> = AfterPut(s, v)
    <3>1. <<f>> \in Seq({f}) OBVIOUS
    <3>2. <<f>> \o <<>> = <<f>> BY <3>1, ConcatEmptySeq
    <3>3. QED BY <2>1, <3>2
  <2>3. QED BY <1>3, <1>4, <2>2, EnterAfterPut, NoElement
<1>8. /\ results' = [results EXCEPT ![Local] = results'[Local]]
      /\ results'[Local] = Tail(results[Local])
      /\ taskQueue' = [taskQueue EXCEPT ![Local] = taskQueue'[Local]]
      /\ executing' = [executing EXCEPT ![Local] = executing'[Local]]
  BY <1>3, <1>4 DEF CollectLocal, ClusterInv, ValueInv
<1>9. /\ Distinct(results'[Local]) /\ Holds(results[Local], s)
      /\ \A t : Holds(results'[Local], t) <=> Holds(results[Local], t) /\ t # s
  BY <1>1, <1>2, <1>3, <1>4, <1>8, TailDistinct
<1>10. In("result", Local, s) BY <1>4, <1>9 DEF In, InResults
<1>11. \A x, t : InResults(x, t)' <=> InResults(x, t) /\ ~ (x = Local /\ t = s)
  <2>1. \A t : InResults(Local, t)' <=> InResults(Local, t) /\ t # s
    BY <1>4, <1>9 DEF InResults
  <2>2. \A x, t : x # Local => (InResults(x, t)' <=> InResults(x, t))
    BY <1>8, OtherNodes
  <2>3. QED BY <2>1, <2>2
<1>12. \A k, x, t : In(k, x, t)' <=>
           \/ In(k, x, t) /\ ~ (k = "result" /\ x = Local /\ t = s)
           \/ k = "store" /\ x = Nothing /\ t = s
  BY <1>3, <1>6, <1>7, <1>11, StaysIn DEF In, connVars
<1>13. OnceEach' BY <1>3, <1>4, <1>8, <1>9, OncePool DEF OneInv, OnceEach
<1>14. QED BY <1>3, <1>10, <1>12, <1>13, Moved DEF OneInv, connVars
-----------------------------------------------------------------------------
(***************************************************************************)
(* A ready task is popped, its arguments are resolved, and it is queued or *)
(* sent.                                                                   *)
(***************************************************************************)
LEMMA PoppedOne ==
    ASSUME ClusterInv, OneInv, NEW h \in Handler, NEW f, ready # <<>>, Sched!PopReady,
           f.at \in {"resolveLocal", "resolveReply"}, f.task = Head(ready),
           stack[h] = <<>> \/ Top(h).at = "flush",
           stack'[h] # <<>>, stack'[h][1] = f, stack' = [stack EXCEPT ![h] = stack'[h]],
           UNCHANGED <<store, submitted, wants, sent, outbox, up>>, UNCHANGED poolVars,
           \A x, t : InReport(x, t)' <=> InReport(x, t)
    PROVE  OneInv'
<1>1. PICK s : s = Head(ready) OBVIOUS
<1>2. /\ ready' = Tail(ready) /\ UNCHANGED pending
      /\ ready \in Seq(submitted) /\ IsInjective(ready)
  BY DEF Sched!PopReady, ClusterInv, SchedInv, OneInv, OnceEach
<1>3. /\ s \in ToSet(ready) /\ ToSet(ready') = ToSet(ready) \ {s} /\ IsInjective(ready')
  BY <1>1, <1>2, TailElements
<1>4. \A x, t : OnHead(x, t)' <=> OnHead(x, t) \/ (x = h /\ t = s)
  <2>1. \A x, t : OnHead(x, t)' <=>
            \/ x # h /\ OnHead(x, t)
            \/ x = h /\ f.at \in {"resolveLocal", "resolveReply"} /\ f.task = t
    BY NowOnHead DEF ClusterInv
  <2>2. \A t : ~ OnHead(h, t) BY NotOnHead
  <2>3. QED BY <1>1, <2>1, <2>2
<1>5. In("ready", Nothing, s) BY <1>3 DEF In
<1>6. \A k, x, t : In(k, x, t)' <=>
          \/ In(k, x, t) /\ ~ (k = "ready" /\ x = Nothing /\ t = s)
          \/ k = "head" /\ x = h /\ t = s
  BY <1>2, <1>3, <1>4, StaysIn DEF In, poolVars
<1>7. OnceEach' BY <1>3 DEF OneInv, OnceEach, Distinct, poolVars
<1>8. QED BY <1>5, <1>6, <1>7, Moved DEF OneInv

LEMMA PollTaskOne ==
    ASSUME ClusterInv, OneInv, NEW h, OnPollTask(h)
    PROVE  OneInv'
<1>1. PICK f : f = Resolving("resolveReply", Head(ready)) OBVIOUS
<1>2. /\ Receiving(h, "poll_task") /\ Sched!PopReady /\ Enter(h, <<f>>) /\ ready # <<>>
      /\ UNCHANGED <<store, submitted, outbox>> /\ UNCHANGED poolVars
  BY <1>1 DEF OnPollTask, Sched!PopReady, osVars, tableVars
<1>3. h \in Handler /\ UNCHANGED <<wants, sent, up>> /\ stack[h] = <<>>
  BY <1>2, ReceivingFacts
<1>4. \A x, t : InReport(x, t)' <=> InReport(x, t) BY <1>2, ReadReport
<1>5. /\ stack'[h] # <<>> /\ stack'[h][1] = f /\ stack' = [stack EXCEPT ![h] = stack'[h]]
  BY <1>2, <1>3, OneElement DEF Enter, ClusterInv, StackInv
<1>6. f.at = "resolveReply" /\ f.task = Head(ready) BY <1>1 DEF Resolving, Frame
<1>7. QED BY <1>2, <1>3, <1>4, <1>5, <1>6, PoppedOne

LEMMA FlushNextOne ==
    ASSUME ClusterInv, OneInv, NEW h \in Handler, FlushNext(h)
    PROVE  OneInv'
<1>1. PICK f : f = Resolving("resolveLocal", Head(ready)) OBVIOUS
<1>2. /\ stack[h] # <<>> /\ Top(h).at = "flush" /\ Sched!PopReady /\ ready # <<>>
      /\ stack' = [stack EXCEPT ![h] = <<f>> \o @]
      /\ UNCHANGED <<store, submitted, wants, sent, inbox, outbox, up>> /\ UNCHANGED poolVars
  BY <1>1 DEF FlushNext, Sched!PopReady, At, osVars, restVars, tableVars, connVars
<1>3. /\ stack'[h] # <<>> /\ stack'[h][1] = f /\ stack' = [stack EXCEPT ![h] = stack'[h]]
  <2>1. IsSequence(stack[h]) /\ stack'[h] = <<f>> \o stack[h]
    BY <1>2 DEF ClusterInv, StackInv, StackOK
  <2>2. QED BY <1>2, <2>1, PushSequence DEF ClusterInv, StackInv
<1>4. f.at = "resolveLocal" /\ f.task = Head(ready) BY <1>1 DEF Resolving, Frame
<1>5. QED BY <1>2, <1>3, <1>4, PoppedOne, StaysIn

LEMMA QueueLocalOne ==
    ASSUME ClusterInv, OneInv, NEW h \in Handler, QueueLocal(h)
    PROVE  OneInv'
<1>1. PICK e : e = <<Top(h).task, Top(h).vals>> OBVIOUS
<1>2. /\ stack[h] # <<>> /\ Top(h).at = "resolveLocal" /\ Return(h) /\ FrameOK(Top(h))
      /\ UNCHANGED <<store, submitted, pending, ready>> /\ UNCHANGED connVars
      /\ UNCHANGED <<executing, results>>
      /\ taskQueue' = [taskQueue EXCEPT ![Local] = Append(@, e)]
  BY <1>1, AtFrame DEF QueueLocal, ClusterInv, osVars, schedVars, tableVars
<1>3. Local \in Pool /\ IsSequence(taskQueue[Local]) /\ Distinct(taskQueue[Local])
  BY <1>2 DEF FrameOK, Pool, ClusterInv, ValueInv, PoolOK, OneInv, OnceEach
<1>4. /\ taskQueue' = [taskQueue EXCEPT ![Local] = taskQueue'[Local]]
      /\ taskQueue'[Local] = Append(taskQueue[Local], e)
      /\ executing' = [executing EXCEPT ![Local] = executing'[Local]]
      /\ results' = [results EXCEPT ![Local] = results'[Local]]
  BY <1>2, <1>3 DEF ClusterInv, ValueInv
<1>5. OnHead(h, e[1]) /\ \A t : OnHead(h, t) => t = e[1]
  BY <1>1, <1>2 DEF OnHead, Resolves, At
<1>6. In("head", h, e[1]) BY <1>5 DEF In
<1>7. ~ Holds(taskQueue[Local], e[1])
  <2>1. In("queue", Local, e[1]) => FALSE BY <1>6 DEF OneInv, Alone
  <2>2. QED BY <1>3, <2>1 DEF In, InQueue
<1>8. \A x, t : OnHead(x, t)' <=> OnHead(x, t) /\ x # h
  BY <1>2, ReturnOnHead DEF ClusterInv
<1>9. \A x, t : InQueue(x, t)' <=> InQueue(x, t) \/ (x = Local /\ t = e[1])
  <2>1. \A t : InQueue(Local, t)' <=> InQueue(Local, t) \/ t = e[1]
    BY <1>3, <1>4, AppendHolds DEF InQueue
  <2>2. \A x, t : x # Local => (InQueue(x, t)' <=> InQueue(x, t))
    BY <1>4, OtherNodes
  <2>3. QED BY <2>1, <2>2
<1>10. \A k, x, t : In(k, x, t)' <=>
           \/ In(k, x, t) /\ ~ (k = "head" /\ x = h /\ t = e[1])
           \/ k = "queue" /\ x = Local /\ t = e[1]
  BY <1>2, <1>5, <1>8, <1>9, StaysIn DEF In, connVars
<1>11. OnceEach'
  <2>1. Distinct(taskQueue'[Local]) BY <1>3, <1>4, <1>7, AppendDistinct
  <2>2. QED BY <1>2, <1>3, <1>4, <2>1, OncePool DEF OneInv, OnceEach
<1>12. QED BY <1>2, <1>6, <1>10, <1>11, Moved DEF OneInv, connVars

\* Only a node polls; if it has stopped, the task goes nowhere.
LEMMA ReplyTaskOne ==
    ASSUME ClusterInv, OneInv, NEW h \in Handler, ReplyTask(h)
    PROVE  OneInv'
<1>1. PICK msg : msg = Msg("task", Top(h).task, Top(h).vals) OBVIOUS
<1>2. PICK s : s = Top(h).task OBVIOUS
<1>3. /\ stack[h] # <<>> /\ Top(h).at = "resolveReply" /\ Answer(h, msg) /\ Return(h)
      /\ UNCHANGED <<store, submitted, pending, ready, wants, sent, inbox, up>>
      /\ UNCHANGED poolVars
  BY <1>1 DEF ReplyTask, SendReply, At, osVars, schedVars, tableVars
<1>4. h \in Conn /\ outbox[h] = <<>> /\ Top(h).at \in Replying
  BY <1>3, ReplyingFacts DEF Replying
<1>5. h \in Node
  <2>1. ConnOK(h) /\ inbox[h] = <<>> BY <1>3, <1>4 DEF ClusterInv, WireInv, ConnOK, WireOK
  <2>2. CASE sent[h] = {} BY <1>3, <1>4, <2>1, <2>2 DEF ConnOK, WireOK
  <2>3. ASSUME NEW c \in sent[h] PROVE h \in Node
    <3>1. /\ wants[h][c].cmd # "none" /\ SenderOK(h, c) /\ RequestOK(h, c, wants[h][c])
      BY <2>1 DEF ConnOK
    <3>2. Serves(Last(stack[h]), wants[h][c]) BY <1>4, <2>1, <3>1 DEF SenderOK
    <3>3. Last(stack[h]) = Top(h)
      BY <1>3, <1>4, TopFrame DEF ClusterInv, Last, Top
    <3>4. wants[h][c].cmd = "poll_task"
      BY <1>3, <3>1, <3>2, <3>3 DEF Serves, RequestOK, CommandsOf
    <3>5. QED BY <1>4, <3>1, <3>4 DEF RequestOK, CommandsOf, Conn
  <2>4. QED BY <2>2, <2>3
<1>6. /\ OnHead(h, s) /\ \A t : OnHead(h, t) => t = s
  BY <1>2, <1>3 DEF OnHead, Resolves, At
<1>7. \A x, t : OnHead(x, t)' <=> OnHead(x, t) /\ x # h
  BY <1>3, ReturnOnHead DEF ClusterInv
<1>8. \A x, t : InReply(x, t)' <=> InReply(x, t) \/ (x = h /\ h \in up /\ t = s)
  <2>1. msg.cmd = "task" /\ msg.task = s BY <1>1, <1>2 DEF Msg
  <2>2. QED BY <1>3, <1>4, <2>1, WrittenReply
<1>9. OnceEach' BY <1>3, StaysOnce DEF OneInv, poolVars
<1>10. CASE h \in up
  <2>1. In("head", h, s) BY <1>6 DEF In
  <2>2. \A k, x, t : In(k, x, t)' <=>
            \/ In(k, x, t) /\ ~ (k = "head" /\ x = h /\ t = s)
            \/ k = "polled" /\ x = h /\ t = s
    BY <1>3, <1>6, <1>7, <1>8, <1>10, StaysIn DEF In, poolVars
  <2>3. QED BY <1>3, <1>9, <2>1, <2>2, Moved DEF OneInv
<1>11. CASE h \notin up
  <2>1. \A k, x, t : In(k, x, t)' => In(k, x, t)
    BY <1>3, <1>7, <1>8, <1>11, StaysIn DEF In, poolVars
  <2>2. up' # Node BY <1>3, <1>5, <1>11
  <2>3. QED BY <1>9, <2>1, <2>2, Lost DEF OneInv
<1>12. QED BY <1>10, <1>11
-----------------------------------------------------------------------------
(***************************************************************************)
(* An object is announced: the tasks it releases become ready.             *)
(***************************************************************************)
LEMMA ReleasedOne ==
    ASSUME ClusterInv, OneInv, NEW o, Sched!OnObjectReady(o),
           \A x, t : OnHead(x, t)' <=> OnHead(x, t),
           UNCHANGED <<store, submitted>>, UNCHANGED connVars, UNCHANGED poolVars
    PROVE  OneInv'
<1>1. PICK R : R = Sched!Released(o) OBVIOUS
<1>2. pending \subseteq submitted /\ IsFiniteSet(submitted) /\ R \subseteq pending
  <2>1. submitted = 1 .. Cardinality(submitted) /\ Cardinality(submitted) \in Nat
    BY DEF ClusterInv, TaskInv
  <2>2. IsFiniteSet(submitted) BY <2>1, FS_Interval
  <2>3. QED BY <1>1, <2>2 DEF ClusterInv, SchedInv, Sched!Released, Sched!Waiters
<1>3. PICK r \in SetToSeqs(R) : ready' = ready \o r
  BY <1>1, SchedSequences DEF Sched!OnObjectReady
<1>4. IsFiniteSet(R)
  BY <1>2, FS_Subset
<1>5. r \in Seq(R) /\ ToSet(r) = R /\ IsInjective(r)
  BY <1>3, <1>4, ArrangementElements
<1>6. ready \in Seq(submitted) /\ r \in Seq(submitted) /\ IsInjective(ready)
  BY <1>2, <1>5, SequenceOver, SequenceIn DEF ClusterInv, SchedInv, OneInv, OnceEach
<1>7. ToSet(ready) \cap R = {}
  <2> SUFFICES ASSUME NEW t \in ToSet(ready), t \in R PROVE FALSE OBVIOUS
  <2>1. In("ready", Nothing, t) /\ In("scheduler", Nothing, t) BY <1>2 DEF In
  <2>2. "ready" = "scheduler" BY <2>1 DEF OneInv, Alone
  <2>3. QED BY <2>2
<1>8. ToSet(ready') = ToSet(ready) \cup R /\ IsInjective(ready')
  BY <1>3, <1>5, <1>6, <1>7, ConcatElements
<1>9. pending' = pending \ R BY <1>1 DEF Sched!OnObjectReady
<1>10. \A k, x, t : In(k, x, t)' <=>
           \/ In(k, x, t) /\ ~ (k = "scheduler" /\ t \in R)
           \/ k = "ready" /\ x = Nothing /\ t \in R
  BY <1>8, <1>9, StaysIn DEF In, connVars, poolVars
<1>11. \A t \in R : In("scheduler", Nothing, t) BY <1>2 DEF In
<1>12. Alone'
  <2> SUFFICES ASSUME NEW t, NEW k, NEW x, NEW l, NEW y, In(k, x, t)', In(l, y, t)'
               PROVE  k = l /\ x = y
    BY DEF Alone
  <2>1. CASE t \in R
    <3>1. \A j, z : In(j, z, t)' => j = "ready" /\ z = Nothing
      BY <1>10, <1>11, <2>1 DEF OneInv, Alone
    <3>2. QED BY <3>1
  <2>2. CASE t \notin R
    <3>1. In(k, x, t) /\ In(l, y, t) BY <1>10, <2>2
    <3>2. QED BY <3>1 DEF OneInv, Alone
  <2>3. QED BY <2>1, <2>2
<1>13. NoneLost'
  <2> SUFFICES ASSUME up' = Node, NEW t \in submitted'
               PROVE  \E k, x : In(k, x, t)'
    BY DEF NoneLost
  <2>1. CASE t \in R
    <3>1. In("ready", Nothing, t)' BY <1>10, <2>1
    <3>2. QED BY <3>1
  <2>2. CASE t \notin R
    <3>1. PICK k, x : In(k, x, t) BY DEF OneInv, NoneLost, connVars
    <3>2. In(k, x, t)' BY <1>10, <2>2, <3>1
    <3>3. QED BY <3>2
  <2>3. QED BY <2>1, <2>2
<1>14. OnceEach' BY <1>8 DEF OneInv, OnceEach, Distinct, poolVars
<1>15. QED BY <1>12, <1>13, <1>14 DEF OneInv

LEMMA AnnounceOne ==
    ASSUME ClusterInv, OneInv, NEW h \in Handler, Announce(h) \/ Finished(h)
    PROVE  OneInv'
<1>1. PICK f, o : /\ Goto(h, f) /\ Sched!OnObjectReady(o)
                  /\ f.at \in {"flush", "recheck"}
  <2>1. CASE Announce(h)
    <3>1. PICK f : f = Submitting(Top(h).task, Tail(Top(h).todo)) OBVIOUS
    <3>2. f.at \in {"flush", "recheck"} BY <3>1 DEF Submitting, Frame
    <3>3. QED BY <2>1, <3>1, <3>2 DEF Announce
  <2>2. CASE Finished(h)
    <3>1. PICK f : f = Frame("flush", Top(h).task, <<>>) OBVIOUS
    <3>2. f.at = "flush" BY <3>1 DEF Frame
    <3>3. QED BY <2>2, <3>1, <3>2 DEF Finished
  <2>3. QED BY <2>1, <2>2
<1>2. /\ stack[h] # <<>> /\ Top(h).at \in {"announce", "finished"}
      /\ UNCHANGED <<store, submitted>> /\ UNCHANGED connVars /\ UNCHANGED poolVars
  BY DEF Announce, Finished, At, osVars, restVars, tableVars, Table!Record
<1>3. \A x, t : OnHead(x, t)' <=> OnHead(x, t) BY <1>1, <1>2, GotoOnHead
<1>4. QED BY <1>1, <1>2, <1>3, ReleasedOne

(***************************************************************************)
(* A task is submitted: it is nowhere yet.                                 *)
(***************************************************************************)
LEMMA SubmitTaskOne ==
    ASSUME ClusterInv, OneInv, NEW h, OnSubmitTask(h)
    PROVE  OneInv'
<1>1. PICK s, a : s = Cardinality(submitted) + 1 /\ a = Head(inbox[h]).data OBVIOUS
<1>2. PICK f, g : f = Submitting(s, a) /\ g = ReplyFrame("object_id", s) OBVIOUS
<1>3. /\ Receiving(h, "submit_task") /\ Table!register_task(s, a)
      /\ Sched!SchedSubmit(s, a) /\ Enter(h, <<f, g>>)
      /\ UNCHANGED <<store, outbox>> /\ UNCHANGED poolVars
  BY <1>1, <1>2 DEF OnSubmitTask, osVars
<1>4. h \in Handler /\ h \in Conn /\ UNCHANGED <<wants, sent, up>> /\ stack[h] = <<>>
  BY <1>3, ReceivingFacts
<1>5. submitted' = submitted \cup {s} /\ s \notin submitted
  BY <1>1, <1>3, GrowsSubmit DEF Table!register_task, ClusterInv
<1>6. \A x, t : InReport(x, t)' <=> InReport(x, t) BY <1>3, ReadReport
<1>7. \A x, t : OnHead(x, t)' <=> OnHead(x, t)
  <2>1. /\ stack'[h] # <<>> /\ stack'[h][1] = f /\ stack' = [stack EXCEPT ![h] = stack'[h]]
    BY <1>3, <1>4, TwoElements DEF Enter, ClusterInv, StackInv
  <2>2. f.at \in {"flush", "recheck"} BY <1>2 DEF Submitting, Frame
  <2>3. \A x, t : OnHead(x, t)' <=>
            \/ x # h /\ OnHead(x, t)
            \/ x = h /\ f.at \in {"resolveLocal", "resolveReply"} /\ f.task = t
    BY <1>4, <2>1, NowOnHead DEF ClusterInv
  <2>4. \A t : ~ OnHead(h, t) BY <1>4, NotOnHead
  <2>5. QED BY <2>2, <2>3, <2>4
<1>8. \A k, x : ~ In(k, x, s) BY <1>5, InSubmitted
<1>9. ready \in Seq(submitted) /\ IsInjective(ready) /\ s \notin ToSet(ready)
  BY <1>5, SequenceOver DEF ClusterInv, SchedInv, OneInv, OnceEach
<1>10. PICK new : /\ new \in {"ready", "scheduler"} /\ IsInjective(ready')
                  /\ \A t : t \in ToSet(ready') <=>
                         t \in ToSet(ready) \/ (new = "ready" /\ t = s)
                  /\ \A t : t \in pending' <=>
                         t \in pending \/ (new = "scheduler" /\ t = s)
  <2>1. CASE a = <<>>
    <3>1. ready' = Append(ready, s) /\ UNCHANGED pending
      BY <1>3, <2>1 DEF Sched!SchedSubmit
    <3>2. ready \in Seq(submitted') /\ s \in submitted'
      BY <1>5, <1>9, SequenceOver, SequenceIn
    <3>3. ToSet(ready') = ToSet(ready) \cup {s} /\ IsInjective(ready')
      BY <1>9, <3>1, <3>2, AppendElements
    <3>4. QED BY <3>1, <3>3
  <2>2. CASE a # <<>>
    <3>1. pending' = pending \cup {s} /\ UNCHANGED ready
      BY <1>3, <2>2 DEF Sched!SchedSubmit
    <3>2. QED BY <1>9, <3>1
  <2>3. QED BY <2>1, <2>2
<1>11. \A k, x, t : In(k, x, t)' <=> In(k, x, t) \/ (k = new /\ x = Nothing /\ t = s)
  BY <1>3, <1>4, <1>6, <1>7, <1>10, StaysIn DEF In, poolVars
<1>12. Alone'
  <2> SUFFICES ASSUME NEW t, NEW k, NEW x, NEW l, NEW y, In(k, x, t)', In(l, y, t)'
               PROVE  k = l /\ x = y
    BY DEF Alone
  <2>1. CASE t = s BY <1>8, <1>11, <2>1
  <2>2. CASE t # s
    <3>1. In(k, x, t) /\ In(l, y, t) BY <1>11, <2>2
    <3>2. QED BY <3>1 DEF OneInv, Alone
  <2>3. QED BY <2>1, <2>2
<1>13. NoneLost'
  <2> SUFFICES ASSUME up' = Node, NEW t \in submitted'
               PROVE  \E k, x : In(k, x, t)'
    BY DEF NoneLost
  <2>1. CASE t = s
    <3>1. In(new, Nothing, t)' BY <1>11, <2>1
    <3>2. QED BY <3>1
  <2>2. CASE t # s
    <3>1. PICK k, x : In(k, x, t) BY <1>4, <1>5, <2>2 DEF OneInv, NoneLost
    <3>2. In(k, x, t)' BY <1>11, <3>1
    <3>3. QED BY <3>2
  <2>3. QED BY <2>1, <2>2
<1>14. OnceEach' BY <1>3, <1>10 DEF OneInv, OnceEach, Distinct, poolVars
<1>15. QED BY <1>12, <1>13, <1>14 DEF OneInv
-----------------------------------------------------------------------------
LEMMA InitOne == Init => OneInv
<1> SUFFICES ASSUME Init PROVE OneInv OBVIOUS
<1>1. /\ submitted = {} /\ ClusterInv /\ ready = <<>>
      /\ taskQueue = [p \in Pool |-> <<>>] /\ results = [p \in Pool |-> <<>>]
      /\ executing = [p \in Pool |-> {}]
  BY InitInv DEF Init, Table!TableInit, Sched!SchedInit
<1>2. \A k, x, t : ~ In(k, x, t) BY <1>1, InSubmitted
<1>3. Alone /\ NoneLost BY <1>1, <1>2 DEF Alone, NoneLost
<1>4. OnceEach BY <1>1, NoElement DEF OnceEach, Distinct, IsInjective
<1>5. QED BY <1>3, <1>4 DEF OneInv

LEMMA HeadStepOne ==
    ASSUME ClusterInv, OneInv, NEW h \in Handler, HeadStep(h)
    PROVE  OneInv'
<1>1. CASE Dispatch(h)
  <2>1. CASE OnContainsObject(h)
    <3>1. PICK o, msg : /\ Receiving(h, "contains_object") /\ Answer(h, msg)
                        /\ msg = Msg("contains", o, Store!contains(o))
                        /\ UNCHANGED headVars /\ UNCHANGED poolVars
      BY <2>1 DEF OnContainsObject
    <3>2. msg.cmd = "contains" BY <3>1 DEF Msg
    <3>3. QED BY <3>1, <3>2, AnswerOne
  <2>2. CASE OnPollEmpty(h)
    <3>1. PICK msg : /\ Receiving(h, "poll_task") /\ Answer(h, msg)
                     /\ msg = Msg("no_task", Nothing, Nothing)
                     /\ UNCHANGED headVars /\ UNCHANGED poolVars
      BY <2>2 DEF OnPollEmpty
    <3>2. msg.cmd = "no_task" BY <3>1 DEF Msg
    <3>3. QED BY <3>1, <3>2, AnswerOne
  <2>3. QED
    BY <1>1, <2>1, <2>2, SubmitTaskOne, GetObjectOne, PollTaskOne, TaskResultOne
    DEF Dispatch
<1>2. QED
  BY <1>1, BlockOne, AnnounceOne, FlushDoneOne, RecheckOne, FlushNextOne, ResolveArgOne,
     QueueLocalOne, ReplyTaskOne, SendReplyOne
  DEF HeadStep

LEMMA NextOne == ClusterInv /\ OneInv /\ [Next]_vars => OneInv'
<1> SUFFICES ASSUME ClusterInv, OneInv, [Next]_vars PROVE OneInv'
  OBVIOUS
<1>1. CASE UNCHANGED vars
  <2>1. UNCHANGED headVars /\ UNCHANGED connVars /\ UNCHANGED poolVars BY <1>1 DEF vars
  <2>2. UNCHANGED <<store, submitted, pending, ready, stack>>
    BY <2>1 DEF headVars, osVars, schedVars, tableVars
  <2>3. QED BY <2>1, <2>2, QuietHandler, StaysIn DEF connVars
<1>2. ASSUME NEW k \in Conn, NEW c \in ThreadsOf(k), Send(k, c) PROVE OneInv'
  <2>1. CASE k \in Node BY <1>2, <2>1, NodeSendOne
  <2>2. CASE k \notin Node
    <3>1. k \in Client /\ c \in User BY <2>2 DEF Conn, ThreadsOf
    <3>2. QED BY <1>2, <3>1, UserOne
  <2>3. QED BY <2>1, <2>2
<1>3. QED
  BY <1>1, <1>2, HeadStepOne, CollectLocalOne, UserOne, NodeReturnOne, TakeResultOne,
     StopOne, PoolStepOne
  DEF Next
-----------------------------------------------------------------------------
(***************************************************************************)
(* The places OneCopy counts, as the kinds of place above.                 *)
(***************************************************************************)
AtKind(a, t) ==
    \/ a = <<"scheduler", t>> /\ t \in pending
    \/ \E i \in DOMAIN ready : a = <<"ready", i>> /\ ready[i] = t
    \/ \E h : a = <<"head", h>> /\ OnHead(h, t)
    \/ a = <<"store", t>> /\ Store!contains(t)
    \/ \E n : a = <<"polled", n, 1>> /\ InReply(n, t)
    \/ \E n : a = <<"reported", n, 1>> /\ InReport(n, t)
    \/ \E n : a = <<"reporter", n>> /\ AtReporter(n, t)
    \/ \E p \in Pool : \E i \in DOMAIN taskQueue[p] :
          a = <<"queue", p, i>> /\ taskQueue[p][i][1] = t
    \/ \E p \in Pool : \E e \in executing[p] : a = <<"worker", p, e>> /\ e[1] = t
    \/ \E p \in Pool : \E i \in DOMAIN results[p] :
          a = <<"result", p, i>> /\ results[p][i][1] = t

\* A connection of a node carries one message.
LEMMA OneReply ==
    ASSUME ClusterInv, NEW n \in Node, NEW t
    PROVE  OnWire(outbox[n], "task", t) = IF InReply(n, t) THEN {1} ELSE {}
<1>1. outbox[n] = <<>> \/ outbox[n] = <<Reply(n)>>
  BY DEF ClusterInv, WireInv, ConnOK, Conn, WireOK
<1>2. CASE outbox[n] = <<>> BY <1>2 DEF OnWire, InReply
<1>3. PICK m : m = Reply(n) OBVIOUS
<1>4. CASE outbox[n] # <<>>
  <2>1. outbox[n] = <<m>> BY <1>1, <1>3, <1>4
  <2>2. OnWire(outbox[n], "task", t) = {i \in {1} : m.cmd = "task" /\ m.task = t}
    BY <2>1 DEF OnWire
  <2>3. QED BY <1>3, <1>4, <2>2 DEF InReply
<1>5. QED BY <1>2, <1>4

LEMMA OneReport ==
    ASSUME ClusterInv, NEW n \in Node, NEW t
    PROVE  OnWire(inbox[n], "task_result", t) = IF InReport(n, t) THEN {1} ELSE {}
<1>1. inbox[n] = <<>> \/ inbox[n] = <<Head(inbox[n])>>
  BY DEF ClusterInv, WireInv, ConnOK, Conn, WireOK
<1>2. CASE inbox[n] = <<>> BY <1>2 DEF OnWire, InReport
<1>3. PICK m : m = Head(inbox[n]) OBVIOUS
<1>4. CASE inbox[n] # <<>>
  <2>1. inbox[n] = <<m>> BY <1>1, <1>3, <1>4
  <2>2. OnWire(inbox[n], "task_result", t)
          = {i \in {1} : m.cmd = "task_result" /\ m.task = t}
    BY <2>1 DEF OnWire
  <2>3. QED BY <1>3, <1>4, <2>2 DEF InReport
<1>5. QED BY <1>2, <1>4

LEMMA OfWires ==
    ASSUME NEW a, NEW place, NEW wire, NEW cmd, NEW t
    PROVE  a \in WirePlaces(place, wire, cmd, t) <=>
               \E n \in Node : \E i \in OnWire(wire[n], cmd, t) : a = <<place, n, i>>
BY DEF WirePlaces

LEMMA OfPools ==
    ASSUME NEW a, NEW place, NEW copies
    PROVE  a \in PoolPlaces(place, copies) <=>
               \E p \in Pool : \E c \in copies[p] : a = <<place, p, c>>
BY DEF PoolPlaces

LEMMA WherePlaces ==
    ASSUME NEW t, NEW a
    PROVE  a \in Places(t) <=>
               \/ a = <<"scheduler", t>> /\ t \in pending
               \/ \E i \in DOMAIN ready : a = <<"ready", i>> /\ ready[i] = t
               \/ \E h : a = <<"head", h>> /\ OnHead(h, t)
               \/ a = <<"store", t>> /\ Store!contains(t)
               \/ \E n \in Node : \E i \in OnWire(outbox[n], "task", t) :
                     a = <<"polled", n, i>>
               \/ \E n \in Node : \E i \in OnWire(inbox[n], "task_result", t) :
                     a = <<"reported", n, i>>
               \/ \E n : a = <<"reporter", n>> /\ AtReporter(n, t)
               \/ \E p \in Pool : \E i \in Held(taskQueue[p], t) : a = <<"queue", p, i>>
               \/ \E p \in Pool : \E e \in executing[p] :
                     a = <<"worker", p, e>> /\ e[1] = t
               \/ \E p \in Pool : \E i \in Held(results[p], t) : a = <<"result", p, i>>
<1> DEFINE queued == [p \in Pool |-> Held(taskQueue[p], t)]
           running == [p \in Pool |-> {e \in executing[p] : e[1] = t}]
           finished == [p \in Pool |-> Held(results[p], t)]
<1>1. a \in PoolPlaces("queue", queued) <=>
          \E p \in Pool : \E i \in Held(taskQueue[p], t) : a = <<"queue", p, i>>
  BY OfPools
<1>2. a \in PoolPlaces("worker", running) <=>
          \E p \in Pool : \E e \in executing[p] : a = <<"worker", p, e>> /\ e[1] = t
  BY OfPools
<1>3. a \in PoolPlaces("result", finished) <=>
          \E p \in Pool : \E i \in Held(results[p], t) : a = <<"result", p, i>>
  BY OfPools
<1>4. /\ a \in WirePlaces("polled", outbox, "task", t) <=>
            \E n \in Node : \E i \in OnWire(outbox[n], "task", t) : a = <<"polled", n, i>>
      /\ a \in WirePlaces("reported", inbox, "task_result", t) <=>
            \E n \in Node : \E i \in OnWire(inbox[n], "task_result", t) :
                a = <<"reported", n, i>>
  BY OfWires
<1>5. a \in Places(t) <=>
          \/ a = <<"scheduler", t>> /\ t \in pending
          \/ \E i \in DOMAIN ready : a = <<"ready", i>> /\ ready[i] = t
          \/ \E h : a = <<"head", h>> /\ OnHead(h, t)
          \/ a = <<"store", t>> /\ Store!contains(t)
          \/ a \in WirePlaces("polled", outbox, "task", t)
          \/ a \in WirePlaces("reported", inbox, "task_result", t)
          \/ \E n : a = <<"reporter", n>> /\ AtReporter(n, t)
          \/ a \in PoolPlaces("queue", queued)
          \/ a \in PoolPlaces("worker", running)
          \/ a \in PoolPlaces("result", finished)
  BY DEF Places, OnHead, AtReporter
<1> HIDE DEF queued, running, finished
<1>6. QED BY <1>1, <1>2, <1>3, <1>4, <1>5

LEMMA PlacesAreKinds ==
    ASSUME ClusterInv, NEW t, NEW a \in Places(t)
    PROVE  AtKind(a, t)
<1>1. ASSUME NEW n \in Node, NEW i \in OnWire(outbox[n], "task", t), a = <<"polled", n, i>>
      PROVE  AtKind(a, t)
  <2>1. i = 1 /\ InReply(n, t) BY OneReply
  <2>2. QED BY <1>1, <2>1 DEF AtKind
<1>2. ASSUME NEW n \in Node, NEW i \in OnWire(inbox[n], "task_result", t),
             a = <<"reported", n, i>>
      PROVE  AtKind(a, t)
  <2>1. i = 1 /\ InReport(n, t) BY OneReport
  <2>2. QED BY <1>2, <2>1 DEF AtKind
<1>3. QED BY <1>1, <1>2, WherePlaces DEF AtKind, Held

\* The place of a task in its kind: where Alone says it is.
Spot(a) ==
    IF a[1] \in {"scheduler", "ready", "store"} THEN Nothing ELSE a[2]

LEMMA KindsAreIn ==
    ASSUME NEW t \in Task, NEW a, AtKind(a, t)
    PROVE  In(a[1], Spot(a), t)
<1>1. CASE a = <<"scheduler", t>> /\ t \in pending BY <1>1 DEF Spot, In
<1>2. CASE \E i \in DOMAIN ready : a = <<"ready", i>> /\ ready[i] = t
  BY <1>2 DEF Spot, In, ToSet
<1>3. CASE \E h : a = <<"head", h>> /\ OnHead(h, t) BY <1>3 DEF Spot, In
<1>4. CASE a = <<"store", t>> /\ Store!contains(t) BY <1>4 DEF Spot, In
<1>5. CASE \E n : a = <<"polled", n, 1>> /\ InReply(n, t) BY <1>5 DEF Spot, In
<1>6. CASE \E n : a = <<"reported", n, 1>> /\ InReport(n, t) BY <1>6 DEF Spot, In
<1>7. CASE \E n : a = <<"reporter", n>> /\ AtReporter(n, t) BY <1>7 DEF Spot, In
<1>8. CASE \E p \in Pool : \E i \in DOMAIN taskQueue[p] :
              a = <<"queue", p, i>> /\ taskQueue[p][i][1] = t
  <2>1. PICK p \in Pool : \E i \in DOMAIN taskQueue[p] :
              a = <<"queue", p, i>> /\ taskQueue[p][i][1] = t
    BY <1>8
  <2>2. InQueue(p, t) BY <2>1 DEF InQueue, Holds, ToSet
  <2>3. QED BY <2>1, <2>2 DEF Spot, In
<1>9. CASE \E p \in Pool : \E e \in executing[p] : a = <<"worker", p, e>> /\ e[1] = t
  <2>1. PICK p \in Pool : \E e \in executing[p] : a = <<"worker", p, e>> /\ e[1] = t
    BY <1>9
  <2>2. AtWorker(p, t) BY <2>1 DEF AtWorker
  <2>3. QED BY <2>1, <2>2 DEF Spot, In
<1>10. CASE \E p \in Pool : \E i \in DOMAIN results[p] :
               a = <<"result", p, i>> /\ results[p][i][1] = t
  <2>1. PICK p \in Pool : \E i \in DOMAIN results[p] :
              a = <<"result", p, i>> /\ results[p][i][1] = t
    BY <1>10
  <2>2. InResults(p, t) BY <2>1 DEF InResults, Holds, ToSet
  <2>3. QED BY <2>1, <2>2 DEF Spot, In
<1>11. QED
  BY <1>1, <1>2, <1>3, <1>4, <1>5, <1>6, <1>7, <1>8, <1>9, <1>10 DEF AtKind

LEMMA OnePlace ==
    ASSUME ClusterInv, OneInv, NEW t \in Task, NEW a \in Places(t), NEW b \in Places(t)
    PROVE  a = b
<1>1. AtKind(a, t) /\ AtKind(b, t) BY PlacesAreKinds
<1>2. In(a[1], Spot(a), t) /\ In(b[1], Spot(b), t) BY <1>1, KindsAreIn
<1>3. a[1] = b[1] /\ Spot(a) = Spot(b) BY <1>2 DEF OneInv, Alone
<1>4. CASE a[1] \in {"scheduler", "store"} BY <1>1, <1>3, <1>4 DEF AtKind
<1>5. CASE a[1] = "ready"
  <2> b[1] = "ready" BY <1>3, <1>5
  <2>1. PICK i \in DOMAIN ready : a = <<"ready", i>> /\ ready[i] = t
    BY <1>1, <1>5 DEF AtKind
  <2>2. PICK j \in DOMAIN ready : b = <<"ready", j>> /\ ready[j] = t
    BY <1>1 DEF AtKind
  <2>3. QED BY <2>1, <2>2 DEF OneInv, OnceEach, IsInjective
<1>6. CASE a[1] \in {"head", "polled", "reported", "reporter"}
  <2>1. /\ Spot(a) = a[2] /\ Spot(b) = b[2] BY <1>3, <1>6 DEF Spot
  <2>2. CASE a[1] \in {"head", "reporter"}
    <3>1. a = <<a[1], a[2]>> BY <1>1, <2>2 DEF AtKind
    <3>2. b = <<b[1], b[2]>>
      <4>1. b[1] \in {"head", "reporter"} BY <1>3, <2>2
      <4>2. QED BY <1>1, <4>1 DEF AtKind
    <3>3. QED BY <1>3, <2>1, <3>1, <3>2
  <2>3. CASE a[1] \in {"polled", "reported"}
    <3>1. a = <<a[1], a[2], 1>> BY <1>1, <2>3 DEF AtKind
    <3>2. b = <<b[1], b[2], 1>>
      <4>1. b[1] \in {"polled", "reported"} BY <1>3, <2>3
      <4>2. QED BY <1>1, <4>1 DEF AtKind
    <3>3. QED BY <1>3, <2>1, <3>1, <3>2
  <2>4. QED BY <1>6, <2>2, <2>3
<1>7. CASE a[1] = "queue"
  <2> b[1] = "queue" BY <1>3, <1>7
  <2>1. PICK p \in Pool : \E i \in DOMAIN taskQueue[p] :
              a = <<"queue", p, i>> /\ taskQueue[p][i][1] = t
    BY <1>1, <1>7 DEF AtKind
  <2>2. PICK q \in Pool : \E i \in DOMAIN taskQueue[q] :
              b = <<"queue", q, i>> /\ taskQueue[q][i][1] = t
    BY <1>1 DEF AtKind
  <2>3. p = q BY <1>3, <1>7, <2>1, <2>2 DEF Spot
  <2>4. QED BY <2>1, <2>2, <2>3 DEF OneInv, OnceEach, Distinct
<1>8. CASE a[1] = "worker"
  <2> b[1] = "worker" BY <1>3, <1>8
  <2>1. PICK p \in Pool : \E e \in executing[p] : a = <<"worker", p, e>> /\ e[1] = t
    BY <1>1, <1>8 DEF AtKind
  <2>2. PICK q \in Pool : \E e \in executing[q] : b = <<"worker", q, e>> /\ e[1] = t
    BY <1>1 DEF AtKind
  <2>3. p = q BY <1>3, <1>8, <2>1, <2>2 DEF Spot
  <2>4. QED BY <2>1, <2>2, <2>3 DEF OneInv, OnceEach
<1>9. CASE a[1] = "result"
  <2> b[1] = "result" BY <1>3, <1>9
  <2>1. PICK p \in Pool : \E i \in DOMAIN results[p] :
              a = <<"result", p, i>> /\ results[p][i][1] = t
    BY <1>1, <1>9 DEF AtKind
  <2>2. PICK q \in Pool : \E i \in DOMAIN results[q] :
              b = <<"result", q, i>> /\ results[q][i][1] = t
    BY <1>1 DEF AtKind
  <2>3. p = q BY <1>3, <1>9, <2>1, <2>2 DEF Spot
  <2>4. QED BY <2>1, <2>2, <2>3 DEF OneInv, OnceEach, Distinct
<1>10. QED BY <1>1, <1>4, <1>5, <1>6, <1>7, <1>8, <1>9 DEF AtKind

\* Where a task is is one of its places.
LEMMA InAPlace ==
    ASSUME ClusterInv, NEW k, NEW x, NEW t, In(k, x, t)
    PROVE  Places(t) # {}
<1> SUFFICES \E a : a \in Places(t) OBVIOUS
<1>1. CASE t \in pending
  <2>1. <<"scheduler", t>> \in Places(t) BY <1>1, WherePlaces
  <2>2. QED BY <2>1
<1>2. CASE t \in ToSet(ready)
  <2>1. PICK i \in DOMAIN ready : ready[i] = t BY <1>2 DEF ToSet
  <2>2. <<"ready", i>> \in Places(t) BY <2>1, WherePlaces
  <2>3. QED BY <2>2
<1>3. CASE OnHead(x, t)
  <2>1. <<"head", x>> \in Places(t) BY <1>3, WherePlaces
  <2>2. QED BY <2>1
<1>4. CASE t \in Task /\ Store!contains(t)
  <2>1. <<"store", t>> \in Places(t) BY <1>4, WherePlaces
  <2>2. QED BY <2>1
<1>5. CASE InReply(x, t)
  <2>1. x \in Node /\ 1 \in OnWire(outbox[x], "task", t) BY <1>5, OneReply DEF InReply
  <2>2. <<"polled", x, 1>> \in Places(t) BY <2>1, WherePlaces
  <2>3. QED BY <2>2
<1>6. CASE InReport(x, t)
  <2>1. x \in Node /\ 1 \in OnWire(inbox[x], "task_result", t)
    BY <1>6, OneReport DEF InReport
  <2>2. <<"reported", x, 1>> \in Places(t) BY <2>1, WherePlaces
  <2>3. QED BY <2>2
<1>7. CASE AtReporter(x, t)
  <2>1. <<"reporter", x>> \in Places(t) BY <1>7, WherePlaces
  <2>2. QED BY <2>1
<1>8. CASE InQueue(x, t)
  <2>1. PICK i \in Held(taskQueue[x], t) : x \in Pool
    BY <1>8 DEF InQueue, Holds, Held, ToSet
  <2>2. <<"queue", x, i>> \in Places(t) BY <2>1, WherePlaces
  <2>3. QED BY <2>2
<1>9. CASE AtWorker(x, t)
  <2>1. PICK e \in executing[x] : x \in Pool /\ e[1] = t BY <1>9 DEF AtWorker
  <2>2. <<"worker", x, e>> \in Places(t) BY <2>1, WherePlaces
  <2>3. QED BY <2>2
<1>10. CASE InResults(x, t)
  <2>1. PICK i \in Held(results[x], t) : x \in Pool
    BY <1>10 DEF InResults, Holds, Held, ToSet
  <2>2. <<"result", x, i>> \in Places(t) BY <2>1, WherePlaces
  <2>3. QED BY <2>2
<1>11. QED
  BY <1>1, <1>2, <1>3, <1>4, <1>5, <1>6, <1>7, <1>8, <1>9, <1>10 DEF In

LEMMA OneInvIsOneCopy == ClusterInv /\ OneInv => OneCopy
<1> SUFFICES ASSUME ClusterInv, OneInv, NEW t \in submitted
             PROVE  /\ Cardinality(Places(t)) <= 1
                    /\ up = Node => Places(t) # {}
  BY DEF OneCopy
<1>1. t \in Task BY DEF ClusterInv, TaskInv
<1>2. Cardinality(Places(t)) <= 1
  <2>1. CASE Places(t) = {} BY <2>1, FS_EmptySet
  <2>2. CASE Places(t) # {}
    <3>1. PICK a : a \in Places(t) BY <2>2
    <3>2. Places(t) = {a} BY <1>1, <3>1, OnePlace
    <3>3. Cardinality({a}) = 1 BY FS_Singleton
    <3>4. QED BY <3>2, <3>3
  <2>3. QED BY <2>1, <2>2
<1>3. ASSUME up = Node PROVE Places(t) # {}
  <2>1. PICK k, x : In(k, x, t) BY <1>3 DEF OneInv, NoneLost
  <2>2. QED BY <2>1, InAPlace
<1>4. QED BY <1>2, <1>3

(***************************************************************************)
(* A task is in one place at a time, from scheduler.submit until its       *)
(* result is stored, and only a node that stops loses it: what head.py     *)
(* takes from the ready queue (167-175, 234-250) it puts in one pool or    *)
(* sends to one node, a worker of node.py (37-65) takes it from one queue, *)
(* and its result reaches the store of the head once (head.py:340-359).    *)
(***************************************************************************)
THEOREM ClusterOneCopy == Spec => []OneCopy
<1>1. ClusterInv /\ OneInv /\ [Next]_vars => (ClusterInv /\ OneInv)'
  BY NextInv, NextOne
<1>2. Init => ClusterInv /\ OneInv BY InitInv, InitOne
<1>3. QED BY <1>1, <1>2, OneInvIsOneCopy, PTL DEF Spec
====
