------------------------------- MODULE Actor -------------------------------
(***************************************************************************)
(* An actor (actor.py): a handle shared by the threads of a program, which *)
(* turns every method call into two tasks, one that runs the method on the *)
(* state left by the task before it and one that extracts the result.      *)
(*                                                                         *)
(* The runtime below is the one Futures promises: a task runs when the     *)
(* objects it depends on are there, on their values.  A method that raises *)
(* leaves a _TaskError, which is not subscriptable: the tasks that depend  *)
(* on it raise in turn, or, if they were submitted before, never run; so   *)
(* does an __init__ that raises.                                           *)
(*                                                                         *)
(* The state of the actor is the sequence of the calls made on it.         *)
(***************************************************************************)
EXTENDS Naturals, Sequences, SequencesExt

CONSTANTS Caller,     \* the threads that share the handle
          MaxCalls,   \* bound: the number of calls
          Raises,     \* the calls whose method raises
          Unresolved, Nothing, Error

Call == 1 .. MaxCalls

ASSUME ActorAssumption ==
    /\ MaxCalls \in Nat /\ Raises \subseteq Call
    /\ Nothing \notin Caller /\ Nothing \notin 0 .. MaxCalls
    /\ Error # Unresolved /\ Error \notin Seq(Call)

Init0 == 0   \* the call that creates the actor

VARIABLES
    calls,      \* the number of calls so far
    making,     \* the call each thread is making, or Nothing
    lock,       \* the thread that holds _call_lock, or Nothing
    prevRef,    \* prev_ref of each call under way
    lastRef,    \* _last_ref: the state task of this call
    chained,    \* the state tasks submitted: the state task each depends on
    order,      \* history: their calls, in the order they were submitted
    extracted,  \* the calls whose extractor is submitted
    argsReady,  \* the calls whose other arguments are there
    state,      \* what the state task of each call resolved to
    result      \* what the extractor of each call resolved to

callVars == <<calls, making, lock, prevRef>>
taskVars == <<lastRef, chained, order, extracted>>
valueVars == <<argsReady, state, result>>
vars == <<callVars, taskVars, valueVars>>

\* _create: the task that runs __init__ is submitted; nobody has the handle yet.
Init ==
    /\ calls = 0
    /\ making = [u \in Caller |-> Nothing]
    /\ lock = Nothing
    /\ prevRef = [u \in Caller |-> Nothing]
    /\ lastRef = Init0
    /\ chained = [c \in Call |-> Nothing]
    /\ order = <<>>
    /\ extracted = {}
    /\ argsReady = {}
    /\ state = [c \in Call \cup {Init0} |-> Unresolved]
    /\ result = [c \in Call |-> Unresolved]
-----------------------------------------------------------------------------
(***************************************************************************)
(* _ActorMethodCaller.remote.                                              *)
(***************************************************************************)
Begin(u) ==
    /\ making[u] = Nothing /\ calls < MaxCalls
    /\ calls' = calls + 1
    /\ making' = [making EXCEPT ![u] = calls + 1]
    /\ UNCHANGED <<lock, prevRef, taskVars, valueVars>>

\* `with handle._call_lock: prev_ref = handle._last_ref`
\* Mutant: without the lock.
AcquireUnlocked(u) ==
    /\ making[u] # Nothing /\ prevRef[u] = Nothing
    /\ lock' = u
    /\ prevRef' = [prevRef EXCEPT ![u] = lastRef]
    /\ UNCHANGED <<calls, making, taskVars, valueVars>>

Acquire(u) ==
    /\ making[u] # Nothing /\ prevRef[u] = Nothing
    /\ lock = Nothing
    /\ lock' = u
    /\ prevRef' = [prevRef EXCEPT ![u] = lastRef]
    /\ UNCHANGED <<calls, making, taskVars, valueVars>>

\* Mutant: _last_ref is not updated.
ChainKeepsLast(u) ==
    LET c == making[u] IN
    /\ prevRef[u] # Nothing /\ chained[c] = Nothing
    /\ chained' = [chained EXCEPT ![c] = prevRef[u]]
    /\ order' = Append(order, c)
    /\ UNCHANGED <<callVars, lastRef, extracted, valueVars>>

\* The state task is submitted and becomes _last_ref.
Chain(u) ==
    LET c == making[u] IN
    /\ prevRef[u] # Nothing /\ chained[c] = Nothing
    /\ chained' = [chained EXCEPT ![c] = prevRef[u]]
    /\ order' = Append(order, c)
    /\ lastRef' = c
    /\ UNCHANGED <<callVars, extracted, valueVars>>

\* Mutant: the lock is not released.
ExtractKeepsLock(u) ==
    /\ prevRef[u] # Nothing /\ chained[making[u]] # Nothing
    /\ extracted' = extracted \cup {making[u]}
    /\ prevRef' = [prevRef EXCEPT ![u] = Nothing]
    /\ making' = [making EXCEPT ![u] = Nothing]
    /\ UNCHANGED <<calls, lock, lastRef, chained, order, valueVars>>

\* The extractor is submitted, the lock released and the ObjectRef returned.
Extract(u) ==
    /\ prevRef[u] # Nothing /\ chained[making[u]] # Nothing
    /\ extracted' = extracted \cup {making[u]}
    /\ lock' = Nothing
    /\ prevRef' = [prevRef EXCEPT ![u] = Nothing]
    /\ making' = [making EXCEPT ![u] = Nothing]
    /\ UNCHANGED <<calls, lastRef, chained, order, valueVars>>
-----------------------------------------------------------------------------
(***************************************************************************)
(* The tasks, on the workers.                                              *)
(***************************************************************************)
\* _init_actor: __init__ may raise.
Create ==
    /\ state[Init0] = Unresolved
    /\ \E made \in {<<>>, Error} : state' = [state EXCEPT ![Init0] = made]
    /\ UNCHANGED <<callVars, taskVars, argsReady, result>>

\* Another argument of the call, an ObjectRef, becomes available.
ArgsReady(c) ==
    /\ c \in 1 .. calls /\ c \notin argsReady
    /\ argsReady' = argsReady \cup {c}
    /\ UNCHANGED <<callVars, taskVars, state, result>>

\* _actor_method_task and call_method, on the state the task before it left.
Before(c) == state[chained[c]]

RunMethod(c) ==
    /\ chained[c] # Nothing /\ c \in argsReady
    /\ state[c] = Unresolved /\ Before(c) \notin {Unresolved, Error}
    /\ state' = [state EXCEPT ![c] = IF c \in Raises THEN Error ELSE Append(Before(c), c)]
    /\ UNCHANGED <<callVars, taskVars, argsReady, result>>

\* _extract_return_value.  The method returned what it saw of the state.
ExtractValue(c) ==
    /\ c \in extracted
    /\ result[c] = Unresolved /\ state[c] \notin {Unresolved, Error}
    /\ result' = [result EXCEPT ![c] = state[c]]
    /\ UNCHANGED <<callVars, taskVars, argsReady, state>>

\* The tasks that depend on one that raised.
RaiseToo(c) ==
    /\ \/ /\ chained[c] # Nothing /\ c \in argsReady
          /\ state[c] = Unresolved /\ Before(c) = Error
          /\ state' = [state EXCEPT ![c] = Error]
          /\ UNCHANGED result
       \/ /\ c \in extracted
          /\ result[c] = Unresolved /\ state[c] = Error
          /\ result' = [result EXCEPT ![c] = Error]
          /\ UNCHANGED state
    /\ UNCHANGED <<callVars, taskVars, argsReady>>
-----------------------------------------------------------------------------
Remote(u) == Acquire(u) \/ Chain(u) \/ Extract(u)
Run(c) == ArgsReady(c) \/ RunMethod(c) \/ ExtractValue(c)

Next ==
    \/ \E u \in Caller : Begin(u) \/ Remote(u)
    \/ Create
    \/ \E c \in Call : Run(c) \/ RaiseToo(c)

\* Threads are scheduled, _call_lock is granted to whoever waits for it, and
\* the runtime resolves every future whose arguments are resolved.
Fairness ==
    /\ WF_vars(Create)
    /\ \A u \in Caller : WF_vars(Chain(u) \/ Extract(u)) /\ SF_vars(Acquire(u))
    /\ \A c \in Call : WF_vars(Run(c))

Spec == Init /\ [][Next]_vars /\ Fairness
-----------------------------------------------------------------------------
TypeOK ==
    /\ calls \in 0 .. MaxCalls
    /\ making \in [Caller -> Call \cup {Nothing}]
    /\ lock \in Caller \cup {Nothing}
    /\ lock # Nothing => making[lock] # Nothing
    /\ \A u \in Caller : prevRef[u] # Nothing <=> lock = u
    /\ prevRef \in [Caller -> (0 .. calls) \cup {Nothing}]
    /\ lastRef \in 0 .. calls
    /\ chained \in [Call -> (0 .. calls) \cup {Nothing}]
    /\ extracted \subseteq {c \in Call : chained[c] # Nothing}

(***************************************************************************)
(* The state tasks form one chain: no two calls run on the same state, and *)
(* none is left out (docs/design.md:223-224, actor.py:118-132).            *)
(***************************************************************************)
Chained == {c \in Call : chained[c] # Nothing}

OneChain ==
    /\ \A c, d \in Chained : chained[c] = chained[d] => c = d
    /\ \A c \in Chained : chained[c] \in Chained \cup {Init0}
    /\ {c \in Chained : \A d \in Chained : chained[d] # c}
          = IF Chained = {} THEN {} ELSE {lastRef}

(***************************************************************************)
(* "if you call counter.increment() five times, the results must be        *)
(* [1, 2, 3, 4, 5]" (docs/design.md:200-202), whatever the order in which  *)
(* the arguments of the calls become available and the tasks run; once a   *)
(* method has raised, the calls after it fail.                             *)
(***************************************************************************)
SO == INSTANCE SequentialObject WITH
          object <- state[Init0],
          open <- {c \in Call : \E u \in Caller : making[u] = c},
          log <- order,
          answer <- result

ActorIsSequential == SO!SOSafety

\* Every call gets its result, unless it comes after one that raised, or __init__
\* raised.
AfterRaise(c) ==
    \/ state[Init0] = Error
    \/ \E i \in DOMAIN order : order[i] = c /\ \E j \in 1 .. i : order[j] \in Raises

CallsAnswered == \A c \in Call : (calls >= c) ~> (result[c] # Unresolved \/ AfterRaise(c))
=============================================================================
