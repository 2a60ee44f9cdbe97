---------------------------- MODULE RuntimeCalls ----------------------------
(***************************************************************************)
(* Do the calls of the single-node runtime return?  A thread that has seen *)
(* an object may find it evicted by another thread when it needs it, so    *)
(* the answer depends on what was evicted while the call was in progress:  *)
(* Runtime with that as a history variable.                                *)
(***************************************************************************)
EXTENDS Runtime

VARIABLE lost   \* history: the objects evicted since each thread began its call

callsVars == <<vars, lost>>

CallsInit == Init /\ lost = [th \in Thread |-> {}]

Losing(u, o) ==
    /\ EvictObject(u, o)
    /\ lost' = [th \in Thread |-> IF stack[th] = <<>> THEN {} ELSE lost[th] \cup {o}]

CallsNext ==
    \/ /\ Next
       /\ evicts' = evicts
       /\ lost' = [th \in Thread |-> IF stack'[th] = <<>> THEN {} ELSE lost[th]]
    \/ \E u \in User, o \in refs : Losing(u, o)

CallsSpec == CallsInit /\ [][CallsNext]_callsVars /\ Fairness
-----------------------------------------------------------------------------
\* A copy of the task is with the workers or on its way to the collector.
UnderWay(t) ==
    \/ \E i \in DOMAIN taskQueue : taskQueue[i][1] = t
    \/ \E w \in Worker : running[w] # Nothing /\ running[w][1] = t
    \/ \E i \in DOMAIN resultQueue : resultQueue[i][1] = t

\* The thread waits on an event that delete has dropped and no put has hold of.
Forgotten(th) ==
    th \notin woken \cup waiting[blocked[th]] \cup UNION {signalling[p] : p \in Thread}

\* The thread sleeps for an object that was evicted after the call looked for
\* it, or, in a flush, after it was announced, and that nobody is computing.
Stranded(th) ==
    /\ blocked[th] # Nothing
    /\ At(th, "resolveFlush") \/ blocked[th] \in lost[th]
    /\ Forgotten(th) \/ ~ (Store!contains(blocked[th]) \/ UnderWay(blocked[th]))

\* The collector has ended, or sleeps for an object only it could store.
NobodyStores == Collector \in gone \/ (evicts > 0 /\ blocked[Collector] # Nothing)

\* wait without a deadline for more than is computed unasked and kept.
InVain(th) ==
    /\ At(th, "wait") /\ ~ Top(th).expired
    /\ \/ evicts > 0
       \/ Len(SelectSeq(Top(th).of, LAMBDA o : ~ Fut!onFailure[o])) < Top(th).num_returns

(***************************************************************************)
(* Every call returns: submit_task, although it sends whatever task is     *)
(* ready; get and reconstruct, which execute again what they look for and  *)
(* do not find (driver.py:235 and 276); and wait, when its deadline has    *)
(* passed or as many of its objects as it waits for are computed and kept. *)
(*                                                                         *)
(* The exceptions are evictions that fall inside the call: each of these   *)
(* looks for an object first and waits for it later (driver.py:219 and     *)
(* 330, 235 and 240, 276 and 288, 292 and 295), and nobody computes again  *)
(* what is evicted in between.  If that happens to the collector, or if it *)
(* has ended, no thread is promised anything.                              *)
(***************************************************************************)
CallsReturn ==
    \A th \in Thread :
        []<>(stack[th] = <<>> \/ InVain(th) \/ Stranded(th) \/ NobodyStores)
=============================================================================
