------------------------- MODULE ObjectStoreThreads -------------------------
(***************************************************************************)
(* The object store with threads that call it as they please.  Objects in  *)
(* Deletable may be deleted; the others stay once they are put, as every   *)
(* object does in a program that never calls evict.                        *)
(***************************************************************************)
EXTENDS ObjectStore

CONSTANTS Value,      \* what may be stored
          Deletable,  \* the objects some thread may delete
          KeyError    \* the outcome of a get whose object is gone when it wakes

ASSUME StoreAssumption ==
    /\ Deletable \subseteq Object
    /\ Absent \notin Value
    /\ Nothing \notin Object

VARIABLE outcome   \* what the last get_or_wait of each thread returned or raised

vars == <<osVars, outcome>>

Init ==
    /\ OSInit
    /\ outcome = [th \in Thread |-> Nothing]

Idle(th) == blocked[th] = Nothing /\ PutDone(th)

Put(th, o, v) == Idle(th) /\ PutStore(th, o, v) /\ UNCHANGED outcome

Signal(th) == PutSignal(th) /\ UNCHANGED outcome

GetOrWait(th, o) ==
    /\ Idle(th)
    /\ \/ /\ contains(o)
          /\ outcome' = [outcome EXCEPT ![th] = store[o]]
          /\ UNCHANGED osVars
       \/ StartWait(th, o) /\ UNCHANGED outcome

\* `return self._store[object_id]`, outside the lock.
Wake(th) ==
    /\ EndWait(th)
    /\ outcome' = [outcome EXCEPT ![th] =
                      IF contains(blocked[th]) THEN store[blocked[th]] ELSE KeyError]

Timeout(th) ==
    /\ TimeoutWait(th)
    /\ outcome' = [outcome EXCEPT ![th] = Nothing]

Evict(th, o) == Idle(th) /\ Delete(o) /\ UNCHANGED outcome

Next ==
    \E th \in Thread :
        \/ \E o \in Object, v \in Value : Put(th, o, v)
        \/ Signal(th)
        \/ \E o \in Object : GetOrWait(th, o)
        \/ Wake(th)
        \/ Timeout(th)
        \/ \E o \in Deletable : Evict(th, o)

\* A thread that may run does run; nobody has to call anything.
Fairness == \A th \in Thread : WF_vars(Signal(th)) /\ WF_vars(Wake(th))

Spec == Init /\ [][Next]_vars /\ Fairness
-----------------------------------------------------------------------------
TypeOK ==
    /\ store \in [Object -> Value \cup {Absent}]
    /\ waiting \in [Object -> SUBSET Thread]
    /\ blocked \in [Thread -> Object \cup {Nothing}]
    /\ signalling \in [Thread -> SUBSET Thread]
    /\ woken \subseteq Thread

\* The event the thread waits on is set, or is about to be by a put under way.
Notified(th) == th \in woken \/ \E p \in Thread : th \in signalling[p]

(***************************************************************************)
(* put wakes every waiter although it sets the event after it has released *)
(* the lock: a thread that waits for an object nobody deletes waits on the *)
(* event the next put will look up, or, once the object is there, has been *)
(* or is about to be notified.                                             *)
(***************************************************************************)
NoLostWakeup ==
    \A th \in Thread, o \in Object \ Deletable :
        blocked[th] = o =>
            IF contains(o) THEN Notified(th) ELSE th \in waiting[o]

(***************************************************************************)
(* "Object must be available now" (object_store.py:57): the read without   *)
(* the lock that ends get_or_wait finds the object, if nobody deletes it.  *)
(***************************************************************************)
AvailableWhenWoken ==
    \A th \in woken : blocked[th] \in Object \ Deletable => contains(blocked[th])

(***************************************************************************)
(* "Store an immutable object and wake up any waiters."                    *)
(* (object_store.py:29), the waiters of a deleted object included.         *)
(***************************************************************************)
PutWakesEveryWaiter ==
    \A th \in Thread :
        blocked[th] # Nothing /\ contains(blocked[th]) => Notified(th)

(***************************************************************************)
(* The store is a blocking map: put takes effect when the dictionary is    *)
(* written, and a get when it reads the dictionary for the last time.      *)
(***************************************************************************)
BM == INSTANCE BlockingMap
        WITH map <- store, wanted <- blocked, result <- outcome, Failed <- KeyError

BlockingMapSafety == BM!BMSafety
BlockingMapLive == BM!BMLive
=============================================================================
