---------------------------- MODULE ObjectStore ----------------------------
(***************************************************************************)
(* The in-memory object store of nano-ray                                  *)
(* (python/nano_ray/_fallback/object_store.py): a dictionary of immutable  *)
(* task results and, for the objects somebody waits for, one               *)
(* threading.Event each.                                                   *)
(*                                                                         *)
(* Every operation is one critical section of _lock, except                *)
(*   - put, which releases the lock before it sets the event, and          *)
(*   - get_or_wait, which releases it before it waits and reads the        *)
(*     dictionary again, without the lock, once it has been woken.         *)
(*                                                                         *)
(* An Event is modelled by the threads that wait on it.  An event stays in *)
(* _events after it is set, but only as long as its object is in the store *)
(* (delete drops both), and no thread starts to wait for an object in the  *)
(* store: so a thread always starts to wait on an event nobody has set.    *)
(*                                                                         *)
(* The module has the state and the operations only.  Who calls them, and  *)
(* what is done with a result, is in the modules that compose it.          *)
(***************************************************************************)
CONSTANTS Object,   \* object ids
          Thread,   \* the threads of the process that use the store
          Absent,   \* store[o] = Absent: object_id not in self._store
          Nothing   \* blocked[th] = Nothing: th is not inside event.wait

VARIABLES
    store,       \* _store: the value of each object, or Absent
    waiting,     \* _events: waiting[o] = the threads on o's current event
    blocked,     \* the object each thread waits for in get_or_wait
    signalling,  \* the waiters of the event a put got hold of and has yet to set
    woken        \* the threads whose event is set

osVars == <<store, waiting, blocked, signalling, woken>>

OSInit ==
    /\ store = [o \in Object |-> Absent]
    /\ waiting = [o \in Object |-> {}]
    /\ blocked = [th \in Thread |-> Nothing]
    /\ signalling = [th \in Thread |-> {}]
    /\ woken = {}

contains(o) == store[o] # Absent

(***************************************************************************)
(* put, first half: under the lock, store the value and look the event up. *)
(* Second half, after the lock is released: event.set().  A put that found *)
(* no event, or whose waiters have all given up, has no second half.       *)
(***************************************************************************)
PutStore(th, o, v) ==
    /\ store' = [store EXCEPT ![o] = v]
    /\ signalling' = [signalling EXCEPT ![th] = waiting[o]]
    /\ UNCHANGED <<waiting, blocked, woken>>

PutDone(th) == signalling[th] = {}

\* Mutant: the event is looked up and never set.
PutSignalNotSet(th) ==
    /\ ~ PutDone(th)
    /\ signalling' = [signalling EXCEPT ![th] = {}]
    /\ UNCHANGED <<store, waiting, blocked, woken>>

PutSignal(th) ==
    /\ ~ PutDone(th)
    /\ woken' = woken \cup signalling[th]
    /\ signalling' = [signalling EXCEPT ![th] = {}]
    /\ UNCHANGED <<store, waiting, blocked>>

(***************************************************************************)
(* get_or_wait.  The fast path, when contains(o), returns store[o] and     *)
(* changes nothing.  Otherwise the thread joins o's event and sleeps; it   *)
(* leaves when the event is set, to read the store, or at its timeout.     *)
(***************************************************************************)
\* Mutants: the object is not looked for again under the lock; the wait is
\* registered for the thread instead of the object; all objects share one event.
StartWaitUnchecked(th, o) ==
    /\ blocked' = [blocked EXCEPT ![th] = o]
    /\ waiting' = [waiting EXCEPT ![o] = @ \cup {th}]
    /\ UNCHANGED <<store, signalling, woken>>

StartWaitSwapped(th, o) ==
    /\ ~ contains(o)
    /\ blocked' = [blocked EXCEPT ![th] = th]
    /\ waiting' = [waiting EXCEPT ![o] = @ \cup {th}]
    /\ UNCHANGED <<store, signalling, woken>>

StartWaitShared(th, o) ==
    /\ ~ contains(o)
    /\ blocked' = [blocked EXCEPT ![th] = o]
    /\ waiting' = [p \in Object |-> waiting[p] \cup {th}]
    /\ UNCHANGED <<store, signalling, woken>>

StartWait(th, o) ==
    /\ ~ contains(o)
    /\ blocked' = [blocked EXCEPT ![th] = o]
    /\ waiting' = [waiting EXCEPT ![o] = @ \cup {th}]
    /\ UNCHANGED <<store, signalling, woken>>

LeaveWait(th) ==
    /\ blocked' = [blocked EXCEPT ![th] = Nothing]
    /\ waiting' = [o \in Object |-> waiting[o] \ {th}]
    /\ signalling' = [p \in Thread |-> signalling[p] \ {th}]
    /\ woken' = woken \ {th}
    /\ UNCHANGED store

\* Mutant: a wait that ends without its event being set.
EndWaitSpurious(th) == blocked[th] # Nothing /\ LeaveWait(th)

EndWait(th) == th \in woken /\ LeaveWait(th)

TimeoutWait(th) ==
    /\ blocked[th] # Nothing
    /\ th \notin woken
    /\ LeaveWait(th)

(***************************************************************************)
(* delete drops the value and the event; threads that wait on the dropped  *)
(* event keep waiting on it.                                               *)
(***************************************************************************)
Delete(o) ==
    /\ store' = [store EXCEPT ![o] = Absent]
    /\ waiting' = [waiting EXCEPT ![o] = {}]
    /\ UNCHANGED <<blocked, signalling, woken>>
=============================================================================
