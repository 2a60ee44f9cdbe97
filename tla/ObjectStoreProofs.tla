------------------------- MODULE ObjectStoreProofs -------------------------
(***************************************************************************)
(* Proofs about ObjectStoreThreads, for any sets of objects, threads and   *)
(* values.  NoLostWakeup and AvailableWhenWoken are not inductive: a step  *)
(* may let a thread start to wait, or end its wait, only because no event  *)
(* still names it from an earlier wait.  StoreInv says so.                 *)
(***************************************************************************)
EXTENDS ObjectStoreThreads, TLAPS

\* Who is on the event of an object waits for that object.
WaitersBlocked ==
    \A th \in Thread, o \in Object : th \in waiting[o] => blocked[th] = o

\* Who is notified waits, and the object is there unless it was deleted.
NotifiedBlocked ==
    \A th \in Thread :
        Notified(th) =>
            /\ blocked[th] # Nothing
            /\ blocked[th] \notin Deletable => contains(blocked[th])

StoreInv == TypeOK /\ WaitersBlocked /\ NotifiedBlocked /\ NoLostWakeup

LEMMA StoreInit == Init => StoreInv
BY StoreAssumption
DEF Init, OSInit, StoreInv, TypeOK, WaitersBlocked, NotifiedBlocked, Notified,
    NoLostWakeup, contains

\* The end of a wait, timed out or not, leaves the invariant as it was.
LEMMA LeaveWaitInv ==
    ASSUME NEW th \in Thread, StoreInv, blocked[th] # Nothing, LeaveWait(th)
    PROVE  StoreInv'
<1> USE StoreAssumption
<1>1. TypeOK' BY DEF StoreInv, TypeOK, LeaveWait
<1>2. WaitersBlocked' BY DEF StoreInv, TypeOK, WaitersBlocked, LeaveWait
<1>3. NotifiedBlocked'
  BY DEF StoreInv, TypeOK, NotifiedBlocked, Notified, contains, LeaveWait
<1>4. NoLostWakeup'
  BY DEF StoreInv, TypeOK, NoLostWakeup, Notified, contains, LeaveWait
<1>5. QED BY <1>1, <1>2, <1>3, <1>4 DEF StoreInv

LEMMA StoreNext == StoreInv /\ [Next]_vars => StoreInv'
<1> SUFFICES ASSUME StoreInv, [Next]_vars PROVE StoreInv'
  OBVIOUS
<1> USE StoreAssumption
<1>1. ASSUME NEW th \in Thread, NEW o \in Object, NEW v \in Value, Put(th, o, v)
      PROVE  StoreInv'
  <2> USE <1>1 DEF Put, PutStore, Idle, PutDone
  <2>1. TypeOK' BY DEF StoreInv, TypeOK
  <2>2. WaitersBlocked' BY DEF StoreInv, TypeOK, WaitersBlocked
  <2>3. NotifiedBlocked'
    BY DEF StoreInv, TypeOK, NotifiedBlocked, WaitersBlocked, Notified, contains
  <2>4. NoLostWakeup'
    BY DEF StoreInv, TypeOK, NoLostWakeup, Notified, contains
  <2>5. QED BY <2>1, <2>2, <2>3, <2>4 DEF StoreInv
<1>2. ASSUME NEW th \in Thread, Signal(th) PROVE StoreInv'
  <2> USE <1>2 DEF Signal, PutSignal, PutDone
  <2>1. TypeOK' BY DEF StoreInv, TypeOK
  <2>2. WaitersBlocked' BY DEF StoreInv, TypeOK, WaitersBlocked
  <2>3. \A p \in Thread : Notified(p)' <=> Notified(p)
    BY DEF StoreInv, TypeOK, Notified
  <2>4. NotifiedBlocked' BY <2>3 DEF StoreInv, NotifiedBlocked, contains
  <2>5. NoLostWakeup' BY <2>3 DEF StoreInv, NoLostWakeup, contains
  <2>6. QED BY <2>1, <2>2, <2>4, <2>5 DEF StoreInv
<1>3. ASSUME NEW th \in Thread, NEW o \in Object, GetOrWait(th, o)
      PROVE  StoreInv'
  <2>1. CASE UNCHANGED osVars
    BY <2>1 DEF osVars, StoreInv, TypeOK, WaitersBlocked, NotifiedBlocked,
                NoLostWakeup, Notified, contains
  <2>2. CASE StartWait(th, o)
    <3> USE <1>3, <2>2 DEF GetOrWait, StartWait, Idle
    <3>1. TypeOK' BY DEF StoreInv, TypeOK
    <3>2. WaitersBlocked' BY DEF StoreInv, TypeOK, WaitersBlocked
    <3>3. NotifiedBlocked'
      BY DEF StoreInv, TypeOK, NotifiedBlocked, Notified, contains
    <3>4. NoLostWakeup'
      BY DEF StoreInv, TypeOK, NoLostWakeup, Notified, contains
    <3>5. QED BY <3>1, <3>2, <3>3, <3>4 DEF StoreInv
  <2>3. QED BY <1>3, <2>1, <2>2 DEF GetOrWait
<1>4. ASSUME NEW th \in Thread, Wake(th) PROVE StoreInv'
  <2>1. blocked[th] # Nothing
    BY <1>4 DEF Wake, EndWait, StoreInv, NotifiedBlocked, Notified
  <2>2. QED BY <1>4, <2>1, LeaveWaitInv DEF Wake, EndWait
<1>5. ASSUME NEW th \in Thread, Timeout(th) PROVE StoreInv'
  BY <1>5, LeaveWaitInv DEF Timeout, TimeoutWait
<1>6. ASSUME NEW th \in Thread, NEW o \in Deletable, Evict(th, o)
      PROVE  StoreInv'
  <2> USE <1>6 DEF Evict, Delete
  <2>1. TypeOK' BY DEF StoreInv, TypeOK
  <2>2. WaitersBlocked' BY DEF StoreInv, TypeOK, WaitersBlocked
  <2>3. NotifiedBlocked'
    BY DEF StoreInv, TypeOK, NotifiedBlocked, Notified, contains
  <2>4. NoLostWakeup'
    BY DEF StoreInv, TypeOK, NoLostWakeup, Notified, contains
  <2>5. QED BY <2>1, <2>2, <2>3, <2>4 DEF StoreInv
<1>7. CASE UNCHANGED vars
  BY <1>7 DEF vars, osVars, StoreInv, TypeOK, WaitersBlocked, NotifiedBlocked,
              NoLostWakeup, Notified, contains
<1>8. QED BY <1>1, <1>2, <1>3, <1>4, <1>5, <1>6, <1>7 DEF Next

(***************************************************************************)
(* The variables keep the types their code has (ObjectStore.__init__).     *)
(***************************************************************************)
THEOREM StoreTypeOK == Spec => []TypeOK
<1>1. StoreInv => TypeOK BY DEF StoreInv
<1>2. QED BY <1>1, StoreInit, StoreNext, PTL DEF Spec

(***************************************************************************)
(* However many threads put, wait, time out and delete, no wakeup of an    *)
(* object that is never deleted is lost: the gap between the lock of put   *)
(* and event.set() is harmless (object_store.py:28-35, 44-58).             *)
(***************************************************************************)
THEOREM StoreNoLostWakeup == Spec => []NoLostWakeup
<1>1. StoreInv => NoLostWakeup BY DEF StoreInv
<1>2. QED BY <1>1, StoreInit, StoreNext, PTL DEF Spec

(***************************************************************************)
(* The read without the lock that ends get_or_wait raises no KeyError for  *)
(* an object that is never deleted (object_store.py:57).                   *)
(***************************************************************************)
THEOREM StoreAvailableWhenWoken == Spec => []AvailableWhenWoken
<1>1. StoreInv => AvailableWhenWoken
  BY StoreAssumption
  DEF StoreInv, TypeOK, NotifiedBlocked, Notified, AvailableWhenWoken
<1>2. QED BY <1>1, StoreInit, StoreNext, PTL DEF Spec

-----------------------------------------------------------------------------
\* A step that ends a wait is a step of the abstract map.
LEMMA StoreStepRefines == StoreInv /\ [Next]_vars => [BM!BMNext]_(BM!bmVars)
<1> SUFFICES ASSUME StoreInv, [Next]_vars PROVE [BM!BMNext]_(BM!bmVars)
  OBVIOUS
<1> USE StoreAssumption
<1>1. ASSUME NEW th \in Thread, NEW o \in Object, NEW v \in Value, Put(th, o, v)
      PROVE  BM!BMNext
  BY <1>1 DEF Put, PutStore, BM!BMNext, BM!BMPut
<1>2. ASSUME NEW th \in Thread, Signal(th) PROVE UNCHANGED BM!bmVars
  BY <1>2 DEF Signal, PutSignal, BM!bmVars
<1>3. ASSUME NEW th \in Thread, NEW o \in Object, GetOrWait(th, o)
      PROVE  BM!BMNext
  <2>1. BM!BMGet(th)
    BY <1>3 DEF GetOrWait, StartWait, Idle, contains, osVars, BM!BMGet
  <2>2. QED BY <2>1 DEF BM!BMNext
<1>4. ASSUME NEW th \in Thread, Wake(th) PROVE BM!BMNext
  <2>1. blocked[th] \in Object
        /\ (blocked[th] \notin Deletable => contains(blocked[th]))
    BY <1>4 DEF Wake, EndWait, StoreInv, TypeOK, NotifiedBlocked, Notified
  <2>2. BM!BMReturn(th) \/ BM!BMGiveUp(th)
    BY <1>4, <2>1
    DEF Wake, EndWait, LeaveWait, contains, BM!BMReturn, BM!BMGiveUp
  <2>3. QED BY <2>2 DEF BM!BMNext
<1>5. ASSUME NEW th \in Thread, Timeout(th) PROVE BM!BMNext
  <2>1. BM!BMGiveUp(th)
    BY <1>5 DEF Timeout, TimeoutWait, LeaveWait, BM!BMGiveUp
  <2>2. QED BY <2>1 DEF BM!BMNext
<1>6. ASSUME NEW th \in Thread, NEW o \in Deletable, Evict(th, o)
      PROVE  BM!BMNext
  BY <1>6 DEF Evict, Delete, BM!BMNext, BM!BMDelete
<1>7. CASE UNCHANGED vars
  BY <1>7 DEF vars, osVars, BM!bmVars
<1>8. QED BY <1>1, <1>2, <1>3, <1>4, <1>5, <1>6, <1>7 DEF Next

(***************************************************************************)
(* The store with its two-step put and its unlocked read implements the    *)
(* blocking map, whose put and get are atomic (object_store.py:28-69).     *)
(***************************************************************************)
THEOREM StoreRefinesBlockingMap == Spec => BlockingMapSafety
<1>1. Init => BM!BMInit BY DEF Init, OSInit, BM!BMInit
<1>2. Spec => BM!BMSafety
  BY <1>1, StoreInit, StoreNext, StoreStepRefines, PTL DEF Spec, BM!BMSafety
<1>3. QED BY <1>2 DEF BlockingMapSafety
=============================================================================
