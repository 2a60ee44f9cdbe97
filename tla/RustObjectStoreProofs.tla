----------------------- MODULE RustObjectStoreProofs -----------------------
(***************************************************************************)
(* Proofs about RustObjectStore, for any sets of objects, threads and      *)
(* values.  That a sleeper's flag is set, or about to be, needs to know    *)
(* which Notify a thread may still hold: one that was taken out of the map *)
(* is of an object somebody deletes (OrphansDeletable), and so is          *)
(* everything a delete touches (DropsDeletable).  That the read after the  *)
(* flag succeeds needs to know what a set flag says (FlagMeansStored).     *)
(***************************************************************************)
EXTENDS RustObjectStore, TLAPS

\* The second half of a delete is under way for objects that may be deleted.
DropsDeletable == \A th \in Thread : at[th] = "drop" => arg[th] \in Deletable

\* A thread whose Notify is no longer in the map waits for such an object.
OrphansDeletable ==
    \A th \in Thread : mine[th] # "live" => \E o \in Deletable : Holds(th, o)

\* A flag is set, or is about to be, after the object was stored.
FlagMeansStored ==
    /\ \A o \in Object \ Deletable : flag[o] = "set" => contains(o)
    /\ \A th \in Thread :
          at[th] = "notify" /\ arg[th] \notin Deletable => contains(arg[th])

RustInv ==
    /\ TypeOK
    /\ DropsDeletable
    /\ OrphansDeletable
    /\ FlagMeansStored
    /\ NoMissedNotification
    /\ AvailableWhenNotified

LEMMA RustInit == Init => RustInv
BY RustStoreAssumption
DEF Init, RustInv, TypeOK, Label, Holds, DropsDeletable, OrphansDeletable,
    FlagMeansStored, NoMissedNotification, AvailableWhenNotified, contains, FlagSet

\* A call that returns leaves the invariant as it was, whatever it returns.
LEMMA FinishInv ==
    ASSUME NEW th \in Thread, NEW r, RustInv, at[th] # "notify", Finish(th, r)
    PROVE  RustInv'
<1> USE RustStoreAssumption DEF Finish, End, Goto
<1>1. TypeOK' BY DEF RustInv, TypeOK, Label, Holds
<1>2. DropsDeletable' BY DEF RustInv, TypeOK, DropsDeletable
<1>3. OrphansDeletable' BY DEF RustInv, TypeOK, OrphansDeletable, Holds
<1>4. FlagMeansStored' BY DEF RustInv, TypeOK, FlagMeansStored, contains
<1>5. NoMissedNotification'
  <2> SUFFICES ASSUME NEW w \in Thread, at'[w] \in {"wait", "asleep"},
                      arg'[w] \in Object \ Deletable, objects'[arg'[w]] # Absent
               PROVE  \/ FlagSet(w)'
                      \/ \E p \in Thread : at'[p] = "notify" /\ arg'[p] = arg'[w]
    BY DEF NoMissedNotification, contains
  <2>1. w # th BY DEF RustInv, TypeOK
  <2>2. QED BY <2>1 DEF RustInv, TypeOK, NoMissedNotification, FlagSet, contains
<1>6. AvailableWhenNotified' BY DEF RustInv, TypeOK, AvailableWhenNotified, contains
<1>7. QED BY <1>1, <1>2, <1>3, <1>4, <1>5, <1>6 DEF RustInv

\* An insertion keeps what is said of flags and waiters: the thread becomes the
\* one that is about to set the flag.
LEMMA PutInv ==
    ASSUME NEW th \in Thread, NEW o \in Object, NEW v \in Value,
           RustInv, Put(th, o, v)
    PROVE  RustInv'
<1> USE RustStoreAssumption DEF Put, Begin, Goto
<1>1. TypeOK' BY DEF RustInv, TypeOK, Label, Holds
<1>2. DropsDeletable' BY DEF RustInv, TypeOK, DropsDeletable
<1>3. OrphansDeletable' BY DEF RustInv, TypeOK, OrphansDeletable, Holds
<1>4. FlagMeansStored' BY DEF RustInv, TypeOK, FlagMeansStored, contains
<1>5. NoMissedNotification'
  BY DEF RustInv, TypeOK, NoMissedNotification, FlagSet, contains
<1>6. AvailableWhenNotified' BY DEF RustInv, TypeOK, AvailableWhenNotified, contains
<1>7. QED BY <1>1, <1>2, <1>3, <1>4, <1>5, <1>6 DEF RustInv

\* The flag is set: whoever holds the Notify that is in the map sees it.
LEMMA NotifyInv ==
    ASSUME NEW th \in Thread, RustInv, Notify(th)
    PROVE  RustInv'
<1> USE RustStoreAssumption DEF Notify, End, Goto
<1>1. TypeOK' BY DEF RustInv, TypeOK, Label, Holds
<1>2. DropsDeletable' BY DEF RustInv, TypeOK, DropsDeletable
<1>3. OrphansDeletable' BY DEF RustInv, TypeOK, OrphansDeletable, Holds
<1>4. FlagMeansStored' BY DEF RustInv, TypeOK, FlagMeansStored, contains
<1>5. NoMissedNotification'
  <2> SUFFICES ASSUME NEW w \in Thread, at'[w] \in {"wait", "asleep"},
                      arg'[w] \in Object \ Deletable, objects'[arg'[w]] # Absent
               PROVE  \/ FlagSet(w)'
                      \/ \E p \in Thread : at'[p] = "notify" /\ arg'[p] = arg'[w]
    BY DEF NoMissedNotification, contains
  <2>1. /\ w # th /\ at[w] \in {"wait", "asleep"}
        /\ arg[w] = arg'[w] /\ contains(arg[w])
    BY DEF RustInv, TypeOK, contains
  <2>2. mine[w] = "live" /\ flag[arg[w]] # Absent
    BY <2>1 DEF RustInv, TypeOK, OrphansDeletable, Holds
  <2>3. CASE arg[w] = arg[th]
    BY <2>1, <2>2, <2>3 DEF RustInv, TypeOK, FlagSet
  <2>4. CASE arg[w] # arg[th]
    BY <2>1, <2>2, <2>4 DEF RustInv, TypeOK, NoMissedNotification, FlagSet
  <2>5. QED BY <2>3, <2>4
<1>6. AvailableWhenNotified' BY DEF RustInv, TypeOK, AvailableWhenNotified, contains
<1>7. QED BY <1>1, <1>2, <1>3, <1>4, <1>5, <1>6 DEF RustInv

\* A delete touches no object that is not deletable, and leaves its waiters the
\* flag of the Notify it takes out of the map.
LEMMA DropInv ==
    ASSUME NEW th \in Thread, RustInv, Drop(th)
    PROVE  RustInv'
<1> USE RustStoreAssumption DEF Drop, End, Goto
<1>1. arg[th] \in Deletable BY DEF RustInv, DropsDeletable
<1>2. TypeOK'
  <2>1. \A w \in Thread :
           Holds(w, arg[th]) /\ mine[w] = "live" => flag[arg[th]] \in {"unset", "set"}
    BY <1>1 DEF RustInv, TypeOK
  <2>2. mine' \in [Thread -> {"live", "unset", "set"}]
    BY <2>1 DEF RustInv, TypeOK
  <2>3. \A w \in Thread, o \in Object :
           (Holds(w, o) /\ mine[w] = "live" => flag[o] # Absent)'
    BY <1>1, <2>1 DEF RustInv, TypeOK, Holds
  <2>4. QED BY <1>1, <2>2, <2>3 DEF RustInv, TypeOK, Label
<1>3. DropsDeletable' BY DEF RustInv, TypeOK, DropsDeletable
<1>4. OrphansDeletable'
  BY <1>1 DEF RustInv, TypeOK, OrphansDeletable, Holds
<1>5. FlagMeansStored' BY <1>1 DEF RustInv, TypeOK, FlagMeansStored, contains
<1>6. NoMissedNotification'
  BY <1>1 DEF RustInv, TypeOK, NoMissedNotification, FlagSet, Holds, contains
<1>7. AvailableWhenNotified' BY DEF RustInv, TypeOK, AvailableWhenNotified, contains
<1>8. QED BY <1>2, <1>3, <1>4, <1>5, <1>6, <1>7 DEF RustInv

LEMMA RustNext == RustInv /\ [Next]_vars => RustInv'
<1> SUFFICES ASSUME RustInv, [Next]_vars PROVE RustInv'
  OBVIOUS
<1> USE RustStoreAssumption
<1>1. ASSUME NEW th \in Thread, NEW o \in Object, NEW v \in Value, Put(th, o, v)
      PROVE  RustInv'
  BY <1>1, PutInv
<1>2. ASSUME NEW th \in Thread, Notify(th) PROVE RustInv'
  BY <1>2, NotifyInv
<1>3. ASSUME NEW th \in Thread, NEW o \in Object, GetNow(th, o) PROVE RustInv'
  BY <1>3, FinishInv DEF GetNow
<1>4. ASSUME NEW th \in Thread, NEW o \in Object, Look(th, o) PROVE RustInv'
  <2> USE <1>4 DEF Look, Begin, Goto
  <2>1. TypeOK' BY DEF RustInv, TypeOK, Label, Holds
  <2>2. DropsDeletable' /\ OrphansDeletable'
    BY DEF RustInv, TypeOK, DropsDeletable, OrphansDeletable, Holds
  <2>3. FlagMeansStored' BY DEF RustInv, TypeOK, FlagMeansStored, contains
  <2>4. NoMissedNotification'
    BY DEF RustInv, TypeOK, NoMissedNotification, FlagSet, contains
  <2>5. AvailableWhenNotified' BY DEF RustInv, TypeOK, AvailableWhenNotified, contains
  <2>6. QED BY <2>1, <2>2, <2>3, <2>4, <2>5 DEF RustInv
<1>5. ASSUME NEW th \in Thread, Register(th) PROVE RustInv'
  <2> USE <1>5 DEF Register, Goto
  <2>1. TypeOK' BY DEF RustInv, TypeOK, Label, Holds
  <2>2. DropsDeletable' /\ OrphansDeletable'
    BY DEF RustInv, TypeOK, DropsDeletable, OrphansDeletable, Holds
  <2>3. FlagMeansStored' BY DEF RustInv, TypeOK, FlagMeansStored, contains
  <2>4. NoMissedNotification'
    BY DEF RustInv, TypeOK, NoMissedNotification, FlagSet, contains
  <2>5. AvailableWhenNotified' BY DEF RustInv, TypeOK, AvailableWhenNotified, contains
  <2>6. QED BY <2>1, <2>2, <2>3, <2>4, <2>5 DEF RustInv
<1>6. ASSUME NEW th \in Thread, Check(th) PROVE RustInv'
  \* The second look: who goes to wait has seen that the object is not there.
  <2>1. CASE contains(arg[th]) BY <1>6, <2>1, FinishInv DEF Check
  <2>2. CASE ~ contains(arg[th])
    <3> USE <1>6, <2>2 DEF Check, Goto
    <3>1. TypeOK' BY DEF RustInv, TypeOK, Label, Holds
    <3>2. DropsDeletable' /\ OrphansDeletable'
      BY DEF RustInv, TypeOK, DropsDeletable, OrphansDeletable, Holds
    <3>3. FlagMeansStored' BY DEF RustInv, TypeOK, FlagMeansStored, contains
    <3>4. NoMissedNotification'
      BY DEF RustInv, TypeOK, NoMissedNotification, FlagSet, contains
    <3>5. AvailableWhenNotified'
      BY DEF RustInv, TypeOK, AvailableWhenNotified, contains
    <3>6. QED BY <3>1, <3>2, <3>3, <3>4, <3>5 DEF RustInv
  <2>3. QED BY <2>1, <2>2
<1>7. ASSUME NEW th \in Thread, Wait(th) PROVE RustInv'
  <2> USE <1>7 DEF Wait, Goto
  <2>1. TypeOK' BY DEF RustInv, TypeOK, Label, Holds
  <2>2. DropsDeletable' /\ OrphansDeletable'
    BY DEF RustInv, TypeOK, DropsDeletable, OrphansDeletable, Holds
  <2>3. FlagMeansStored' BY DEF RustInv, TypeOK, FlagMeansStored, contains
  <2>4. NoMissedNotification'
    BY DEF RustInv, TypeOK, NoMissedNotification, FlagSet, contains
  <2>5. AvailableWhenNotified'
    BY DEF RustInv, TypeOK, AvailableWhenNotified, OrphansDeletable, Holds, FlagMeansStored,
           FlagSet, contains
  <2>6. QED BY <2>1, <2>2, <2>3, <2>4, <2>5 DEF RustInv
<1>8. ASSUME NEW th \in Thread, Read(th) \/ TimeOut(th) PROVE RustInv'
  BY <1>8, FinishInv DEF Read, TimeOut
<1>9. ASSUME NEW th \in Thread, NEW o \in Deletable, Delete(th, o) PROVE RustInv'
  <2> USE <1>9 DEF Delete, Begin, Goto
  <2>1. TypeOK' BY DEF RustInv, TypeOK, Label, Holds
  <2>2. DropsDeletable' /\ OrphansDeletable'
    BY DEF RustInv, TypeOK, DropsDeletable, OrphansDeletable, Holds
  <2>3. FlagMeansStored' BY DEF RustInv, TypeOK, FlagMeansStored, contains
  <2>4. NoMissedNotification'
    BY DEF RustInv, TypeOK, NoMissedNotification, FlagSet, contains
  <2>5. AvailableWhenNotified' BY DEF RustInv, TypeOK, AvailableWhenNotified, contains
  <2>6. QED BY <2>1, <2>2, <2>3, <2>4, <2>5 DEF RustInv
<1>10. ASSUME NEW th \in Thread, Drop(th) PROVE RustInv'
  BY <1>10, DropInv
<1>11. CASE UNCHANGED vars
  BY <1>11 DEF vars, RustInv, TypeOK, Holds, DropsDeletable, OrphansDeletable,
               FlagMeansStored, NoMissedNotification, AvailableWhenNotified,
               FlagSet, contains
<1>12. QED
  BY <1>1, <1>2, <1>3, <1>4, <1>5, <1>6, <1>7, <1>8, <1>9, <1>10, <1>11
  DEF Next, Continue

(***************************************************************************)
(* The maps keep their types, and a Notify that a thread got out of the    *)
(* map is still there or was left to it (object_store.rs:87-92, 144-148). *)
(***************************************************************************)
THEOREM RustStoreTypeOK == Spec => []TypeOK
<1>1. RustInv => TypeOK BY DEF RustInv
<1>2. QED BY <1>1, RustInit, RustNext, PTL DEF Spec

(***************************************************************************)
(* "Double-check after registering to avoid missed notification"           *)
(* (object_store.rs:95): it does, with any number of threads and without   *)
(* the GIL.                                                                *)
(***************************************************************************)
THEOREM RustNoMissedNotification == Spec => []NoMissedNotification
<1>1. RustInv => NoMissedNotification BY DEF RustInv
<1>2. QED BY <1>1, RustInit, RustNext, PTL DEF Spec

(***************************************************************************)
(* "Object disappeared after notification" (object_store.rs:133) is raised *)
(* only for an object somebody deletes.                                    *)
(***************************************************************************)
THEOREM RustAvailableWhenNotified == Spec => []AvailableWhenNotified
<1>1. RustInv => AvailableWhenNotified BY DEF RustInv
<1>2. QED BY <1>1, RustInit, RustNext, PTL DEF Spec

-----------------------------------------------------------------------------
\* A step that ends a get is a step of the abstract map; the steps between
\* its look and its end, and the second halves of put and delete, are none.
LEMMA RustStepRefines == RustInv /\ [Next]_vars => [BM!BMNext]_(BM!bmVars)
<1> SUFFICES ASSUME RustInv, [Next]_vars PROVE [BM!BMNext]_(BM!bmVars)
  OBVIOUS
<1> USE RustStoreAssumption
<1>1. ASSUME NEW th \in Thread, NEW o \in Object, NEW v \in Value, Put(th, o, v)
      PROVE  BM!BMNext
  <2>1. BM!BMPut
    BY <1>1 DEF Put, Begin, Goto, Getting, RustInv, TypeOK, BM!BMPut
  <2>2. QED BY <2>1 DEF BM!BMNext
<1>2. ASSUME NEW th \in Thread, Notify(th) \/ Register(th) \/ Wait(th) \/ Drop(th)
      PROVE  UNCHANGED BM!bmVars
  BY <1>2
  DEF Notify, Register, Wait, Drop, End, Goto, Getting, RustInv, TypeOK, BM!bmVars
<1>3. ASSUME NEW th \in Thread, NEW o \in Object, GetNow(th, o) \/ Look(th, o)
      PROVE  BM!BMNext
  <2>1. BM!BMGet(th)
    BY <1>3 DEF GetNow, Look, Begin, Finish, End, Goto, Getting, contains,
                RustInv, TypeOK, BM!BMGet
  <2>2. QED BY <2>1 DEF BM!BMNext
<1>4. ASSUME NEW th \in Thread, Check(th) PROVE BM!BMNext \/ UNCHANGED BM!bmVars
  <2>1. CASE contains(arg[th])
    <3>1. BM!BMReturn(th)
      BY <1>4, <2>1 DEF Check, Finish, End, Goto, Getting, contains,
                        RustInv, TypeOK, BM!BMReturn
    <3>2. QED BY <3>1 DEF BM!BMNext
  <2>2. CASE ~ contains(arg[th])
    BY <1>4, <2>2 DEF Check, Goto, Getting, RustInv, TypeOK, BM!bmVars
  <2>3. QED BY <2>1, <2>2
<1>5. ASSUME NEW th \in Thread, Read(th) \/ TimeOut(th) PROVE BM!BMNext
  <2>1. BM!BMReturn(th) \/ BM!BMGiveUp(th)
    BY <1>5 DEF Read, TimeOut, Finish, End, Goto, Getting, contains,
                RustInv, TypeOK, AvailableWhenNotified, BM!BMReturn, BM!BMGiveUp
  <2>2. QED BY <2>1 DEF BM!BMNext
<1>6. ASSUME NEW th \in Thread, NEW o \in Deletable, Delete(th, o)
      PROVE  BM!BMNext
  <2>1. BM!BMDelete
    BY <1>6 DEF Delete, Begin, Goto, Getting, RustInv, TypeOK, BM!BMDelete
  <2>2. QED BY <2>1 DEF BM!BMNext
<1>7. CASE UNCHANGED vars
  BY <1>7 DEF vars, Getting, BM!bmVars
<1>8. QED BY <1>1, <1>2, <1>3, <1>4, <1>5, <1>6, <1>7 DEF Next, Continue

(***************************************************************************)
(* The Rust store, with no lock across its two maps, implements the        *)
(* blocking map, whose put and get are atomic (object_store.rs:62-148).    *)
(***************************************************************************)
THEOREM RustStoreRefinesBlockingMap == Spec => BlockingMapSafety
<1>1. Init => BM!BMInit BY DEF Init, Getting, BM!BMInit
<1>2. Spec => BM!BMSafety
  BY <1>1, RustInit, RustNext, RustStepRefines, PTL DEF Spec, BM!BMSafety
<1>3. QED BY <1>2 DEF BlockingMapSafety
=============================================================================
