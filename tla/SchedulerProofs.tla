-------------------------- MODULE SchedulerProofs --------------------------
(***************************************************************************)
(* Proofs about SchedulerCallers and RustScheduler, for any finite set of  *)
(* tasks, any set of dependency lists and any set of callers, and about    *)
(* Dag, which finds the dependencies, for arguments of any shape.          *)
(*                                                                         *)
(* The Python scheduler first.  OnePlace and PendingIffMissing are         *)
(* inductive only together with IndexComplete (an announcement must find   *)
(* every task that lacks it) and with the fact that a task not yet         *)
(* submitted has seen no announcement.                                     *)
(***************************************************************************)
EXTENDS RustScheduler, Dag, SequenceElements

FreshUnannounced == \A t \in Task \ submitted : announced[t] = {}

SchedInv ==
    /\ TypeOK
    /\ OnePlace
    /\ PendingIffMissing
    /\ IndexComplete
    /\ FreshUnannounced

LEMMA SchedInitInv == Init => SchedInv
<1> SUFFICES ASSUME Init PROVE SchedInv OBVIOUS
<1>1. ToSet(<<>>) = {} /\ IsInjective(<<>>) BY DEF ToSet, IsInjective
<1>2. QED
  BY <1>1
  DEF Init, SchedInit, SchedInv, TypeOK, OnePlace, PendingIffMissing,
      IndexComplete, FreshUnannounced

LEMMA SubmitInv ==
    ASSUME NEW t \in Task, NEW d \in Deps, SchedInv, Submit(t, d)
    PROVE  SchedInv'
<1> USE SchedulerAssumption DEF SchedInv
<1>1. d \in Seq(Object) /\ t \notin submitted /\ announced[t] = {}
      /\ t \notin ToSet(ready) \cup pending \cup handed
  BY DEF Submit, FreshUnannounced, OnePlace
<1>2. \A s \in Task : Missing(s)' = IF s = t THEN ToSet(d) ELSE Missing(s)
  BY <1>1 DEF Submit, Missing, TypeOK
<1>3. FreshUnannounced'
  BY <1>1 DEF Submit, FreshUnannounced
<1>4. CASE d = <<>>
  <2> USE <1>4 DEF Submit, SchedSubmit
  <2>1. ToSet(d) = {} BY DEF ToSet
  <2>2. /\ ready' \in Seq(Task)
        /\ ToSet(ready') = ToSet(ready) \cup {t}
        /\ IsInjective(ready')
    <3>1. ready \in Seq(Task) /\ ready' = Append(ready, t) /\ IsInjective(ready)
          /\ t \notin ToSet(ready)
      BY <1>1 DEF TypeOK, OnePlace
    <3> HIDE DEF SchedInv, Submit, SchedSubmit
    <3>2. Append(ready, t) \in Seq(Task) BY <3>1, AppendProperties
    <3>3. QED BY <3>1, <3>2, AppendElements
  <2>3. TypeOK' BY <1>1, <2>2 DEF TypeOK
  <2>4. OnePlace' BY <1>1, <2>2 DEF OnePlace
  <2>5. PendingIffMissing' BY <1>1, <1>2, <2>1 DEF PendingIffMissing, TypeOK
  <2>6. IndexComplete' BY <1>1, <1>2 DEF IndexComplete, TypeOK
  <2>7. QED BY <1>3, <2>3, <2>4, <2>5, <2>6
<1>5. CASE d # <<>>
  <2> USE <1>5 DEF Submit, SchedSubmit, Indexed
  <2>1. ToSet(d) \subseteq Object /\ ToSet(d) # {}
    BY <1>1, EmptySeq, LenProperties, ElementOfSeq DEF ToSet
  <2>2. \A o \in Object :
           /\ waitingOn'[o] \in Seq(Task)
           /\ ToSet(waitingOn[o]) \subseteq ToSet(waitingOn'[o])
           /\ o \in ToSet(d) => t \in ToSet(waitingOn'[o])
    <3> TAKE o \in Object
    <3> DEFINE n == Cardinality(Uses(d, o))
    <3>1. n \in Nat /\ (o \in ToSet(d) => n # 0) BY <1>1, UsesFinite DEF Uses
    <3>2. /\ waitingOn[o] \in Seq(Task)
          /\ waitingOn'[o] = waitingOn[o] \o [i \in 1 .. n |-> t]
      BY DEF TypeOK
    <3> HIDE DEF n
    <3>3. QED BY <3>1, <3>2, RepeatedElement
  <2>3. TypeOK'
    <3>1. waitingOn' \in [Object -> Seq(Task)]
      <4>1. waitingOn' = [o \in Object |-> waitingOn'[o]] OBVIOUS
      <4>2. QED BY <2>2, <4>1
    <3>2. QED BY <1>1, <2>1, <3>1 DEF TypeOK
  <2>4. OnePlace' BY <1>1 DEF OnePlace
  <2>5. PendingIffMissing' BY <1>1, <1>2, <2>1 DEF PendingIffMissing, TypeOK
  <2>6. IndexComplete'
    <3>1. \A s \in pending' : unresolved'[s] = Missing(s)'
      BY <1>1, <1>2 DEF IndexComplete, TypeOK
    <3>2. ASSUME NEW s \in pending', NEW o \in unresolved'[s]
          PROVE  s \in ToSet(waitingOn'[o])
      <4>1. CASE s = t BY <1>1, <2>1, <2>2, <3>2, <4>1 DEF TypeOK
      <4>2. CASE s # t
        <5>1. s \in pending /\ o \in unresolved[s] /\ o \in Object
          BY <3>2, <4>2 DEF TypeOK
        <5>2. QED BY <2>2, <5>1 DEF IndexComplete
      <4>3. QED BY <4>1, <4>2
    <3>3. QED BY <3>1, <3>2 DEF IndexComplete
  <2>7. QED BY <1>3, <2>3, <2>4, <2>5, <2>6
<1>6. QED BY <1>4, <1>5

LEMMA AnnounceInv ==
    ASSUME NEW o \in Object, SchedInv, Announce(o)
    PROVE  SchedInv'
<1> USE SchedulerAssumption DEF SchedInv, Announce, OnObjectReady
<1>1. Released(o) \subseteq pending /\ Released(o) \subseteq Task
  BY DEF Released, Waiters, TypeOK
<1>2. PICK r \in SetToSeqs(Released(o)) : ready' = ready \o r
  OBVIOUS
<1>3. IsFiniteSet(Released(o)) BY <1>1, FS_Subset
<1>4. r \in Seq(Task) /\ ToSet(r) = Released(o) /\ IsInjective(r)
  <2>1. r \in Seq(Released(o)) /\ ToSet(r) = Released(o) /\ IsInjective(r)
    BY <1>3, ArrangementElements
  <2>2. QED BY <1>1, <2>1, SeqMonotonic
<1>5. ToSet(ready) \cap Released(o) = {} BY <1>1 DEF OnePlace
<1>6. /\ ready' \in Seq(Task)
      /\ ToSet(ready') = ToSet(ready) \cup Released(o)
      /\ IsInjective(ready')
  BY <1>2, <1>4, <1>5, ConcatElements, ConcatProperties DEF OnePlace, TypeOK
<1>7. TypeOK' BY <1>6 DEF TypeOK
<1>8. OnePlace' BY <1>1, <1>6 DEF OnePlace
<1>9. \A t \in submitted : Missing(t)' = Missing(t) \ {o}
  BY DEF Missing, TypeOK
<1>10. \A t \in pending :
          t \in Waiters(o) \/ (o \notin unresolved[t] /\ unresolved[t] \ {o} = unresolved[t])
  BY DEF Waiters, IndexComplete
<1>11. \A t \in pending : t \in Task /\ t \in submitted /\ unresolved[t] = Missing(t)
                           /\ Missing(t) # {}
  BY DEF IndexComplete, OnePlace, PendingIffMissing, TypeOK
<1>12. \A t \in pending : t \in Released(o) <=> Missing(t) \ {o} = {}
  <2> TAKE t \in pending
  <2>1. CASE t \in Waiters(o) BY <1>11, <2>1 DEF Released
  <2>2. CASE t \notin Waiters(o)
    BY <1>10, <1>11, <2>2 DEF Released
  <2>3. QED BY <2>1, <2>2
<1>13. PendingIffMissing'
  BY <1>1, <1>9, <1>12 DEF PendingIffMissing
<1>14. IndexComplete'
  <2>1. ASSUME NEW t \in pending'
        PROVE  /\ unresolved'[t] = unresolved[t] \ {o}
               /\ unresolved'[t] = Missing(t)'
    BY <1>9, <1>10, <1>11, <2>1
  <2>2. ASSUME NEW t \in pending', NEW p \in unresolved'[t]
        PROVE  t \in ToSet(waitingOn'[p])
    <3>1. p \in unresolved[t] /\ p # o /\ p \in Object /\ t \in pending
      BY <1>11, <2>1, <2>2 DEF TypeOK
    <3>2. waitingOn'[p] = waitingOn[p] BY <3>1 DEF TypeOK
    <3>3. QED BY <3>1, <3>2 DEF IndexComplete
  <2>3. QED BY <2>1, <2>2 DEF IndexComplete
<1>15. FreshUnannounced' BY DEF FreshUnannounced, TypeOK
<1>16. QED BY <1>7, <1>8, <1>13, <1>14, <1>15

LEMMA PopInv ==
    ASSUME SchedInv, Pop
    PROVE  SchedInv'
<1> USE DEF SchedInv, Pop, PopReady
<1>1. /\ Head(ready) \in ToSet(ready)
      /\ ready' \in Seq(Task)
      /\ ToSet(ready') = ToSet(ready) \ {Head(ready)}
      /\ IsInjective(ready')
  BY TailElements DEF OnePlace, TypeOK
<1>2. Head(ready) \in Task BY HeadTailProperties DEF TypeOK
<1>3. TypeOK' BY <1>1, <1>2 DEF TypeOK
<1>4. OnePlace' BY <1>1 DEF OnePlace
<1>5. PendingIffMissing' BY DEF PendingIffMissing, Missing
<1>6. IndexComplete' BY DEF IndexComplete, Missing
<1>7. FreshUnannounced' BY DEF FreshUnannounced
<1>8. QED BY <1>3, <1>4, <1>5, <1>6, <1>7

LEMMA SchedNextInv == SchedInv /\ [Next]_vars => SchedInv'
<1> SUFFICES ASSUME SchedInv, [Next]_vars PROVE SchedInv' OBVIOUS
<1>1. CASE UNCHANGED vars
  BY <1>1
  DEF vars, schedVars, SchedInv, TypeOK, OnePlace, PendingIffMissing,
      IndexComplete, Missing, FreshUnannounced
<1>2. QED BY <1>1, SubmitInv, AnnounceInv, PopInv DEF Next

LEMMA SchedInvariant == Spec => []SchedInv
BY SchedInitInv, SchedNextInv, PTL DEF Spec

(***************************************************************************)
(* No task is lost and none is queued twice, for any tasks, objects and    *)
(* dependency lists (scheduler.py:31-64).                                  *)
(***************************************************************************)
THEOREM SchedulerOnePlace == Spec => []OnePlace
<1>1. SchedInv => OnePlace BY DEF SchedInv
<1>2. QED BY <1>1, SchedInvariant, PTL

(***************************************************************************)
(* A task is released by the announcement of its last missing dependency,  *)
(* neither earlier nor later (scheduler.py:46-57).                         *)
(***************************************************************************)
THEOREM SchedulerPendingIffMissing == Spec => []PendingIffMissing
<1>1. SchedInv => PendingIffMissing BY DEF SchedInv
<1>2. QED BY <1>1, SchedInvariant, PTL

(***************************************************************************)
(* The reverse index names every pending task under every object it still  *)
(* waits for (scheduler.py:38-44).                                         *)
(***************************************************************************)
THEOREM SchedulerIndexComplete == Spec => []IndexComplete
<1>1. SchedInv => IndexComplete BY DEF SchedInv
<1>2. QED BY <1>1, SchedInvariant, PTL
-----------------------------------------------------------------------------
(***************************************************************************)
(* The Rust scheduler.  A task must be released by somebody although no    *)
(* lock spans the containers.  The argument: what a pending task lacks     *)
(* finds it in the index, or in a list somebody is going through, or is    *)
(* still to be indexed (Findable); who removes the last of it takes the    *)
(* task (EmptyIsTaken); and nothing is removed without an announcement     *)
(* (RemovedWasHeard).                                                      *)
(***************************************************************************)
Telling == {"look", "take", "push"}

\* A caller in a call has something left to do in it.
CallOK(c) ==
    LET todo == call[c].todo IN
    /\ call[c].at \in {"none", "index"} \cup Telling
    /\ At(c, "index") =>
          /\ Arg(c) \in rustSubmitted
          /\ todo \in Seq(Object) /\ todo # <<>>
    /\ call[c].at \in Telling =>
          /\ Arg(c) \in Object
          /\ todo \in Seq(RustTask) /\ todo # <<>>
          /\ \A t \in ToSet(todo) : t \in rustSubmitted /\ Arg(c) \in heard[t]

RustTypes ==
    /\ pending_tasks \subseteq rustSubmitted /\ rustSubmitted \subseteq RustTask
    /\ rustUnresolved \in [RustTask -> SUBSET Object]
    /\ object_to_waiting \in [Object -> Seq(RustTask)]
    /\ ready_queue \in Seq(RustTask)
    /\ call = [c \in Caller |-> call[c]]
    /\ rustDeps \in [RustTask -> Seq(Object)]
    /\ rustAnnounced \in [RustTask -> SUBSET Object]
    /\ heard \in [RustTask -> SUBSET Object]
    /\ \A c \in Caller : CallOK(c)
    /\ \A o \in Object : ToSet(object_to_waiting[o]) \subseteq rustSubmitted

\* What a task no longer lacks was announced.
RemovedWasHeard ==
    /\ \A t \in RustTask \ rustSubmitted : rustUnresolved[t] = {}
    /\ \A t \in rustSubmitted :
          /\ rustUnresolved[t] \subseteq ToSet(rustDeps[t])
          /\ ToSet(rustDeps[t]) \ heard[t] \subseteq rustUnresolved[t]
          /\ t \notin pending_tasks => ToSet(rustDeps[t]) \subseteq heard[t]
    /\ \A c \in Caller : At(c, "take") => rustUnresolved[Next1(c)] = {}

\* An announcement after the submit empties the list of its object for good.
AnnouncedIsGone ==
    /\ \A t \in RustTask :
          t \notin rustSubmitted \/ Submitting(t) => rustAnnounced[t] = {}
    /\ \A t \in rustSubmitted, o \in Object : o \in rustAnnounced[t] =>
              t \notin ToSet(object_to_waiting[o])

StillToIndex(t, o) ==
    \E c \in Caller : At(c, "index") /\ Arg(c) = t /\ o \in ToSet(call[c].todo)

Findable ==
    \A t \in pending_tasks : \A o \in rustUnresolved[t] :
        t \in ToSet(object_to_waiting[o]) \/ BeingTold(t, o) \/ StillToIndex(t, o)

EmptyIsTaken ==
    \A t \in pending_tasks :
        rustUnresolved[t] = {} => \E c \in Caller : At(c, "take") /\ Next1(c) = t

RustSchedInv ==
    /\ RustTypes /\ RustOnePlace
    /\ RemovedWasHeard /\ AnnouncedIsGone /\ Findable /\ EmptyIsTaken

LEMMA RustSchedInit == RustInit => RustSchedInv
<1> SUFFICES ASSUME RustInit PROVE RustSchedInv OBVIOUS
<1>1. ToSet(<<>>) = {} /\ IsInjective(<<>>) BY DEF ToSet, IsInjective
<1>2. \A c \in Caller : call[c].at = "none"
  BY DEF RustInit, NoCall, InCall
<1> USE <1>1, <1>2 DEF RustInit
<1>3. RustTypes BY DEF RustTypes, CallOK, At, Telling
<1>4. RustOnePlace BY DEF RustOnePlace, InHand, Pushers, At
<1>5. RemovedWasHeard /\ AnnouncedIsGone /\ Findable /\ EmptyIsTaken
  BY DEF RemovedWasHeard, AnnouncedIsGone, Findable, EmptyIsTaken, At
<1>6. QED BY <1>3, <1>4, <1>5 DEF RustSchedInv

\* The index finds what a task lacks, so a task that lacks nothing unheard is
\* in the hands of a caller.
LEMMA InvReleases == RustSchedInv => RustReleasedOnTime
<1> SUFFICES ASSUME RustSchedInv, NEW t \in rustSubmitted
             PROVE  /\ t \notin pending_tasks => ToSet(rustDeps[t]) \subseteq heard[t]
                    /\ t \in pending_tasks => \/ Submitting(t)
                                              \/ \E o \in Object : BeingTold(t, o)
                                              \/ ~ ToSet(rustDeps[t]) \subseteq rustAnnounced[t]
  BY DEF RustReleasedOnTime
<1>1. t \notin pending_tasks => ToSet(rustDeps[t]) \subseteq heard[t]
  BY DEF RustSchedInv, RemovedWasHeard
<1>2. ASSUME t \in pending_tasks, ~ Submitting(t), \A o \in Object : ~ BeingTold(t, o),
             ToSet(rustDeps[t]) \subseteq rustAnnounced[t]
      PROVE  FALSE
  <2>1. CASE rustUnresolved[t] = {}
    <3>1. PICK c \in Caller : At(c, "take") /\ Next1(c) = t
      BY <1>2, <2>1 DEF RustSchedInv, EmptyIsTaken
    <3>2. Arg(c) \in Object /\ call[c].todo \in Seq(RustTask) /\ call[c].todo # <<>>
      BY <3>1 DEF RustSchedInv, RustTypes, CallOK, At, Telling
    <3>3. t \in ToSet(call[c].todo) BY <3>1, <3>2, SplitElements DEF Next1
    <3>4. BeingTold(t, Arg(c)) BY <3>1, <3>3 DEF BeingTold, At
    <3>5. QED BY <1>2, <3>2, <3>4
  <2>2. CASE rustUnresolved[t] # {}
    <3>1. PICK o \in rustUnresolved[t] : TRUE BY <2>2
    <3>2. o \in Object /\ o \in ToSet(rustDeps[t]) /\ o \in rustAnnounced[t]
      BY <1>2, <3>1 DEF RustSchedInv, RustTypes, RemovedWasHeard
    <3>3. t \notin ToSet(object_to_waiting[o])
      BY <3>2 DEF RustSchedInv, AnnouncedIsGone
    <3>4. ~ StillToIndex(t, o) BY <1>2 DEF StillToIndex, Submitting
    <3>5. QED BY <1>2, <3>1, <3>2, <3>3, <3>4 DEF RustSchedInv, Findable
  <2>3. QED BY <2>1, <2>2
<1>3. QED BY <1>1, <1>2
-----------------------------------------------------------------------------
LEMMA RustSubmitInv ==
    ASSUME RustSchedInv,
           NEW c \in Caller, NEW t \in RustTask, NEW d \in Deps, RustSubmit(c, t, d)
    PROVE  RustSchedInv'
<1> USE SchedulerAssumption DEF RustSchedInv
<1>1. d \in Seq(Object) /\ ToSet(d) \subseteq Object /\ (d = <<>> <=> ToSet(d) = {})
  BY EmptySeq, LenProperties, ElementOfSeq, SplitElements DEF ToSet
<1>2. /\ t \notin rustSubmitted /\ t \notin pending_tasks /\ rustAnnounced[t] = {}
      /\ \A b \in Caller : call[b].at \in Telling => t \notin ToSet(call[b].todo)
      /\ \A o \in Object : t \notin ToSet(object_to_waiting[o])
  BY DEF RustSubmit, RustTypes, CallOK, AnnouncedIsGone
<1>3. /\ \A b \in Caller : b # c => call'[b] = call[b]
      /\ d = <<>> => call'[c].at = "none"
      /\ d # <<>> => call'[c] = InCall("index", t, d)
  BY DEF RustSubmit, Goto, Loop, NoCall, InCall, RustTypes
<1>4. /\ InCall("index", t, d).at = "index"
      /\ InCall("index", t, d).arg = t /\ InCall("index", t, d).todo = d
  BY DEF InCall
<1>5. \A b \in Caller : call[b].at \in Telling => Next1(b) # t /\ b # c
  BY <1>2, SplitElements, SMTT(30) DEF RustTypes, CallOK, Next1, RustSubmit, At, Telling
<1>6. /\ ready_queue' \in Seq(RustTask)
      /\ ToSet(ready_queue') =
                  IF d = <<>> THEN ToSet(ready_queue) \cup {t} ELSE ToSet(ready_queue)
      /\ IsInjective(ready_queue')
  <2>1. /\ t \notin ToSet(ready_queue) /\ IsInjective(ready_queue)
        /\ ready_queue \in Seq(RustTask)
    BY <1>2 DEF RustOnePlace, RustTypes
  <2>2. CASE d = <<>>
    <3>1. ready_queue' = Append(ready_queue, t) BY <2>2 DEF RustSubmit
    <3>2. Append(ready_queue, t) \in Seq(RustTask) BY <2>1, AppendProperties
    <3> HIDE DEF RustSchedInv
    <3>3. QED BY <2>1, <2>2, <3>1, <3>2, AppendElements
  <2>3. CASE d # <<>> BY <2>1, <2>3 DEF RustSubmit
  <2>4. QED BY <2>2, <2>3
<1>7. RustTypes'
  <2>1. \A b \in Caller : CallOK(b)'
    <3> TAKE b \in Caller
    <3>1. CASE b = c
      BY <1>1, <1>3, <1>4, <3>1 DEF CallOK, At, Arg, Telling, RustSubmit
    <3>2. CASE b # c
      BY <1>3, <3>2 DEF RustTypes, CallOK, At, Arg, Telling, RustSubmit
    <3>3. QED BY <3>1, <3>2
  <2>2. QED BY <1>1, <1>6, <2>1, ZenonT(30) DEF RustTypes, RustSubmit, Goto
<1>8. RustOnePlace'
  <2>1. Pushers' = Pushers /\ \A b \in Pushers : Next1(b)' = Next1(b)
    BY <1>3, <1>4 DEF Pushers, At, Next1, RustSubmit
  <2>2. InHand' = InHand BY <2>1 DEF InHand
  <2>3. QED BY <1>2, <1>6, <2>1, <2>2 DEF RustOnePlace, RustSubmit
<1>9. RemovedWasHeard'
  <2>1. \A b \in Caller : At(b, "take")' =>
            At(b, "take") /\ Next1(b)' = Next1(b) /\ Next1(b) # t
    BY <1>3, <1>4, <1>5 DEF At, Next1, Telling
  <2>2. /\ \A s \in RustTask : s # t =>
            rustUnresolved'[s] = rustUnresolved[s] /\ rustDeps'[s] = rustDeps[s]
        /\ rustUnresolved'[t] = ToSet(d) /\ rustDeps'[t] = d
    BY <1>1, <1>2 DEF RemovedWasHeard, RustTypes, RustSubmit
  <2>3. \A s \in rustSubmitted' :
           /\ rustUnresolved'[s] \subseteq ToSet(rustDeps'[s])
           /\ ToSet(rustDeps'[s]) \ heard'[s] \subseteq rustUnresolved'[s]
           /\ s \notin pending_tasks' => ToSet(rustDeps'[s]) \subseteq heard'[s]
    BY <1>1, <1>2, <2>2 DEF RemovedWasHeard, RustTypes, RustSubmit
  <2>4. \A s \in RustTask \ rustSubmitted' : rustUnresolved'[s] = {}
    BY <2>2 DEF RemovedWasHeard, RustTypes, RustSubmit
  <2>5. \A b \in Caller : At(b, "take")' => rustUnresolved'[Next1(b)'] = {}
    <3> TAKE b \in Caller
    <3> HAVE At(b, "take")'
    <3>1. At(b, "take") /\ Next1(b)' = Next1(b) /\ Next1(b) # t BY <2>1
    <3>2. Next1(b) \in RustTask
      BY <3>1, SplitElements DEF RustTypes, CallOK, At, Telling, Next1
    <3>3. QED BY <2>2, <3>1, <3>2 DEF RemovedWasHeard
  <2>6. QED BY <2>3, <2>4, <2>5 DEF RemovedWasHeard
<1>10. AnnouncedIsGone'
  <2>1. \A s \in RustTask : Submitting(s)' => Submitting(s) \/ s = t
    BY <1>3, <1>4 DEF Submitting, At, Arg
  <2>2. QED BY <1>2, <2>1 DEF AnnouncedIsGone, RustTypes, RustSubmit
<1>11. Findable'
  <2> SUFFICES ASSUME NEW s \in pending_tasks', NEW o \in rustUnresolved'[s]
               PROVE  \/ s \in ToSet(object_to_waiting'[o])
                      \/ BeingTold(s, o)' \/ StillToIndex(s, o)'
    BY DEF Findable
  <2>1. CASE s = t
    BY <1>1, <1>2, <1>3, <1>4, <2>1 DEF RustSubmit, RustTypes, StillToIndex, At, Arg
  <2>2. CASE s # t
    <3>1. /\ s \in pending_tasks /\ o \in rustUnresolved[s]
          /\ object_to_waiting' = object_to_waiting
      BY <2>2 DEF RustSubmit, RustTypes
    <3>2. BeingTold(s, o) => BeingTold(s, o)'
      BY <1>3 DEF BeingTold, Arg, RustSubmit, At
    <3>3. StillToIndex(s, o) => StillToIndex(s, o)'
      BY <1>3 DEF StillToIndex, Arg, RustSubmit, At
    <3>4. QED BY <3>1, <3>2, <3>3 DEF Findable
  <2>3. QED BY <2>1, <2>2
<1>12. EmptyIsTaken'
  <2> SUFFICES ASSUME NEW s \in pending_tasks', rustUnresolved'[s] = {}
               PROVE  \E b \in Caller : At(b, "take")' /\ Next1(b)' = s
    BY DEF EmptyIsTaken
  <2>1. s # t BY <1>1, <1>2 DEF RustSubmit, RustTypes
  <2>2. s \in pending_tasks /\ rustUnresolved[s] = {} BY <2>1 DEF RustSubmit, RustTypes
  <2>3. PICK b \in Caller : At(b, "take") /\ Next1(b) = s BY <2>2 DEF EmptyIsTaken
  <2>4. call'[b] = call[b] BY <1>3, <2>3 DEF RustSubmit, At
  <2>5. QED BY <2>3, <2>4 DEF At, Next1
<1>13. QED BY <1>7, <1>8, <1>9, <1>10, <1>11, <1>12
LEMMA LoopFacts ==
    ASSUME NEW label, NEW a, NEW s
    PROVE  /\ s = <<>> => Loop(label, a, s).at = "none"
           /\ s # <<>> => /\ Loop(label, a, s).at = label
                          /\ Loop(label, a, s).arg = a
                          /\ Loop(label, a, s).todo = s
BY DEF Loop, NoCall, InCall

LEMMA RustIndexInv ==
    ASSUME RustSchedInv, NEW c \in Caller, Index(c)
    PROVE  RustSchedInv'
<1> USE DEF RustSchedInv
<1> DEFINE t == Arg(c)  o1 == Next1(c)
<1>1. /\ t \in rustSubmitted /\ t \in RustTask
      /\ call[c].todo \in Seq(Object) /\ call[c].todo # <<>>
  BY DEF Index, RustTypes, CallOK
<1>2. /\ o1 \in Object /\ Rest(c) \in Seq(Object)
      /\ ToSet(call[c].todo) = {o1} \cup ToSet(Rest(c))
  BY <1>1, SplitElements DEF Next1, Rest
<1>3. /\ \A b \in Caller : b # c => call'[b] = call[b]
      /\ call'[c] = Loop("index", t, Rest(c))
  BY DEF Index, Goto, RustTypes
<1>4. /\ Rest(c) = <<>> => call'[c].at = "none"
      /\ Rest(c) # <<>> => /\ call'[c].at = "index"
                           /\ call'[c].arg = t /\ call'[c].todo = Rest(c)
  BY <1>3, LoopFacts
<1>5. \A o \in Object :
          /\ object_to_waiting'[o] \in Seq(RustTask)
          /\ ToSet(object_to_waiting'[o]) =
                      IF o = o1 THEN ToSet(object_to_waiting[o]) \cup {t}
                      ELSE ToSet(object_to_waiting[o])
  <2> TAKE o \in Object
  <2>1. object_to_waiting[o] \in Seq(RustTask) BY DEF RustTypes
  <2>2. CASE o = o1
    <3>1. object_to_waiting'[o] = Append(object_to_waiting[o], t)
      BY <2>2 DEF Index, RustTypes
    <3> HIDE DEF t, o1, RustSchedInv
    <3>2. QED BY <1>1, <2>1, <2>2, <3>1, AppendElements, AppendProperties
  <2>3. CASE o # o1 BY <2>1, <2>3 DEF Index, RustTypes
  <2>4. QED BY <2>2, <2>3
<1>6. RustTypes'
  <2>1. \A b \in Caller : CallOK(b)'
    <3> TAKE b \in Caller
    <3>1. CASE b = c
      BY <1>1, <1>2, <1>4, <3>1 DEF CallOK, At, Arg, Telling, Index, history
    <3>2. CASE b # c
      BY <1>3, <3>2 DEF RustTypes, CallOK, At, Arg, Index, history
    <3>3. QED BY <3>1, <3>2
  <2>2. object_to_waiting' = [o \in Object |-> object_to_waiting'[o]]
    BY DEF Index, RustTypes
  <2>3. object_to_waiting' \in [Object -> Seq(RustTask)]
    <3> HIDE DEF RustSchedInv, o1, t
    <3>1. QED BY <1>5, <2>2
  <2>4. QED BY <1>1, <1>5, <2>1, <2>3 DEF RustTypes, Index, Goto, history
<1>7. RustOnePlace'
  <2>1. Pushers' = Pushers /\ \A b \in Pushers : Next1(b)' = Next1(b)
    BY <1>3, <1>4 DEF Pushers, At, Next1, Index
  <2>2. InHand' = InHand BY <2>1 DEF InHand
  <2>3. QED BY <2>1, <2>2 DEF RustOnePlace, Index, history
<1>8. RemovedWasHeard'
  <2>1. \A b \in Caller : At(b, "take")' => At(b, "take") /\ Next1(b)' = Next1(b)
    BY <1>3, <1>4 DEF At, Next1
  <2>2. QED BY <2>1 DEF RemovedWasHeard, Index, history
<1>9. AnnouncedIsGone'
  <2>1. \A s \in RustTask : Submitting(s)' => Submitting(s)
    BY <1>3, <1>4 DEF Submitting, At, Arg, Index
  <2>2. rustAnnounced[t] = {}
    BY <1>1 DEF AnnouncedIsGone, Submitting, Index
  <2>3. \A s \in RustTask : s \notin rustSubmitted' \/ Submitting(s)' =>
            rustAnnounced'[s] = {}
    BY <2>1 DEF AnnouncedIsGone, Index, history
  <2>4. ASSUME NEW s \in rustSubmitted', NEW o \in Object, o \in rustAnnounced'[s]
        PROVE  s \notin ToSet(object_to_waiting'[o])
    <3>1. s \in rustSubmitted /\ o \in rustAnnounced[s] BY <2>4 DEF Index, history
    <3>2. s # t BY <2>2, <3>1
    <3>3. s \notin ToSet(object_to_waiting[o]) BY <3>1 DEF AnnouncedIsGone
    <3>4. QED BY <1>5, <3>2, <3>3
  <2>5. QED BY <2>3, <2>4 DEF AnnouncedIsGone
<1>10. Findable'
  <2> SUFFICES ASSUME NEW s \in pending_tasks', NEW o \in rustUnresolved'[s]
               PROVE  \/ s \in ToSet(object_to_waiting'[o])
                      \/ BeingTold(s, o)' \/ StillToIndex(s, o)'
    BY DEF Findable
  <2>1. s \in pending_tasks /\ o \in rustUnresolved[s] /\ o \in Object
    BY DEF Index, history, RustTypes
  <2>2. BeingTold(s, o) => BeingTold(s, o)'
    BY <1>3 DEF BeingTold, Arg, Index, At
  <2>3. StillToIndex(s, o) => StillToIndex(s, o)' \/ s \in ToSet(object_to_waiting'[o])
    <3>1. SUFFICES ASSUME NEW b \in Caller, At(b, "index"), Arg(b) = s,
                          o \in ToSet(call[b].todo)
                   PROVE  StillToIndex(s, o)' \/ s \in ToSet(object_to_waiting'[o])
      BY DEF StillToIndex
    <3>2. CASE b # c BY <1>3, <3>1, <3>2 DEF StillToIndex, At, Arg
    <3>3. CASE b = c /\ o = o1 BY <1>5, <2>1, <3>1, <3>3
    <3>4. CASE b = c /\ o # o1
      <4>1. Rest(c) # <<>> /\ o \in ToSet(Rest(c))
        <5>1. ToSet(<<>>) = {} BY DEF ToSet
        <5>2. QED BY <1>2, <3>1, <3>4, <5>1
      <4>2. QED BY <1>4, <3>1, <3>4, <4>1 DEF StillToIndex, At, Arg
    <3>5. QED BY <3>2, <3>3, <3>4
  <2>4. QED BY <1>5, <2>1, <2>2, <2>3 DEF Findable
<1>11. EmptyIsTaken'
  <2>1. \A b \in Caller : At(b, "take") => At(b, "take")' /\ Next1(b)' = Next1(b)
    BY <1>3 DEF At, Next1, Index
  <2>2. QED BY <2>1 DEF EmptyIsTaken, Index, history
<1>12. QED BY <1>6, <1>7, <1>8, <1>9, <1>10, <1>11

LEMMA RustAnnounceInv ==
    ASSUME RustSchedInv, NEW c \in Caller, NEW o1 \in Object, RustAnnounce(c, o1)
    PROVE  RustSchedInv'
<1> USE DEF RustSchedInv
<1> DEFINE list == object_to_waiting[o1]
<1>1. ToSet(<<>>) = {} BY DEF ToSet
<1>2. list \in Seq(RustTask) /\ ToSet(list) \subseteq rustSubmitted BY DEF RustTypes
<1>3. /\ \A b \in Caller : b # c => call'[b] = call[b]
      /\ call'[c] = Loop("look", o1, list)
  BY DEF RustAnnounce, Goto, RustTypes
<1>4. /\ list = <<>> => call'[c].at = "none"
      /\ list # <<>> => /\ call'[c].at = "look"
                        /\ call'[c].arg = o1 /\ call'[c].todo = list
  BY <1>3, LoopFacts
<1>5. /\ \A t \in RustTask : heard[t] \subseteq heard'[t]
      /\ \A t \in rustSubmitted : o1 \in heard'[t]
  BY DEF RustAnnounce, RustTypes
<1>6. \A t \in RustTask : Submitting(t)' <=> Submitting(t)
  BY <1>3, <1>4 DEF Submitting, At, Arg, RustAnnounce
<1>7. RustTypes'
  <2>1. \A b \in Caller : CallOK(b)'
    <3> TAKE b \in Caller
    <3>1. CASE b = c
      BY <1>2, <1>4, <1>5, <3>1 DEF CallOK, At, Arg, Telling, RustAnnounce
    <3>2. CASE b # c
      BY <1>3, <1>5, <3>2 DEF RustTypes, CallOK, At, Arg, RustAnnounce
    <3>3. QED BY <3>1, <3>2
  <2>2. /\ heard' \in [RustTask -> SUBSET Object]
        /\ rustAnnounced' \in [RustTask -> SUBSET Object]
    BY DEF RustTypes, RustAnnounce
  <2>3. /\ object_to_waiting' \in [Object -> Seq(RustTask)]
        /\ \A o \in Object : ToSet(object_to_waiting'[o]) \subseteq rustSubmitted
    BY <1>1 DEF RustTypes, RustAnnounce
  <2>4. QED BY <2>1, <2>2, <2>3 DEF RustTypes, RustAnnounce, Goto
<1>8. RustOnePlace'
  <2>1. Pushers' = Pushers /\ \A b \in Pushers : Next1(b)' = Next1(b)
    BY <1>3, <1>4 DEF Pushers, At, Next1, RustAnnounce
  <2>2. InHand' = InHand BY <2>1 DEF InHand
  <2>3. QED BY <2>1, <2>2 DEF RustOnePlace, RustAnnounce
<1>9. RemovedWasHeard'
  <2>1. \A b \in Caller : At(b, "take")' => At(b, "take") /\ Next1(b)' = Next1(b)
    BY <1>3, <1>4 DEF At, Next1
  <2>2. QED BY <1>5, <2>1 DEF RemovedWasHeard, RustAnnounce, RustTypes
<1>10. AnnouncedIsGone'
  <2>1. \A t \in RustTask : t \notin rustSubmitted \/ Submitting(t) =>
            rustAnnounced'[t] = {}
    BY DEF AnnouncedIsGone, RustAnnounce
  <2>2. \A t \in rustSubmitted, o \in Object : o \in rustAnnounced'[t] =>
            o = o1 \/ o \in rustAnnounced[t]
    BY DEF RustAnnounce, RustTypes
  <2>3. \A t \in rustSubmitted, o \in Object : o \in rustAnnounced'[t] =>
            t \notin ToSet(object_to_waiting'[o])
    BY <1>1, <2>2 DEF AnnouncedIsGone, RustAnnounce, RustTypes
  <2>4. QED BY <1>6, <2>1, <2>3 DEF AnnouncedIsGone, RustAnnounce
<1>11. Findable'
  <2> SUFFICES ASSUME NEW s \in pending_tasks', NEW o \in rustUnresolved'[s]
               PROVE  \/ s \in ToSet(object_to_waiting'[o])
                      \/ BeingTold(s, o)' \/ StillToIndex(s, o)'
    BY DEF Findable
  <2>1. s \in pending_tasks /\ o \in rustUnresolved[s] /\ o \in Object
    BY DEF RustAnnounce, RustTypes
  <2>2. BeingTold(s, o) => BeingTold(s, o)'
    BY <1>3 DEF BeingTold, Arg, RustAnnounce, At
  <2>3. StillToIndex(s, o) => StillToIndex(s, o)'
    BY <1>3 DEF StillToIndex, Arg, RustAnnounce, At
  <2>4. s \in ToSet(object_to_waiting[o]) =>
            s \in ToSet(object_to_waiting'[o]) \/ BeingTold(s, o)'
    <3>1. CASE o # o1 BY <2>1, <3>1 DEF RustAnnounce, RustTypes
    <3>2. CASE o = o1 BY <1>1, <1>4, <3>2 DEF BeingTold, Arg
    <3>3. QED BY <3>1, <3>2
  <2>5. QED BY <2>1, <2>2, <2>3, <2>4 DEF Findable
<1>12. EmptyIsTaken'
  <2>1. \A b \in Caller : At(b, "take") => At(b, "take")' /\ Next1(b)' = Next1(b)
    BY <1>3 DEF At, Next1, RustAnnounce
  <2>2. QED BY <2>1 DEF EmptyIsTaken, RustAnnounce
<1>13. QED BY <1>7, <1>8, <1>9, <1>10, <1>11, <1>12
\* A caller that goes through a list stays at a task or goes on to the next:
\* it forgets this task at most.
LEMMA MoveOn ==
    ASSUME RustTypes, NEW c \in Caller, call[c].at \in Telling, NEW label \in Telling,
           NEW k, k = Now(c, label) \/ k = Loop("look", Arg(c), Rest(c)),
           Goto(c, k), UNCHANGED <<rustSubmitted, heard>>
    PROVE  /\ \A b \in Caller : b # c => call'[b] = call[b]
           /\ call'[c] = k
           /\ Next1(c) \in ToSet(call[c].todo)
           /\ \A b \in Caller : CallOK(b)'
           /\ \A s, o : BeingTold(s, o) =>
                           BeingTold(s, o)' \/ (s = Next1(c) /\ o = Arg(c))
           /\ \A s : Submitting(s)' <=> Submitting(s)
           /\ \A s, o : StillToIndex(s, o) => StillToIndex(s, o)'
           /\ k = Now(c, label) => call'[c].at = label /\ Next1(c)' = Next1(c)
           /\ k = Loop("look", Arg(c), Rest(c)) => call'[c].at \in {"look", "none"}
<1>1. /\ \A b \in Caller : b # c => call'[b] = call[b]
      /\ call'[c] = k
  BY DEF Goto, RustTypes
<1>2. /\ call[c].todo \in Seq(RustTask) /\ call[c].todo # <<>> /\ Arg(c) \in Object
      /\ \A t \in ToSet(call[c].todo) : t \in rustSubmitted /\ Arg(c) \in heard[t]
  BY DEF RustTypes, CallOK
<1>3. /\ Rest(c) \in Seq(RustTask)
      /\ ToSet(call[c].todo) = {Next1(c)} \cup ToSet(Rest(c))
  BY <1>2, SplitElements DEF Next1, Rest
<1>4. k = Now(c, label) =>
         k.at = label /\ k.arg = Arg(c) /\ k.todo = call[c].todo
  BY DEF Now, InCall
<1>5. k # Now(c, label) =>
         /\ Rest(c) = <<>> => k.at = "none"
         /\ Rest(c) # <<>> => k.at = "look" /\ k.arg = Arg(c) /\ k.todo = Rest(c)
  BY LoopFacts
<1>6. \A b \in Caller : CallOK(b)'
  <2> TAKE b \in Caller
  <2>1. CASE b # c BY <1>1, <2>1 DEF RustTypes, CallOK, At, Arg
  <2>2. CASE b = c /\ k = Now(c, label)
    BY <1>1, <1>2, <1>4, <2>2 DEF CallOK, At, Arg, Telling
  <2>3. CASE b = c /\ k # Now(c, label)
    BY <1>1, <1>2, <1>3, <1>5, <2>3 DEF CallOK, At, Arg, Telling
  <2>4. QED BY <2>1, <2>2, <2>3
<1>7. ASSUME NEW s, NEW o, BeingTold(s, o)
      PROVE  BeingTold(s, o)' \/ (s = Next1(c) /\ o = Arg(c))
  <2>1. PICK b \in Caller : /\ call[b].at \in Telling /\ Arg(b) = o
                            /\ s \in ToSet(call[b].todo)
    BY <1>7 DEF BeingTold, Telling
  <2>2. CASE b # c BY <1>1, <2>1, <2>2 DEF BeingTold, Arg, Telling
  <2>3. CASE b = c /\ k = Now(c, label)
    BY <1>1, <1>4, <2>1, <2>3 DEF BeingTold, Arg, Telling
  <2>4. CASE b = c /\ k # Now(c, label) /\ s # Next1(c)
    <3>1. s \in ToSet(Rest(c)) BY <1>3, <2>1, <2>4
    <3>2. ToSet(<<>>) = {} BY DEF ToSet
    <3>3. QED BY <1>1, <1>5, <2>1, <2>4, <3>1, <3>2 DEF BeingTold, Arg
  <2>5. QED BY <2>1, <2>2, <2>3, <2>4
<1>8. call[c].at # "index" /\ call'[c].at # "index"
  BY <1>1, <1>4, <1>5 DEF Telling
<1>9. /\ \A s : Submitting(s)' <=> Submitting(s)
      /\ \A s, o : StillToIndex(s, o) => StillToIndex(s, o)'
  BY <1>1, <1>8 DEF Submitting, StillToIndex, At, Arg
<1>10. k = Loop("look", Arg(c), Rest(c)) => k.at \in {"look", "none"}
  BY LoopFacts
<1>11. QED BY <1>1, <1>3, <1>4, <1>6, <1>7, <1>9, <1>10 DEF Next1
LEMMA RustLookInv ==
    ASSUME RustSchedInv, NEW c \in Caller, Look(c)
    PROVE  RustSchedInv'
<1> USE DEF RustSchedInv
<1> DEFINE t == Next1(c)  lacks == rustUnresolved[t] \ {Arg(c)}
           taken == t \in pending_tasks /\ lacks = {}
           k == IF taken THEN Now(c, "take") ELSE Loop("look", Arg(c), Rest(c))
<1>1. /\ call[c].at = "look" /\ Goto(c, k)
      /\ rustUnresolved' = [rustUnresolved EXCEPT ![t] = lacks]
      /\ UNCHANGED <<pending_tasks, object_to_waiting, ready_queue>>
      /\ UNCHANGED <<rustSubmitted, rustDeps, rustAnnounced, heard, rustHanded>>
  BY DEF Look, At, history
<1>2. /\ \A b \in Caller : b # c => call'[b] = call[b]
      /\ t \in ToSet(call[c].todo)
      /\ \A b \in Caller : CallOK(b)'
      /\ \A s, o : BeingTold(s, o) => BeingTold(s, o)' \/ (s = t /\ o = Arg(c))
      /\ \A s : Submitting(s)' <=> Submitting(s)
      /\ \A s, o : StillToIndex(s, o) => StillToIndex(s, o)'
      /\ taken => call'[c].at = "take" /\ Next1(c)' = t
      /\ ~ taken => call'[c].at \in {"look", "none"}
  BY <1>1, MoveOn DEF Telling
<1>3. t \in rustSubmitted /\ t \in RustTask /\ Arg(c) \in heard[t]
  BY <1>1, <1>2 DEF RustTypes, CallOK, Telling
<1> HIDE DEF t, k
<1>4. \A s \in RustTask : rustUnresolved'[s] =
            IF s = t THEN lacks ELSE rustUnresolved[s]
  BY <1>1 DEF RustTypes
<1>5. RustTypes'
  <2>1. rustUnresolved' \in [RustTask -> SUBSET Object] BY <1>1, <1>3 DEF RustTypes
  <2>2. call' = [b \in Caller |-> call'[b]] BY <1>1 DEF Goto, RustTypes
  <2>3. QED BY <1>1, <1>2, <2>1, <2>2 DEF RustTypes
<1>6. RustOnePlace'
  <2>1. Pushers' = Pushers /\ \A b \in Pushers : Next1(b)' = Next1(b)
    BY <1>1, <1>2 DEF Pushers, At, Next1
  <2>2. InHand' = InHand BY <2>1 DEF InHand
  <2>3. QED BY <1>1, <2>1, <2>2 DEF RustOnePlace
<1>7. RemovedWasHeard'
  <2>1. \A s \in rustSubmitted :
           /\ rustUnresolved'[s] \subseteq ToSet(rustDeps[s])
           /\ ToSet(rustDeps[s]) \ heard[s] \subseteq rustUnresolved'[s]
    BY <1>3, <1>4 DEF RemovedWasHeard, RustTypes
  <2>2. \A s \in RustTask \ rustSubmitted : rustUnresolved'[s] = {}
    BY <1>3, <1>4 DEF RemovedWasHeard
  <2>3. ASSUME NEW b \in Caller, At(b, "take")' PROVE rustUnresolved'[Next1(b)'] = {}
    <3>1. CASE b = c
      BY <1>2, <1>3, <1>4, <2>3, <3>1 DEF At
    <3>2. CASE b # c
      <4>1. At(b, "take") /\ Next1(b)' = Next1(b) BY <1>2, <2>3, <3>2 DEF At, Next1
      <4>2. Next1(b) \in RustTask
        BY <4>1, SplitElements DEF RustTypes, CallOK, At, Telling, Next1
      <4>3. QED BY <1>4, <4>1, <4>2 DEF RemovedWasHeard
    <3>3. QED BY <3>1, <3>2
  <2>4. QED BY <1>1, <2>1, <2>2, <2>3 DEF RemovedWasHeard
<1>8. AnnouncedIsGone' BY <1>1, <1>2 DEF AnnouncedIsGone
<1>9. Findable'
  <2> SUFFICES ASSUME NEW s \in pending_tasks', NEW o \in rustUnresolved'[s]
               PROVE  \/ s \in ToSet(object_to_waiting'[o])
                      \/ BeingTold(s, o)' \/ StillToIndex(s, o)'
    BY DEF Findable
  <2>1. /\ s \in pending_tasks /\ o \in rustUnresolved[s]
        /\ ~ (s = t /\ o = Arg(c))
    BY <1>1, <1>3, <1>4 DEF RustTypes
  <2>2. QED BY <1>1, <1>2, <2>1 DEF Findable
<1>10. EmptyIsTaken'
  <2> SUFFICES ASSUME NEW s \in pending_tasks', rustUnresolved'[s] = {}
               PROVE  \E b \in Caller : At(b, "take")' /\ Next1(b)' = s
    BY DEF EmptyIsTaken
  <2>1. s \in pending_tasks /\ s \in RustTask BY <1>1 DEF RustTypes
  <2>2. CASE s = t
    <3>1. taken BY <1>4, <2>1, <2>2
    <3>2. QED BY <1>2, <2>2, <3>1 DEF At
  <2>3. CASE s # t
    <3>1. PICK b \in Caller : At(b, "take") /\ Next1(b) = s
      BY <1>4, <2>1, <2>3 DEF EmptyIsTaken
    <3>2. QED BY <1>1, <1>2, <3>1 DEF At, Next1
  <2>4. QED BY <2>2, <2>3
<1>11. QED BY <1>5, <1>6, <1>7, <1>8, <1>9, <1>10

LEMMA RustTakeInv ==
    ASSUME RustSchedInv, NEW c \in Caller, Take(c)
    PROVE  RustSchedInv'
<1> USE DEF RustSchedInv
<1> DEFINE t == Next1(c)
           k == IF t \in pending_tasks THEN Now(c, "push")
                                       ELSE Loop("look", Arg(c), Rest(c))
<1>1. /\ At(c, "take") /\ call[c].at = "take" /\ Goto(c, k)
      /\ pending_tasks' = pending_tasks \ {t}
      /\ UNCHANGED <<rustUnresolved, object_to_waiting, ready_queue>>
      /\ UNCHANGED <<rustSubmitted, rustDeps, rustAnnounced, heard, rustHanded>>
  BY DEF Take, At, history
<1>2. /\ \A b \in Caller : b # c => call'[b] = call[b]
      /\ \A b \in Caller : CallOK(b)'
      /\ \A s, o : BeingTold(s, o) => BeingTold(s, o)' \/ (s = t /\ o = Arg(c))
      /\ \A s : Submitting(s)' <=> Submitting(s)
      /\ \A s, o : StillToIndex(s, o) => StillToIndex(s, o)'
      /\ t \in pending_tasks => call'[c].at = "push" /\ Next1(c)' = t
      /\ t \notin pending_tasks => call'[c].at \in {"look", "none"}
  BY <1>1, MoveOn DEF Telling
<1> HIDE DEF k
<1>3. RustTypes'
  <2>1. call' = [b \in Caller |-> call'[b]] BY <1>1 DEF Goto, RustTypes
  <2>2. QED BY <1>1, <1>2, <2>1 DEF RustTypes
<1>4. RustOnePlace'
  <2>1. \A b \in Pushers : b # c /\ b \in Pushers' /\ Next1(b)' = Next1(b)
    BY <1>1, <1>2 DEF Pushers, At, Next1
  <2>2. CASE t \in pending_tasks
    <3>1. Pushers' = Pushers \cup {c} /\ Next1(c)' = t
      BY <1>2, <2>1, <2>2 DEF Pushers, At
    <3>2. InHand' = InHand \cup {t} BY <2>1, <3>1 DEF InHand
    <3>3. t \notin InHand BY <2>2 DEF RustOnePlace
    <3>4. \A b \in Pushers : Next1(b) # t BY <3>3 DEF InHand
    <3> HIDE DEF t
    <3>5. QED BY <1>1, <2>1, <2>2, <3>1, <3>2, <3>4 DEF RustOnePlace
  <2>3. CASE t \notin pending_tasks
    <3>1. Pushers' = Pushers BY <1>2, <2>1, <2>3 DEF Pushers, At
    <3>2. InHand' = InHand BY <2>1, <3>1 DEF InHand
    <3>3. QED BY <1>1, <2>1, <2>3, <3>1, <3>2 DEF RustOnePlace
  <2>4. QED BY <2>2, <2>3
<1>5. RemovedWasHeard'
  <2>1. rustUnresolved[t] = {} BY <1>1 DEF RemovedWasHeard
  <2>2. \A b \in Caller : At(b, "take")' => At(b, "take") /\ Next1(b)' = Next1(b)
    BY <1>2 DEF At, Next1
  <2>3. \A s \in rustSubmitted : s \notin pending_tasks' =>
            ToSet(rustDeps[s]) \subseteq heard[s]
    BY <1>1, <2>1 DEF RemovedWasHeard
  <2>4. QED BY <1>1, <2>2, <2>3 DEF RemovedWasHeard
<1>6. AnnouncedIsGone' BY <1>1, <1>2 DEF AnnouncedIsGone
<1>7. Findable' BY <1>1, <1>2 DEF Findable
<1>8. EmptyIsTaken'
  <2>1. \A b \in Caller : At(b, "take") /\ Next1(b) # t =>
            At(b, "take")' /\ Next1(b)' = Next1(b)
    BY <1>2 DEF At, Next1
  <2>2. QED BY <1>1, <2>1 DEF EmptyIsTaken
<1>9. QED BY <1>3, <1>4, <1>5, <1>6, <1>7, <1>8

LEMMA RustPushInv ==
    ASSUME RustSchedInv, NEW c \in Caller, Push(c)
    PROVE  RustSchedInv'
<1> USE DEF RustSchedInv
<1> DEFINE t == Next1(c)
<1>1. /\ At(c, "push") /\ call[c].at = "push"
      /\ Goto(c, Loop("look", Arg(c), Rest(c)))
      /\ ready_queue' = Append(ready_queue, t)
      /\ UNCHANGED <<pending_tasks, rustUnresolved, object_to_waiting>>
      /\ UNCHANGED <<rustSubmitted, rustDeps, rustAnnounced, heard, rustHanded>>
  BY DEF Push, At, history
<1>2. /\ \A b \in Caller : b # c => call'[b] = call[b]
      /\ t \in ToSet(call[c].todo)
      /\ \A b \in Caller : CallOK(b)'
      /\ \A s, o : BeingTold(s, o) => BeingTold(s, o)' \/ (s = t /\ o = Arg(c))
      /\ \A s : Submitting(s)' <=> Submitting(s)
      /\ \A s, o : StillToIndex(s, o) => StillToIndex(s, o)'
      /\ call'[c].at \in {"look", "none"}
  BY <1>1, MoveOn DEF Telling
<1>3. c \in Pushers /\ t \in InHand BY <1>1 DEF Pushers, InHand
<1>4. /\ t \in RustTask /\ t \notin pending_tasks /\ t \notin ToSet(ready_queue)
      /\ t \notin rustHanded
  BY <1>3 DEF RustOnePlace, RustTypes
<1>5. /\ ready_queue' \in Seq(RustTask)
      /\ ToSet(ready_queue') = ToSet(ready_queue) \cup {t}
      /\ IsInjective(ready_queue')
  <2>1. ready_queue \in Seq(RustTask) /\ IsInjective(ready_queue)
    BY DEF RustTypes, RustOnePlace
  <2> HIDE DEF t, RustSchedInv
  <2>2. QED BY <1>1, <1>4, <2>1, AppendElements, AppendProperties
<1>6. RustTypes'
  <2>1. call' = [b \in Caller |-> call'[b]] BY <1>1 DEF Goto, RustTypes
  <2>2. QED BY <1>1, <1>2, <1>5, <2>1 DEF RustTypes
<1>7. RustOnePlace'
  <2>1. Pushers' = Pushers \ {c} /\ \A b \in Pushers : b # c => Next1(b)' = Next1(b)
    BY <1>2 DEF Pushers, At, Next1
  <2>2. \A b \in Pushers : Next1(b) = t <=> b = c BY <1>3 DEF RustOnePlace
  <2>3. InHand' = InHand \ {t} BY <1>3, <2>1, <2>2 DEF InHand
  <2> HIDE DEF t
  <2>4. QED BY <1>1, <1>3, <1>4, <1>5, <2>1, <2>3 DEF RustOnePlace
<1>8. RemovedWasHeard'
  <2>1. \A b \in Caller : At(b, "take")' => At(b, "take") /\ Next1(b)' = Next1(b)
    BY <1>2 DEF At, Next1
  <2>2. QED BY <1>1, <2>1 DEF RemovedWasHeard
<1>9. AnnouncedIsGone' BY <1>1, <1>2 DEF AnnouncedIsGone
<1>10. Findable' BY <1>1, <1>2, <1>4 DEF Findable
<1>11. EmptyIsTaken'
  <2>1. \A b \in Caller : At(b, "take") => At(b, "take")' /\ Next1(b)' = Next1(b)
    BY <1>1, <1>2 DEF At, Next1
  <2>2. QED BY <1>1, <2>1 DEF EmptyIsTaken
<1>12. QED BY <1>6, <1>7, <1>8, <1>9, <1>10, <1>11

LEMMA RustPopInv ==
    ASSUME RustSchedInv, RustPop
    PROVE  RustSchedInv'
<1> USE DEF RustSchedInv, RustPop
<1>1. /\ Head(ready_queue) \in ToSet(ready_queue)
      /\ ready_queue' \in Seq(RustTask)
      /\ ToSet(ready_queue') = ToSet(ready_queue) \ {Head(ready_queue)}
      /\ IsInjective(ready_queue')
  BY TailElements DEF RustOnePlace, RustTypes
<1>2. RustTypes'
  <2>1. \A c \in Caller : CallOK(c)' BY DEF RustTypes, CallOK, At, Arg
  <2>2. QED BY <1>1, <2>1 DEF RustTypes
<1>3. RustOnePlace'
  <2>1. InHand' = InHand /\ Pushers' = Pushers BY DEF InHand, Pushers, At, Next1
  <2>2. \A c \in Caller : Next1(c)' = Next1(c) BY DEF Next1
  <2>3. /\ rustHanded' = rustHanded \cup {Head(ready_queue)}
        /\ UNCHANGED <<pending_tasks, rustSubmitted>>
    OBVIOUS
  <2>4. RustOnePlace BY DEF RustSchedInv
  <2> HIDE DEF RustPop, RustSchedInv
  <2>5. pending_tasks' \cup InHand' \cup ToSet(ready_queue') \cup rustHanded' = rustSubmitted'
    BY <1>1, <2>1, <2>3, <2>4 DEF RustOnePlace
  <2>6. /\ pending_tasks' \cap (InHand' \cup ToSet(ready_queue') \cup rustHanded') = {}
        /\ InHand' \cap (ToSet(ready_queue') \cup rustHanded') = {}
        /\ ToSet(ready_queue') \cap rustHanded' = {}
    BY <1>1, <2>1, <2>3, <2>4 DEF RustOnePlace
  <2>7. \A b, c \in Pushers' : Next1(b)' = Next1(c)' => b = c
    BY <2>1, <2>2, <2>4 DEF RustOnePlace, Pushers
  <2>8. QED BY <1>1, <2>5, <2>6, <2>7 DEF RustOnePlace
<1>4. RemovedWasHeard' /\ AnnouncedIsGone' /\ Findable' /\ EmptyIsTaken'
  BY DEF RemovedWasHeard, AnnouncedIsGone, Findable, EmptyIsTaken, BeingTold,
         StillToIndex, Submitting, At, Arg, Next1
<1>5. QED BY <1>2, <1>3, <1>4

LEMMA RustSchedNext == RustSchedInv /\ [RustNext]_rustVars => RustSchedInv'
<1> SUFFICES ASSUME RustSchedInv, [RustNext]_rustVars PROVE RustSchedInv'
  OBVIOUS
<1>1. CASE UNCHANGED rustVars
  <2> USE <1>1 DEF rustVars, containers, history, RustSchedInv, At, Arg, Next1
  <2>1. RustTypes' BY DEF RustTypes, CallOK
  <2>2. RustOnePlace' BY DEF RustOnePlace, InHand, Pushers
  <2>3. RemovedWasHeard' /\ EmptyIsTaken' BY DEF RemovedWasHeard, EmptyIsTaken
  <2>4. AnnouncedIsGone' /\ Findable'
    BY DEF AnnouncedIsGone, Findable, BeingTold, StillToIndex, Submitting
  <2>5. QED BY <2>1, <2>2, <2>3, <2>4
<1>2. QED
  BY <1>1, RustSubmitInv, RustIndexInv, RustAnnounceInv, RustLookInv, RustTakeInv,
     RustPushInv, RustPopInv
  DEF RustNext, Continue

(***************************************************************************)
(* With no lock across its containers, the Rust scheduler neither loses a  *)
(* task nor queues one twice: of the announcements that see it lack        *)
(* nothing, one gets it out of pending_tasks (scheduler.rs:105-131).       *)
(***************************************************************************)
THEOREM RustSchedulerOnePlace == RustSpec => []RustOnePlace
<1>1. RustSchedInv => RustOnePlace BY DEF RustSchedInv
<1>2. QED BY <1>1, RustSchedInit, RustSchedNext, PTL DEF RustSpec

(***************************************************************************)
(* It releases a task when its dependencies have been announced, neither   *)
(* before nor, unless somebody is at it, later, although an announcement   *)
(* may run while the task is indexed (scheduler.rs:64-131).                *)
(***************************************************************************)
THEOREM RustSchedulerReleasedOnTime == RustSpec => []RustReleasedOnTime
BY InvReleases, RustSchedInit, RustSchedNext, PTL DEF RustSpec
-----------------------------------------------------------------------------
(***************************************************************************)
(* Dag: the dependencies found in a call's arguments are what resolving    *)
(* them asks for, for any ObjectRefs, lists of any length and containers   *)
(* of any depth.  The proof is by induction on the depth.  A recursive     *)
(* function is some function that satisfies its equation, if there is one, *)
(* so each of nested, collected, resolved and given is first shown to      *)
(* exist: applying the body of the recursion once more makes a function    *)
(* satisfy the equation one container deeper (InductionOnSet).             *)
(***************************************************************************)
\* Nesting is defined by its recursion.
LEMMA NestedDefined ==
    /\ nested[0] = Leaf
    /\ \A n \in Nat : n + 1 \in 0 .. Depth => nested[n + 1] = Deeper(nested[n])
<1> USE DagAssumption
<1> DEFINE D == 0 .. Depth
           Step(g) == [n \in D |-> IF n = 0 THEN Leaf ELSE Deeper(g[n - 1])]
           UpTo(g, k) == \A n \in D : n <= k => g[n] = Step(g)[n]
           S == {k \in Nat : \E g : g = [n \in D |-> g[n]] /\ UpTo(g, k)}
<1>1. 0 \in S
  <2> DEFINE g == [n \in D |-> Leaf]
  <2>1. UpTo(g, 0) OBVIOUS
  <2>2. g = [n \in D |-> g[n]] OBVIOUS
  <2>3. QED BY <2>1, <2>2
<1>2. ASSUME NEW k \in Nat, k \in S PROVE k + 1 \in S
  <2>1. PICK g : g = [n \in D |-> g[n]] /\ UpTo(g, k) BY <1>2
  <2> DEFINE h == Step(g)
  <2>2. ASSUME NEW n \in D, n <= k + 1 PROVE h[n] = Step(h)[n]
    <3>1. CASE n = 0 BY <3>1
    <3>2. CASE n # 0
      <4>1. n - 1 \in D /\ n - 1 <= k BY <2>2, <3>2
      <4>2. h[n - 1] = g[n - 1] BY <2>1, <4>1
      <4>3. h[n] = Deeper(g[n - 1]) BY <2>2, <3>2
      <4>4. Step(h)[n] = Deeper(h[n - 1]) BY <2>2, <3>2
      <4>5. QED BY <4>2, <4>3, <4>4
    <3>3. QED BY <3>1, <3>2
  <2>3. h = [n \in D |-> h[n]] OBVIOUS
  <2>4. UpTo(h, k + 1) BY <2>2
  <2> HIDE DEF h, UpTo
  <2>5. QED BY <2>3, <2>4
<1>3. Depth \in S BY <1>1, <1>2, InductionOnSet
<1>4. PICK g : g = [n \in D |-> g[n]] /\ UpTo(g, Depth) BY <1>3
<1>5. g = Step(g) BY <1>4
<1>6. nested = Step(nested) BY <1>5 DEF nested
<1> HIDE DEF nested
<1>7. 0 \in D /\ nested[0] = Leaf BY <1>6
<1>8. ASSUME NEW n \in Nat, n + 1 \in D PROVE nested[n + 1] = Deeper(nested[n])
  <2>1. n + 1 # 0 /\ (n + 1) - 1 = n OBVIOUS
  <2>2. QED BY <1>6, <1>8, <2>1
<1>9. QED BY <1>7, <1>8

Kinds == {"ref", "value", "list", "dict", "object"}

LEMMA HoldingKind ==
    ASSUME NEW k \in Kinds, NEW s
    PROVE  Kind(Holding(k, s)) = k /\ Content(Holding(k, s)) = s
<1>1. DOMAIN Holding(k, s) = {k} /\ Holding(k, s)[k] = s BY DEF Holding
<1>2. \A j \in Kinds : j \in DOMAIN Holding(k, s) <=> j = k BY <1>1
<1>3. Kind(Holding(k, s)) = k BY <1>2 DEF Kind, Kinds
<1>4. QED BY <1>1, <1>3 DEF Content

\* What a value is, when those inside it are in V.
IsValueOver(v, V) ==
    \/ \E r \in Ref : v = Holding("ref", r)
    \/ \E k \in {"list", "dict"}, s \in SeqOf(V, Width) : v = Holding(k, s)
    \/ \E x : v = Holding("object", x)

LEMMA ValueKinds ==
    ASSUME NEW V, NEW v, IsValueOver(v, V)
    PROVE  /\ v = Holding(Kind(v), Content(v))
           /\ Kind(v) \in {"ref", "list", "dict", "object"}
           /\ Kind(v) \in {"list", "dict"} =>
                  /\ Content(v) \in Seq(V)
                  /\ \A i \in DOMAIN Content(v) : Content(v)[i] \in V
<1> USE DagAssumption
<1>1. ASSUME NEW r \in Ref, v = Holding("ref", r)
      PROVE  v = Holding(Kind(v), Content(v)) /\ Kind(v) = "ref"
  BY <1>1, HoldingKind DEF Kinds
<1>2. ASSUME NEW x, v = Holding("object", x)
      PROVE  v = Holding(Kind(v), Content(v)) /\ Kind(v) = "object"
  BY <1>2, HoldingKind DEF Kinds
<1>3. ASSUME NEW k \in {"list", "dict"}, NEW s \in SeqOf(V, Width), v = Holding(k, s)
      PROVE  /\ v = Holding(Kind(v), Content(v)) /\ Kind(v) = k
             /\ Content(v) \in Seq(V)
             /\ \A i \in DOMAIN Content(v) : Content(v)[i] \in V
  <2>1. Kind(v) = k /\ Content(v) = s BY <1>3, HoldingKind DEF Kinds
  <2>2. s \in Seq(V) /\ \A i \in DOMAIN s : s[i] \in V BY BoundedSequence
  <2>3. QED BY <1>3, <2>1, <2>2
<1>4. QED BY <1>1, <1>2, <1>3 DEF IsValueOver

\* What is nested n deep is a leaf, or holds what is nested less deep.
LEMMA NestedOver ==
    /\ \A v \in nested[0] : IsValueOver(v, {})  /\ Kind(v) \in {"ref", "object"}
    /\ \A n \in Nat : n + 1 \in 0 .. Depth =>
           /\ nested[n] \subseteq nested[n + 1]
           /\ \A v \in nested[n + 1] : IsValueOver(v, nested[n])
<1> USE DagAssumption
<1>1. ASSUME NEW v \in nested[0]
      PROVE  /\ \A V : IsValueOver(v, V)
             /\ Kind(v) \in {"ref", "object"}
  BY NestedDefined, HoldingKind DEF Leaf, IsValueOver, Kinds
<1>2. ASSUME NEW n \in Nat, n + 1 \in 0 .. Depth
      PROVE  /\ nested[n] \subseteq nested[n + 1]
             /\ \A v \in nested[n + 1] : 
                   v \in nested[n] \/ IsValueOver(v, nested[n])
  <2>1. nested[n + 1] = Deeper(nested[n]) BY <1>2, NestedDefined
  <2> DEFINE Held == {Holding(k, s) : k \in {"list", "dict"}, s \in SeqOf(nested[n], Width)}
             Wrapped == {Holding("object", <<v>>) : v \in nested[n]}
  <2>2. nested[n + 1] = nested[n] \cup Held \cup Wrapped BY <2>1 DEF Deeper
  <2>3. ASSUME NEW v \in Held PROVE IsValueOver(v, nested[n])
    <3>1. \E k \in {"list", "dict"}, s \in SeqOf(nested[n], Width) : v = Holding(k, s)
      OBVIOUS
    <3>2. QED BY <3>1 DEF IsValueOver
  <2>4. ASSUME NEW v \in Wrapped PROVE IsValueOver(v, nested[n])
    BY DEF IsValueOver
  <2> HIDE DEF Held, Wrapped
  <2>5. QED BY <2>2, <2>3, <2>4
<1> DEFINE S == {n \in Nat : n + 1 \in 0 .. Depth =>
                                \A v \in nested[n + 1] : IsValueOver(v, nested[n])}
<1>3. 0 \in S BY <1>1, <1>2
<1>4. ASSUME NEW n \in Nat, n \in S PROVE n + 1 \in S
  <2> SUFFICES ASSUME (n + 1) + 1 \in 0 .. Depth, NEW v \in nested[(n + 1) + 1]
               PROVE  IsValueOver(v, nested[n + 1])
    OBVIOUS
  <2>1. n + 1 \in 0 .. Depth /\ n + 1 \in Nat OBVIOUS
  <2>2. v \in nested[n + 1] \/ IsValueOver(v, nested[n + 1]) BY <1>2, <2>1
  <2>3. ASSUME v \in nested[n + 1] PROVE IsValueOver(v, nested[n + 1])
    <3>1. IsValueOver(v, nested[n]) /\ nested[n] \subseteq nested[n + 1]
      BY <1>2, <1>4, <2>1, <2>3
    <3>2. SeqOf(nested[n], Width) \subseteq SeqOf(nested[n + 1], Width)
      BY <3>1, BoundedSequence
    <3>3. QED BY <3>1, <3>2 DEF IsValueOver
  <2>4. QED BY <2>2, <2>3
<1>5. Nat \subseteq S BY <1>3, <1>4, InductionOnSet
<1>6. QED BY <1>1, <1>2, <1>5

\* What a list or a dictionary holds is itself a value, and nested less deep.
Container(v) == Kind(v) \in {"list", "dict"}

LEMMA ValuesInside ==
    ASSUME NEW v \in Value
    PROVE  /\ v = Holding(Kind(v), Content(v))
           /\ Kind(v) \in {"ref", "list", "dict", "object"}
           /\ Container(v) =>
                  /\ Content(v) \in Seq(Value)
                  /\ v \notin nested[0]
                  /\ \A i \in DOMAIN Content(v) :
                        /\ Content(v)[i] \in Value
                        /\ \A k \in Nat : k + 1 \in 0 .. Depth /\ v \in nested[k + 1]
                                             => Content(v)[i] \in nested[k]
<1> USE DagAssumption DEF Container
<1>1. CASE Depth = 0
  BY <1>1, NestedOver, ValueKinds DEF Value
<1>2. CASE Depth # 0
  <2>1. Depth - 1 \in Nat /\ (Depth - 1) + 1 = Depth /\ Depth \in 0 .. Depth BY <1>2
  <2>2. nested[Depth - 1] \subseteq Value /\ IsValueOver(v, nested[Depth - 1])
    BY <2>1, NestedOver DEF Value
  <2>3. /\ v = Holding(Kind(v), Content(v))
        /\ Kind(v) \in {"ref", "list", "dict", "object"}
        /\ Container(v) => /\ Content(v) \in Seq(nested[Depth - 1])
                           /\ \A i \in DOMAIN Content(v) : Content(v)[i] \in Value
    BY <2>2, ValueKinds
  <2>4. Container(v) => Content(v) \in Seq(Value)
    BY <2>2, <2>3, SequenceOver, SequenceIn
  <2>5. Container(v) => v \notin nested[0] BY NestedOver
  <2>6. ASSUME Container(v), NEW i \in DOMAIN Content(v), NEW k \in Nat,
               k + 1 \in 0 .. Depth, v \in nested[k + 1]
        PROVE  Content(v)[i] \in nested[k]
    <3>1. IsValueOver(v, nested[k]) BY <2>6, NestedOver
    <3>2. QED BY <2>6, <3>1, ValueKinds
  <2>7. QED BY <2>3, <2>4, <2>5, <2>6
<1>3. QED BY <1>1, <1>2

\* _collect_refs, _resolve and what the values given are, by their recursions.
LEMMA CollectedDefined ==
    \A v \in Value : collected[v] =
        CASE Kind(v) = "ref" -> <<Content(v)>>
          [] Kind(v) \in {"list", "dict"} ->
                FlattenSeq([i \in DOMAIN Content(v) |-> collected[Content(v)[i]]])
          [] OTHER -> <<>>
<1> USE DagAssumption
<1> DEFINE D == Value
           Step(g) == [v \in D |->
               CASE Kind(v) = "ref" -> <<Content(v)>>
                 [] Kind(v) \in {"list", "dict"} ->
                       FlattenSeq([i \in DOMAIN Content(v) |-> g[Content(v)[i]]])
                 [] OTHER -> <<>>]
           Level(k) == nested[k]
           UpTo(g, k) == \A v \in D : v \in Level(k) => g[v] = Step(g)[v]
           Built(k) == \E g : g = [v \in D |-> g[v]] /\ UpTo(g, k)
           S == {k \in Nat : k \in 0 .. Depth => Built(k)}
<1>1. \A v \in Level(0) : ~ Container(v) BY NestedOver DEF Container
<1>2. \A v \in D : Container(v) =>
          \A i \in DOMAIN Content(v) :
              /\ Content(v)[i] \in D
              /\ \A k \in Nat : k + 1 \in 0 .. Depth /\ v \in Level(k + 1)
                                  => Content(v)[i] \in Level(k)
  BY ValuesInside
<1>3. Level(Depth) = D BY DEF Value
<1> HIDE DEF D, Level
<1>4. 0 \in S
  <2> DEFINE g0 == [v \in D |-> v]
             g == Step(g0)
  <2>1. ASSUME NEW v \in D, v \in Level(0) PROVE g[v] = Step(g)[v]
    BY <1>1, <2>1 DEF Container
  <2>2. g = [v \in D |-> g[v]] OBVIOUS
  <2>3. UpTo(g, 0) BY <2>1
  <2> HIDE DEF g, UpTo
  <2>4. Built(0) BY <2>2, <2>3
  <2>5. QED BY <2>4
<1>5. ASSUME NEW k \in Nat, k \in S PROVE k + 1 \in S
  <2> HIDE DEF Built
  <2> SUFFICES ASSUME k + 1 \in 0 .. Depth PROVE Built(k + 1)
    OBVIOUS
  <2>0. Built(k) BY <1>5
  <2> USE DEF Built
  <2> HIDE DEF Step
  <2>1. PICK g : g = [v \in D |-> g[v]] /\ \A v \in D : v \in Level(k) => g[v] = Step(g)[v]
    BY <2>0
  <2>2. \A v \in D : v \in Level(k) => Step(g)[v] = g[v] BY <2>1
  <2> USE DEF Step
  <2> DEFINE h == Step(g)
  <2>3. h = [v \in D |-> h[v]] OBVIOUS
  <2>4. \A v \in D : h[v] = Step(g)[v] OBVIOUS
  <2> HIDE DEF h
  <2>5. ASSUME NEW v \in D, v \in Level(k + 1) PROVE h[v] = Step(h)[v]
    <3>1. CASE ~ Container(v)
      BY <2>4, <2>5, <3>1 DEF Container
    <3>2. CASE Container(v)
      <4>1. \A i \in DOMAIN Content(v) : h[Content(v)[i]] = g[Content(v)[i]]
        <5> TAKE i \in DOMAIN Content(v)
        <5>1. Content(v)[i] \in D /\ Content(v)[i] \in Level(k) BY <1>2, <2>5, <3>2
        <5>2. Step(g)[Content(v)[i]] = g[Content(v)[i]] BY <2>2, <5>1
        <5>3. h[Content(v)[i]] = Step(g)[Content(v)[i]] BY <2>4, <5>1
        <5> HIDE DEF Step
        <5>4. QED BY <5>2, <5>3
      <4>2. [i \in DOMAIN Content(v) |-> h[Content(v)[i]]]
              = [i \in DOMAIN Content(v) |-> g[Content(v)[i]]]
        BY <4>1
      <4>3. Kind(v) # "ref" /\ Kind(v) # "value" BY <3>2 DEF Container
      <4>4. h[v] = FlattenSeq([i \in DOMAIN Content(v) |-> g[Content(v)[i]]])
        BY <2>4, <3>2, <4>3 DEF Container
      <4>5. Step(h)[v] = FlattenSeq([i \in DOMAIN Content(v) |-> h[Content(v)[i]]])
        BY <3>2, <4>3 DEF Container
      <4>6. QED BY <4>2, <4>4, <4>5
    <3>3. QED BY <3>1, <3>2
  <2>6. UpTo(h, k + 1) BY <2>5
  <2> HIDE DEF UpTo
  <2>7. QED BY <2>3, <2>6
<1> HIDE DEF Built
<1>6. Depth \in S BY <1>4, <1>5, InductionOnSet
<1>7. PICK g : g = [v \in D |-> g[v]] /\ UpTo(g, Depth)
  <2>1. Built(Depth) BY <1>6
  <2> HIDE DEF UpTo
  <2>2. QED BY <2>1 DEF Built
<1>8. g = Step(g) BY <1>3, <1>7
<1>9. collected = Step(collected)
  <2> USE DEF D
  <2>1. QED BY <1>8 DEF collected
<1> HIDE DEF collected
<1>10. QED BY <1>9 DEF D

\* The same of _resolve.
LEMMA ResolvedDefined ==
    \A v \in Value : resolved[v] =
        CASE Kind(v) = "ref" -> Holding("value", Content(v))
          [] Kind(v) \in {"list", "dict"} ->
                Holding(Kind(v), [i \in DOMAIN Content(v) |-> resolved[Content(v)[i]]])
          [] OTHER -> v
<1> USE DagAssumption
<1> DEFINE D == Value
           Step(g) == [v \in D |->
               CASE Kind(v) = "ref" -> Holding("value", Content(v))
                 [] Kind(v) \in {"list", "dict"} ->
                       Holding(Kind(v), [i \in DOMAIN Content(v) |-> g[Content(v)[i]]])
                 [] OTHER -> v]
           Level(k) == nested[k]
           UpTo(g, k) == \A v \in D : v \in Level(k) => g[v] = Step(g)[v]
           Built(k) == \E g : g = [v \in D |-> g[v]] /\ UpTo(g, k)
           S == {k \in Nat : k \in 0 .. Depth => Built(k)}
<1>1. \A v \in Level(0) : ~ Container(v) BY NestedOver DEF Container
<1>2. \A v \in D : Container(v) =>
          \A i \in DOMAIN Content(v) :
              /\ Content(v)[i] \in D
              /\ \A k \in Nat : k + 1 \in 0 .. Depth /\ v \in Level(k + 1)
                                  => Content(v)[i] \in Level(k)
  BY ValuesInside
<1>3. Level(Depth) = D BY DEF Value
<1> HIDE DEF D, Level
<1>4. 0 \in S
  <2> DEFINE g0 == [v \in D |-> v]
             g == Step(g0)
  <2>1. ASSUME NEW v \in D, v \in Level(0) PROVE g[v] = Step(g)[v]
    BY <1>1, <2>1 DEF Container
  <2>2. g = [v \in D |-> g[v]] OBVIOUS
  <2>3. UpTo(g, 0) BY <2>1
  <2> HIDE DEF g, UpTo
  <2>4. Built(0) BY <2>2, <2>3
  <2>5. QED BY <2>4
<1>5. ASSUME NEW k \in Nat, k \in S PROVE k + 1 \in S
  <2> HIDE DEF Built
  <2> SUFFICES ASSUME k + 1 \in 0 .. Depth PROVE Built(k + 1)
    OBVIOUS
  <2>0. Built(k) BY <1>5
  <2> USE DEF Built
  <2> HIDE DEF Step
  <2>1. PICK g : g = [v \in D |-> g[v]] /\ \A v \in D : v \in Level(k) => g[v] = Step(g)[v]
    BY <2>0
  <2>2. \A v \in D : v \in Level(k) => Step(g)[v] = g[v] BY <2>1
  <2> USE DEF Step
  <2> DEFINE h == Step(g)
  <2>3. h = [v \in D |-> h[v]] OBVIOUS
  <2>4. \A v \in D : h[v] = Step(g)[v] OBVIOUS
  <2> HIDE DEF h
  <2>5. ASSUME NEW v \in D, v \in Level(k + 1) PROVE h[v] = Step(h)[v]
    <3>1. CASE ~ Container(v)
      BY <2>4, <2>5, <3>1 DEF Container
    <3>2. CASE Container(v)
      <4>1. \A i \in DOMAIN Content(v) : h[Content(v)[i]] = g[Content(v)[i]]
        <5> TAKE i \in DOMAIN Content(v)
        <5>1. Content(v)[i] \in D /\ Content(v)[i] \in Level(k) BY <1>2, <2>5, <3>2
        <5>2. Step(g)[Content(v)[i]] = g[Content(v)[i]] BY <2>2, <5>1
        <5>3. h[Content(v)[i]] = Step(g)[Content(v)[i]] BY <2>4, <5>1
        <5> HIDE DEF Step
        <5>4. QED BY <5>2, <5>3
      <4>2. [i \in DOMAIN Content(v) |-> h[Content(v)[i]]]
              = [i \in DOMAIN Content(v) |-> g[Content(v)[i]]]
        BY <4>1
      <4>3. Kind(v) # "ref" /\ Kind(v) # "value" BY <3>2 DEF Container
      <4>4. h[v] = Holding(Kind(v), [i \in DOMAIN Content(v) |-> g[Content(v)[i]]])
        BY <2>4, <3>2, <4>3 DEF Container
      <4>5. Step(h)[v] = Holding(Kind(v), [i \in DOMAIN Content(v) |-> h[Content(v)[i]]])
        BY <3>2, <4>3 DEF Container
      <4>6. QED BY <4>2, <4>4, <4>5
    <3>3. QED BY <3>1, <3>2
  <2>6. UpTo(h, k + 1) BY <2>5
  <2> HIDE DEF UpTo
  <2>7. QED BY <2>3, <2>6
<1> HIDE DEF Built
<1>6. Depth \in S BY <1>4, <1>5, InductionOnSet
<1>7. PICK g : g = [v \in D |-> g[v]] /\ UpTo(g, Depth)
  <2>1. Built(Depth) BY <1>6
  <2> HIDE DEF UpTo
  <2>2. QED BY <2>1 DEF Built
<1>8. g = Step(g) BY <1>3, <1>7
<1>9. resolved = Step(resolved)
  <2> USE DEF D
  <2>1. QED BY <1>8 DEF resolved
<1> HIDE DEF resolved
<1>10. QED BY <1>9 DEF D

\* What _resolve makes of a value.
LEMMA ResolvedKinds ==
    ASSUME NEW v \in Value
    PROVE  /\ Kind(v) = "ref" =>
                 Kind(resolved[v]) = "value" /\ Content(resolved[v]) = Content(v)
           /\ Container(v) =>
                 /\ Kind(resolved[v]) = Kind(v)
                 /\ Content(resolved[v]) = [i \in DOMAIN Content(v) |-> resolved[Content(v)[i]]]
                 /\ DOMAIN Content(resolved[v]) = DOMAIN Content(v)
           /\ Kind(v) = "object" => Kind(resolved[v]) = "object"
           /\ Container(resolved[v]) => Container(v)
<1>1. Kind(v) \in {"ref", "list", "dict", "object"} BY ValuesInside
<1>2. CASE Kind(v) = "ref"
  <2>1. resolved[v] = Holding("value", Content(v)) BY <1>2, ResolvedDefined
  <2>2. QED BY <1>2, <2>1, HoldingKind DEF Kinds, Container
<1>3. CASE Container(v)
  <2>1. resolved[v] = Holding(Kind(v), [i \in DOMAIN Content(v) |-> resolved[Content(v)[i]]])
    BY <1>3, ResolvedDefined DEF Container
  <2>2. QED BY <1>3, <2>1, HoldingKind DEF Kinds, Container
<1>4. CASE Kind(v) = "object"
  <2>1. resolved[v] = v BY <1>4, ResolvedDefined
  <2>2. QED BY <1>4, <2>1 DEF Container
<1>5. QED BY <1>1, <1>2, <1>3, <1>4 DEF Container

\* The same of what get_fn gave.
LEMMA GivenDefined ==
    \A v \in {resolved[w] : w \in Value} : given[v] =
        CASE Kind(v) = "value" -> <<Content(v)>>
          [] Kind(v) \in {"list", "dict"} ->
                FlattenSeq([i \in DOMAIN Content(v) |-> given[Content(v)[i]]])
          [] Kind(v) = "ref" -> <<v>>
          [] OTHER -> <<>>
<1> USE DagAssumption
<1> DEFINE D == {resolved[w] : w \in Value}
           Step(g) == [v \in D |->
               CASE Kind(v) = "value" -> <<Content(v)>>
                 [] Kind(v) \in {"list", "dict"} ->
                       FlattenSeq([i \in DOMAIN Content(v) |-> g[Content(v)[i]]])
                 [] Kind(v) = "ref" -> <<v>>
                 [] OTHER -> <<>>]
           Level(k) == {resolved[w] : w \in {x \in Value : x \in nested[k]}}
           UpTo(g, k) == \A v \in D : v \in Level(k) => g[v] = Step(g)[v]
           Built(k) == \E g : g = [v \in D |-> g[v]] /\ UpTo(g, k)
           S == {k \in Nat : k \in 0 .. Depth => Built(k)}
<1>1. \A v \in Level(0) : ~ Container(v) 
  BY NestedOver, ResolvedKinds DEF Container
<1>2. \A v \in D : Container(v) =>
          \A i \in DOMAIN Content(v) :
              /\ Content(v)[i] \in D
              /\ \A k \in Nat : k + 1 \in 0 .. Depth /\ v \in Level(k + 1)
                                  => Content(v)[i] \in Level(k)
  <2> SUFFICES ASSUME NEW v \in D, Container(v), NEW i \in DOMAIN Content(v)
               PROVE  /\ Content(v)[i] \in D
                      /\ \A k \in Nat : k + 1 \in 0 .. Depth /\ v \in Level(k + 1)
                                          => Content(v)[i] \in Level(k)
    OBVIOUS
  <2>1. ASSUME NEW w \in Value, v = resolved[w]
        PROVE  /\ Container(w) /\ i \in DOMAIN Content(w)
               /\ Content(w)[i] \in Value
               /\ Content(v)[i] = resolved[Content(w)[i]]
    <3>1. Container(w) BY <2>1, ResolvedKinds
    <3>2. /\ Content(v) = [j \in DOMAIN Content(w) |-> resolved[Content(w)[j]]]
          /\ DOMAIN Content(v) = DOMAIN Content(w)
      BY <2>1, <3>1, ResolvedKinds
    <3>3. i \in DOMAIN Content(w) BY <3>2
    <3>4. Content(v)[i] = resolved[Content(w)[i]] BY <3>2, <3>3
    <3>5. QED BY <3>1, <3>3, <3>4, ValuesInside
  <2>2. Content(v)[i] \in D
    <3>1. PICK w \in Value : v = resolved[w] OBVIOUS
    <3>2. QED BY <2>1, <3>1
  <2>3. ASSUME NEW k \in Nat, k + 1 \in 0 .. Depth, v \in Level(k + 1)
        PROVE  Content(v)[i] \in Level(k)
    <3>1. PICK w \in Value : w \in nested[k + 1] /\ v = resolved[w] BY <2>3
    <3>2. Container(w) /\ i \in DOMAIN Content(w) /\ Content(w)[i] \in Value
          /\ Content(v)[i] = resolved[Content(w)[i]]
      BY <2>1, <3>1
    <3>3. Content(w)[i] \in nested[k] BY <2>3, <3>1, <3>2, ValuesInside
    <3>4. QED BY <3>2, <3>3
  <2>4. QED BY <2>2, <2>3
<1>3. Level(Depth) = D BY DEF Value
<1> HIDE DEF D, Level
<1>4. 0 \in S
  <2> DEFINE g0 == [v \in D |-> v]
             g == Step(g0)
  <2>1. ASSUME NEW v \in D, v \in Level(0) PROVE g[v] = Step(g)[v]
    BY <1>1, <2>1 DEF Container
  <2>2. g = [v \in D |-> g[v]] OBVIOUS
  <2>3. UpTo(g, 0) BY <2>1
  <2> HIDE DEF g, UpTo
  <2>4. Built(0) BY <2>2, <2>3
  <2>5. QED BY <2>4
<1>5. ASSUME NEW k \in Nat, k \in S PROVE k + 1 \in S
  <2> HIDE DEF Built
  <2> SUFFICES ASSUME k + 1 \in 0 .. Depth PROVE Built(k + 1)
    OBVIOUS
  <2>0. Built(k) BY <1>5
  <2> USE DEF Built
  <2> HIDE DEF Step
  <2>1. PICK g : g = [v \in D |-> g[v]] /\ \A v \in D : v \in Level(k) => g[v] = Step(g)[v]
    BY <2>0
  <2>2. \A v \in D : v \in Level(k) => Step(g)[v] = g[v] BY <2>1
  <2> USE DEF Step
  <2> DEFINE h == Step(g)
  <2>3. h = [v \in D |-> h[v]] OBVIOUS
  <2>4. \A v \in D : h[v] = Step(g)[v] OBVIOUS
  <2> HIDE DEF h
  <2>5. ASSUME NEW v \in D, v \in Level(k + 1) PROVE h[v] = Step(h)[v]
    <3>1. CASE ~ Container(v)
      BY <2>4, <2>5, <3>1 DEF Container
    <3>2. CASE Container(v)
      <4>1. \A i \in DOMAIN Content(v) : h[Content(v)[i]] = g[Content(v)[i]]
        <5> TAKE i \in DOMAIN Content(v)
        <5>1. Content(v)[i] \in D /\ Content(v)[i] \in Level(k) BY <1>2, <2>5, <3>2
        <5>2. Step(g)[Content(v)[i]] = g[Content(v)[i]] BY <2>2, <5>1
        <5>3. h[Content(v)[i]] = Step(g)[Content(v)[i]] BY <2>4, <5>1
        <5> HIDE DEF Step
        <5>4. QED BY <5>2, <5>3
      <4>2. [i \in DOMAIN Content(v) |-> h[Content(v)[i]]]
              = [i \in DOMAIN Content(v) |-> g[Content(v)[i]]]
        BY <4>1
      <4>3. Kind(v) # "ref" /\ Kind(v) # "value" BY <3>2 DEF Container
      <4>4. h[v] = FlattenSeq([i \in DOMAIN Content(v) |-> g[Content(v)[i]]])
        BY <2>4, <3>2, <4>3 DEF Container
      <4>5. Step(h)[v] = FlattenSeq([i \in DOMAIN Content(v) |-> h[Content(v)[i]]])
        BY <3>2, <4>3 DEF Container
      <4>6. QED BY <4>2, <4>4, <4>5
    <3>3. QED BY <3>1, <3>2
  <2>6. UpTo(h, k + 1) BY <2>5
  <2> HIDE DEF UpTo
  <2>7. QED BY <2>3, <2>6
<1> HIDE DEF Built
<1>6. Depth \in S BY <1>4, <1>5, InductionOnSet
<1>7. PICK g : g = [v \in D |-> g[v]] /\ UpTo(g, Depth)
  <2>1. Built(Depth) BY <1>6
  <2> HIDE DEF UpTo
  <2>2. QED BY <2>1 DEF Built
<1>8. g = Step(g) BY <1>3, <1>7
<1>9. given = Step(given)
  <2> USE DEF D
  <2>1. QED BY <1>8 DEF given
<1> HIDE DEF given
<1>10. QED BY <1>9 DEF D

\* The two walks find the same ObjectRefs in a value of any shape, in the same order.
LEMMA GivenAreCollected ==
    \A v \in Value : given[resolved[v]] = collected[v]
<1> USE DagAssumption
<1> DEFINE S == {k \in Nat : k \in 0 .. Depth =>
                    \A v \in Value : v \in nested[k] => given[resolved[v]] = collected[v]}
<1>1. ASSUME NEW v \in Value PROVE resolved[v] \in {resolved[w] : w \in Value}
  OBVIOUS
<1>2. ASSUME NEW v \in Value, ~ Container(v)
      PROVE  given[resolved[v]] = collected[v]
  <2>1. Kind(v) \in {"ref", "object"} BY <1>2, ValuesInside DEF Container
  <2>2. CASE Kind(v) = "ref"
    <3>1. Kind(resolved[v]) = "value" /\ Content(resolved[v]) = Content(v)
      BY <2>2, ResolvedKinds
    <3>2. given[resolved[v]] = <<Content(v)>> BY <1>1, <3>1, GivenDefined
    <3>3. collected[v] = <<Content(v)>> BY <2>2, CollectedDefined
    <3>4. QED BY <3>2, <3>3
  <2>3. CASE Kind(v) = "object"
    <3>1. Kind(resolved[v]) = "object" BY <2>3, ResolvedKinds
    <3>2. given[resolved[v]] = <<>> BY <1>1, <3>1, GivenDefined
    <3>3. collected[v] = <<>> BY <2>3, CollectedDefined
    <3>4. QED BY <3>2, <3>3
  <2>4. QED BY <2>1, <2>2, <2>3
<1>3. 0 \in S
  <2>1. ASSUME NEW v \in Value, v \in nested[0] PROVE ~ Container(v)
    BY <2>1, NestedOver DEF Container
  <2>2. QED BY <1>2, <2>1
<1>4. ASSUME NEW k \in Nat, k \in S PROVE k + 1 \in S
  <2> SUFFICES ASSUME k + 1 \in 0 .. Depth, NEW v \in Value, v \in nested[k + 1], Container(v)
               PROVE  given[resolved[v]] = collected[v]
    BY <1>2
  <2> DEFINE w == resolved[v]
  <2>1. /\ Kind(w) = Kind(v) /\ DOMAIN Content(w) = DOMAIN Content(v)
        /\ Content(w) = [i \in DOMAIN Content(v) |-> resolved[Content(v)[i]]]
    BY ResolvedKinds
  <2>2. w \in {resolved[u] : u \in Value} OBVIOUS
  <2> HIDE DEF w
  <2>3. given[w] = FlattenSeq([i \in DOMAIN Content(w) |-> given[Content(w)[i]]])
    <3>1. Kind(w) \in {"list", "dict"} BY <2>1 DEF Container
    <3>2. Kind(w) # "value" BY <3>1
    <3>3. QED BY <2>2, <3>1, <3>2, GivenDefined
  <2>4. collected[v] = FlattenSeq([i \in DOMAIN Content(v) |-> collected[Content(v)[i]]])
    <3>1. Kind(v) \in {"list", "dict"} /\ Kind(v) # "ref" BY DEF Container
    <3>2. QED BY <3>1, CollectedDefined
  <2>5. \A i \in DOMAIN Content(v) : given[Content(w)[i]] = collected[Content(v)[i]]
    <3> TAKE i \in DOMAIN Content(v)
    <3>1. Content(v)[i] \in Value /\ Content(v)[i] \in nested[k] BY ValuesInside
    <3>2. k \in 0 .. Depth OBVIOUS
    <3>3. given[resolved[Content(v)[i]]] = collected[Content(v)[i]] BY <1>4, <3>1, <3>2
    <3>4. QED BY <2>1, <3>3
  <2>6. [i \in DOMAIN Content(w) |-> given[Content(w)[i]]]
          = [i \in DOMAIN Content(v) |-> collected[Content(v)[i]]]
    BY <2>1, <2>5
  <2>7. QED BY <2>3, <2>4, <2>6 DEF w
<1>5. Depth \in S BY <1>3, <1>4, InductionOnSet
<1>6. QED BY <1>5 DEF Value

LEMMA GivenAreDependencies ==
    ASSUME NEW s \in Seq(Value)
    PROVE  Given(Resolved(s)) = Collected(s)
<1> DEFINE r == Resolved(s)
<1>1. DOMAIN r = DOMAIN s /\ \A i \in DOMAIN s : r[i] = resolved[s[i]] BY DEF Resolved
<1>2. \A i \in DOMAIN s : s[i] \in Value BY LenProperties
<1> HIDE DEF r
<1>3. \A i \in DOMAIN s : given[r[i]] = collected[s[i]] BY <1>1, <1>2, GivenAreCollected
<1>4. [i \in DOMAIN r |-> given[r[i]]] = [i \in DOMAIN s |-> collected[s[i]]] BY <1>1, <1>3
<1>5. QED BY <1>4 DEF Given, Collected, r

\* A task whose function runs is one that was submitted, with its own dependencies.
DagInv ==
    /\ spec # <<>> =>
          /\ spec \in Seq(Value) \X Seq(Value)
          /\ dep_ids = extract_dependencies(spec[1], spec[2])
    /\ received # <<>> =>
          /\ spec # <<>>
          /\ received = resolve_args(spec[1], spec[2])

LEMMA DagInvInductive ==
    /\ DagInit => DagInv
    /\ DagInv /\ [DagNext]_dagVars => DagInv'
<1>1. DagInit => DagInv BY DEF DagInit, DagInv
<1>2. ASSUME DagInv, [DagNext]_dagVars PROVE DagInv'
  <2>1. ASSUME NEW c \in Call, Extract(c) PROVE DagInv'
    <3>1. received = <<>> BY <1>2, <2>1 DEF DagInv, Extract
    <3>2. c \in Seq(Value) \X Seq(Value) BY DagAssumption
    <3>3. QED BY <2>1, <3>1, <3>2 DEF DagInv, Extract
  <2>2. CASE Resolve BY <1>2, <2>2 DEF DagInv, Resolve
  <2>3. CASE Return BY <2>3 DEF DagInv, Return
  <2>4. CASE UNCHANGED dagVars BY <1>2, <2>4 DEF DagInv, dagVars
  <2>5. QED BY <1>2, <2>1, <2>2, <2>3, <2>4 DEF DagNext
<1>3. QED BY <1>1, <1>2

LEMMA DagInvResolves == DagInv => ResolvesWhatItExtracts
<1> SUFFICES ASSUME DagInv, received # <<>>
             PROVE  Given(received[1]) \o Given(received[2]) = dep_ids
  BY DEF ResolvesWhatItExtracts
<1>1. spec[1] \in Seq(Value) /\ spec[2] \in Seq(Value) BY DEF DagInv
<1>2. received[1] = Resolved(spec[1]) /\ received[2] = Resolved(spec[2])
  BY DEF DagInv, resolve_args
<1>3. Given(received[1]) = Collected(spec[1]) /\ Given(received[2]) = Collected(spec[2])
  BY <1>1, <1>2, GivenAreDependencies
<1>4. QED BY <1>3 DEF DagInv, extract_dependencies

(***************************************************************************)
(* The dependencies that extract_dependencies finds in the arguments of a  *)
(* call are what resolve_args asks get_fn for, in order and as many times, *)
(* whatever the arguments hold and however deep (dag.py:26-79).            *)
(***************************************************************************)
THEOREM DagResolvesWhatItExtracts == DagSpec => []ResolvesWhatItExtracts
<1>1. DagInit => DagInv BY DagInvInductive
<1>2. DagInv /\ [DagNext]_dagVars => DagInv' BY DagInvInductive
<1>3. DagInv => ResolvesWhatItExtracts BY DagInvResolves
<1>4. QED BY <1>1, <1>2, <1>3, PTL DEF DagSpec
=============================================================================
