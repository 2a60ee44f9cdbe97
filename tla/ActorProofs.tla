---------------------------- MODULE ActorProofs ----------------------------
(***************************************************************************)
(* Proofs about Actor, for any number of calls and any set of callers.     *)
(*                                                                         *)
(* That the state tasks form one chain depends on the lock: the thread     *)
(* that is about to chain a task has read the end of the chain             *)
(* (HolderHasEnd), for nobody else may move it, and its task is in no      *)
(* chain yet (UnderWayUnchained).                                          *)
(***************************************************************************)
EXTENDS Actor, SequenceElements

\* Two threads make two calls.
OwnCall ==
    \A u, v \in Caller : making[u] # Nothing /\ making[u] = making[v] => u = v

\* A call begins before its state task exists, and keeps the lock from the
\* moment it read _last_ref to the end.
UnderWayUnchained ==
    /\ \A c \in Call : c > calls => chained[c] = Nothing
    /\ \A u \in Caller :
          making[u] # Nothing =>
             /\ making[u] <= calls
             /\ prevRef[u] = Nothing => chained[making[u]] = Nothing

\* Who has not chained its task yet has the end of the chain in prev_ref.
HolderHasEnd ==
    \A u \in Caller :
        prevRef[u] # Nothing /\ chained[making[u]] = Nothing => prevRef[u] = lastRef

\* _last_ref is the one task in the chain without a successor.
EndIsLast ==
    /\ lastRef \in Chained \cup {Init0}
    /\ lastRef = Init0 => Chained = {}
    /\ \A c \in Chained : chained[c] # lastRef
    /\ \A c \in Chained : c # lastRef => \E d \in Chained : chained[d] = c

NoFork ==
    /\ \A c, d \in Chained : chained[c] = chained[d] => c = d
    /\ \A c \in Chained : chained[c] \in Chained \cup {Init0}

ActorInv ==
    TypeOK /\ OwnCall /\ UnderWayUnchained /\ HolderHasEnd /\ EndIsLast /\ NoFork

LEMMA ActorInit == Init => ActorInv
BY ActorAssumption
DEF Init, ActorInv, TypeOK, OwnCall, UnderWayUnchained, HolderHasEnd, EndIsLast,
    NoFork, Chained, Call, Init0

LEMMA InvGivesOneChain == ActorInv => OneChain
BY ActorAssumption
DEF ActorInv, EndIsLast, NoFork, OneChain, Chained, TypeOK, Init0, Call

\* What does not touch the chain and the calls that are being made.
LEMMA TasksKeepChain ==
    ASSUME ActorInv, UNCHANGED <<callVars, taskVars>>
    PROVE  ActorInv'
BY DEF ActorInv, TypeOK, OwnCall, UnderWayUnchained, HolderHasEnd, EndIsLast, NoFork,
       Chained, callVars, taskVars

LEMMA BeginInv ==
    ASSUME NEW u \in Caller, ActorInv, Begin(u)
    PROVE  ActorInv'
<1> USE ActorAssumption DEF Begin, taskVars
<1>1. calls + 1 \in Call /\ chained[calls + 1] = Nothing
  BY DEF ActorInv, TypeOK, UnderWayUnchained, Call
<1>2. TypeOK' BY <1>1 DEF ActorInv, TypeOK, Call
<1>3. OwnCall' /\ UnderWayUnchained'
  BY <1>1 DEF ActorInv, TypeOK, OwnCall, UnderWayUnchained, Call
<1>4. HolderHasEnd' BY <1>1 DEF ActorInv, TypeOK, HolderHasEnd
<1>5. EndIsLast' /\ NoFork' BY DEF ActorInv, EndIsLast, NoFork, Chained
<1>6. QED BY <1>2, <1>3, <1>4, <1>5 DEF ActorInv

LEMMA AcquireInv ==
    ASSUME NEW u \in Caller, ActorInv, Acquire(u)
    PROVE  ActorInv'
<1> USE ActorAssumption DEF Acquire, taskVars
<1>1. lastRef \in 0 .. calls /\ lastRef # Nothing BY DEF ActorInv, TypeOK
<1>2. TypeOK' BY <1>1 DEF ActorInv, TypeOK
<1>3. OwnCall' /\ UnderWayUnchained'
  BY <1>1 DEF ActorInv, TypeOK, OwnCall, UnderWayUnchained
<1>4. HolderHasEnd' BY DEF ActorInv, TypeOK, HolderHasEnd
<1>5. EndIsLast' /\ NoFork' BY DEF ActorInv, EndIsLast, NoFork, Chained
<1>6. QED BY <1>2, <1>3, <1>4, <1>5 DEF ActorInv

\* The new task gets the end of the chain, which has no successor, and is the end.
LEMMA ChainInv ==
    ASSUME NEW u \in Caller, ActorInv, Chain(u)
    PROVE  ActorInv'
<1> USE ActorAssumption DEF Chain, callVars
<1> DEFINE c == making[u]
<1>1. /\ lock = u /\ c \in Call /\ c <= calls
      /\ chained[c] = Nothing /\ prevRef[u] = lastRef /\ lastRef # Nothing
  BY DEF ActorInv, TypeOK, UnderWayUnchained, HolderHasEnd
<1>2. c \notin Chained /\ Chained' = Chained \cup {c}
  BY <1>1 DEF ActorInv, TypeOK, Chained
<1>3. TypeOK' BY <1>1 DEF ActorInv, TypeOK, Call
<1>4. OwnCall' BY DEF ActorInv, OwnCall
<1>5. UnderWayUnchained'
  <2>1. \A d \in Call : d > calls => chained'[d] = Nothing
    BY <1>1 DEF ActorInv, TypeOK, UnderWayUnchained, Call
  <2>2. \A v \in Caller :
           making[v] # Nothing /\ prevRef[v] = Nothing => chained'[making[v]] = Nothing
    BY <1>1 DEF ActorInv, TypeOK, OwnCall, UnderWayUnchained
  <2>3. QED BY <2>1, <2>2 DEF ActorInv, UnderWayUnchained
<1>6. HolderHasEnd' BY <1>1 DEF ActorInv, TypeOK, HolderHasEnd
<1>7. c # Init0 /\ c # lastRef BY <1>1, <1>2 DEF Call, Init0, ActorInv, EndIsLast
<1>8. \A d \in Chained : chained'[d] = chained[d] /\ chained[d] # c
  BY <1>2, <1>7 DEF ActorInv, TypeOK, NoFork, Chained
<1>9. chained'[c] = lastRef BY <1>1 DEF ActorInv, TypeOK
<1>10. EndIsLast' BY <1>2, <1>7, <1>8, <1>9 DEF ActorInv, EndIsLast
<1>11. NoFork' BY <1>2, <1>8, <1>9 DEF ActorInv, NoFork, EndIsLast
<1>12. QED BY <1>3, <1>4, <1>5, <1>6, <1>10, <1>11 DEF ActorInv

LEMMA ExtractInv ==
    ASSUME NEW u \in Caller, ActorInv, Extract(u)
    PROVE  ActorInv'
<1> USE ActorAssumption DEF Extract
<1>1. lock = u /\ making[u] \in Call BY DEF ActorInv, TypeOK
<1>2. TypeOK' BY <1>1 DEF ActorInv, TypeOK
<1>3. OwnCall' /\ UnderWayUnchained'
  BY <1>1 DEF ActorInv, TypeOK, OwnCall, UnderWayUnchained
<1>4. HolderHasEnd' BY <1>1 DEF ActorInv, TypeOK, HolderHasEnd
<1>5. EndIsLast' /\ NoFork' BY DEF ActorInv, EndIsLast, NoFork, Chained
<1>6. QED BY <1>2, <1>3, <1>4, <1>5 DEF ActorInv

LEMMA ActorNext == ActorInv /\ [Next]_vars => ActorInv'
<1> SUFFICES ASSUME ActorInv, [Next]_vars PROVE ActorInv'
  OBVIOUS
<1>1. ASSUME NEW u \in Caller, Begin(u) PROVE ActorInv'
  BY <1>1, BeginInv
<1>2. ASSUME NEW u \in Caller, Remote(u) PROVE ActorInv'
  BY <1>2, AcquireInv, ChainInv, ExtractInv DEF Remote
<1>3. CASE Create
  BY <1>3, TasksKeepChain DEF Create
<1>4. ASSUME NEW c \in Call, Run(c) \/ RaiseToo(c) PROVE ActorInv'
  BY <1>4, TasksKeepChain DEF Run, ArgsReady, RunMethod, ExtractValue, RaiseToo
<1>5. CASE UNCHANGED vars
  BY <1>5, TasksKeepChain DEF vars
<1>6. QED BY <1>1, <1>2, <1>3, <1>4, <1>5 DEF Next

(***************************************************************************)
(* However many threads call methods of an actor, every state task runs on *)
(* the state of one other, no two on the same, and the handle has the last *)
(* (docs/design.md:223-224, actor.py:118-132).                             *)
(***************************************************************************)
THEOREM ActorOneChain == Spec => []OneChain
BY ActorInit, ActorNext, InvGivesOneChain, PTL DEF Spec
-----------------------------------------------------------------------------
(***************************************************************************)
(* The actor is a sequential object.  The chain is the order in which the  *)
(* state tasks were submitted (OrderInv), and what each has resolved to is *)
(* what the calls up to it make of the actor (StateInv), however late the  *)
(* other arguments of a call came.                                         *)
(***************************************************************************)
\* What the first i calls of s make of the actor: its state, or the error of one
\* of them or of __init__.
Made(s, i) ==
    IF state[Init0] = Error \/ \E j \in 1 .. i : s[j] \in Raises
    THEN Error ELSE SubSeq(s, 1, i)

OrderInv ==
    /\ order \in Seq(Call) /\ ToSet(order) = Chained
    /\ \A i, j \in DOMAIN order : order[i] = order[j] => i = j
    /\ \A i \in DOMAIN order : chained[order[i]] = IF i = 1 THEN Init0 ELSE order[i - 1]
    /\ lastRef = IF order = <<>> THEN Init0 ELSE order[Len(order)]

StateInv ==
    /\ state = [c \in Call \cup {Init0} |-> state[c]]
    /\ result = [c \in Call |-> result[c]]
    /\ state[Init0] \in {Unresolved, <<>>, Error}
    /\ state[Init0] = Unresolved => \A c \in Call : state[c] = Unresolved
    /\ \A c \in Call : chained[c] = Nothing => state[c] = Unresolved
    /\ \A i \in DOMAIN order : state[order[i]] \in {Unresolved, Made(order, i)}

SequentialInv == ActorInv /\ OrderInv /\ StateInv

LEMMA PrefixNext ==
    ASSUME NEW S, NEW s \in Seq(S), NEW i \in DOMAIN s
    PROVE  /\ i = 1 => Append(<<>>, s[i]) = SubSeq(s, 1, i)
           /\ i # 1 => /\ i - 1 \in DOMAIN s /\ i \in Nat
                       /\ Append(SubSeq(s, 1, i - 1), s[i]) = SubSeq(s, 1, i)
           /\ SubSeq(s, 1, i) \in Seq(S)
           /\ \A e \in S : SubSeq(Append(s, e), 1, i) = SubSeq(s, 1, i)
<1>1. Len(s) \in Nat /\ DOMAIN s = 1 .. Len(s) /\ i \in 1 .. Len(s) /\ s[i] \in S
  BY LenProperties
<1>2. SubSeq(s, 1, i) \in Seq(S)
  BY <1>1, SubSeqProperties
<1>3. ASSUME i = 1 PROVE Append(<<>>, s[i]) = SubSeq(s, 1, i)
  <2>1. Append(<<>>, s[i]) = <<s[i]>> BY OneElement
  <2>2. PICK q, r : q = SubSeq(s, 1, 1) /\ r = <<s[1]>> OBVIOUS
  <2>3. q \in Seq(S) /\ Len(q) = 1 /\ q[1] = s[1]
    BY <1>1, <1>3, <2>2, SubSeqProperties
  <2>4. r \in Seq(S) /\ Len(r) = 1 /\ r[1] = s[1]
    <3>1. IsSequence(r) /\ Len(r) = 1 /\ r[1] = s[1] /\ ToSet(r) = {s[1]}
      BY <2>2, OneElement
    <3>2. QED BY <1>1, <1>3, <3>1, SequenceIn
  <2>5. q = r BY <2>3, <2>4, SeqEqual
  <2>6. QED BY <1>3, <2>1, <2>2, <2>5
<1>4. ASSUME i # 1
      PROVE  /\ i - 1 \in DOMAIN s /\ i \in Nat
             /\ Append(SubSeq(s, 1, i - 1), s[i]) = SubSeq(s, 1, i)
  BY <1>1, <1>2, <1>4, SubSeqProperties
<1>5. \A e \in S : SubSeq(Append(s, e), 1, i) = SubSeq(s, 1, i)
  BY <1>1, SubSeqProperties
<1>6. QED BY <1>2, <1>3, <1>4, <1>5

LEMMA MadeNext ==
    ASSUME NEW s \in Seq(Call), NEW i \in DOMAIN s
    PROVE  /\ s[i] \in Raises \/ state[Init0] = Error => Made(s, i) = Error
           /\ s[i] \notin Raises /\ i = 1 /\ state[Init0] # Error
                 => Made(s, i) = Append(<<>>, s[i])
           /\ i # 1 => /\ i - 1 \in DOMAIN s
                       /\ Made(s, i - 1) = Error => Made(s, i) = Error
                       /\ Made(s, i - 1) # Error /\ s[i] \notin Raises
                             => Made(s, i) = Append(Made(s, i - 1), s[i])
           /\ \A e \in Call : Made(Append(s, e), i) = Made(s, i)
<1>1. /\ Len(s) \in Nat /\ DOMAIN s = 1 .. Len(s) /\ i \in 1 .. Len(s)
      /\ i = 1 => Append(<<>>, s[i]) = SubSeq(s, 1, i)
      /\ i # 1 => /\ i - 1 \in DOMAIN s
                  /\ Append(SubSeq(s, 1, i - 1), s[i]) = SubSeq(s, 1, i)
      /\ \A e \in Call : SubSeq(Append(s, e), 1, i) = SubSeq(s, 1, i)
  BY PrefixNext, LenProperties
<1>2. ASSUME NEW j \in DOMAIN s PROVE SubSeq(s, 1, j) # Error
  <2>1. SubSeq(s, 1, j) \in Seq(Call) BY PrefixNext
  <2>2. QED BY <2>1, ActorAssumption
<1>3. s[i] \in Raises \/ state[Init0] = Error => Made(s, i) = Error BY <1>1 DEF Made
<1>4. ASSUME s[i] \notin Raises, i = 1, state[Init0] # Error
      PROVE  Made(s, i) = Append(<<>>, s[i])
  <2>1. \A j \in 1 .. i : j = i BY <1>4
  <2>2. QED BY <1>1, <1>4, <2>1 DEF Made
<1>5. ASSUME i # 1
      PROVE  /\ Made(s, i - 1) = Error => Made(s, i) = Error
             /\ Made(s, i - 1) # Error /\ s[i] \notin Raises
                   => Made(s, i) = Append(Made(s, i - 1), s[i])
  <2>1. /\ i - 1 \in DOMAIN s /\ SubSeq(s, 1, i - 1) # Error
        /\ \A j \in 1 .. i : j \in 1 .. i - 1 \/ j = i
        /\ \A j \in 1 .. i - 1 : j \in 1 .. i
    BY <1>1, <1>2, <1>5
  <2>2. QED BY <1>1, <1>5, <2>1 DEF Made
<1>6. ASSUME NEW e \in Call PROVE Made(Append(s, e), i) = Made(s, i)
  <2>1. \A j \in 1 .. i : Append(s, e)[j] = s[j] BY <1>1, AppendProperties
  <2>2. QED BY <1>1, <2>1 DEF Made
<1>7. QED BY <1>1, <1>3, <1>4, <1>5, <1>6

LEMMA SequentialInit == Init => SequentialInv
<1> SUFFICES ASSUME Init PROVE SequentialInv
  OBVIOUS
<1>1. ActorInv BY ActorInit
<1>2. ToSet(order) = {} /\ order \in Seq(Call) /\ DOMAIN order = {} /\ Chained = {}
  BY NoElement, SequenceIn DEF Init, Chained
<1>3. OrderInv BY <1>2 DEF Init, OrderInv
<1>4. StateInv BY <1>2, ActorAssumption DEF Init, StateInv, Call, Init0
<1>5. QED BY <1>1, <1>3, <1>4 DEF SequentialInv

\* A thread in .remote() that submits nothing, or the extractor.
LEMMA CallsKeepOrder ==
    ASSUME SequentialInv, ActorInv', UNCHANGED <<lastRef, chained, order, state>>,
           result' = [c \in Call |-> result'[c]]
    PROVE  SequentialInv'
BY DEF SequentialInv, OrderInv, StateInv, Chained, Made

\* The new state task is the last of the order, as its caller has read the end.
LEMMA ChainOrder ==
    ASSUME SequentialInv, NEW u \in Caller, Chain(u)
    PROVE  /\ SequentialInv'
           /\ making[u] \in Call \ ToSet(order) /\ order' = Append(order, making[u])
<1> DEFINE c == making[u]
<1>1. ActorInv /\ OrderInv /\ StateInv BY DEF SequentialInv
<1>2. /\ c \in Call /\ c # Init0 /\ chained[c] = Nothing /\ prevRef[u] = lastRef
      /\ chained' = [chained EXCEPT ![c] = lastRef] /\ chained'[c] = lastRef
      /\ lastRef' = c /\ order' = Append(order, c) /\ c \notin Chained
      /\ lastRef # Nothing
      /\ UNCHANGED <<state, result>>
  <2>1. /\ prevRef[u] # Nothing /\ chained[c] = Nothing
        /\ chained' = [chained EXCEPT ![c] = prevRef[u]] /\ order' = Append(order, c)
        /\ lastRef' = c /\ UNCHANGED <<state, result>>
    BY DEF Chain, valueVars
  <2>2. lock = u /\ c \in Call BY <1>1, <2>1, ActorAssumption DEF ActorInv, TypeOK
  <2>3. prevRef[u] = lastRef BY <1>1, <2>1 DEF ActorInv, HolderHasEnd
  <2>4. chained'[c] = lastRef BY <1>1, <2>1, <2>2, <2>3 DEF ActorInv, TypeOK
  <2>5. c # Init0 /\ c \notin Chained BY <2>1, <2>2, ActorAssumption DEF Chained, Call, Init0
  <2>6. QED BY <2>1, <2>2, <2>3, <2>4, <2>5
<1>3. PICK n \in Nat : n = Len(order) /\ DOMAIN order = 1 .. n
  BY <1>1, LenProperties DEF OrderInv
<1>4. /\ order' \in Seq(Call) /\ Len(order') = n + 1 /\ DOMAIN order' = 1 .. n + 1
      /\ order'[n + 1] = c /\ \A i \in 1 .. n : order'[i] = order[i]
      /\ order' # <<>>
  BY <1>1, <1>2, <1>3, AppendProperties, LenProperties DEF OrderInv
<1>5. ToSet(order') = ToSet(order) \cup {c}
  BY <1>1, <1>2, AppendElements DEF OrderInv
<1>6. Chained' = Chained \cup {c}
  BY <1>1, <1>2 DEF ActorInv, TypeOK, Chained
<1>7. \A i \in 1 .. n : /\ order[i] \in Chained /\ order[i] # c
                        /\ chained'[order[i]] = chained[order[i]]
  BY <1>1, <1>2, <1>3, ZenonT(30) DEF OrderInv, ToSet, ActorInv, TypeOK, Chained
<1>8. OrderInv'
  <2>1. \A i, j \in DOMAIN order' : order'[i] = order'[j] => i = j
    BY <1>1, <1>3, <1>4, <1>7 DEF OrderInv
  <2>2. ASSUME NEW i \in DOMAIN order'
        PROVE  chained'[order'[i]] = IF i = 1 THEN Init0 ELSE order'[i - 1]
    <3>1. CASE i \in 1 .. n
      <4>1. i = 1 \/ i - 1 \in 1 .. n BY <1>3, <3>1
      <4>2. QED BY <1>1, <1>3, <1>4, <1>7, <3>1, <4>1 DEF OrderInv
    <3>2. CASE i = n + 1
      <4>1. CASE n = 0
        <5>1. order = <<>> /\ i = 1 BY <1>1, <1>3, <3>2, <4>1, EmptySeq DEF OrderInv
        <5>2. QED BY <1>1, <1>2, <1>4, <3>2, <5>1 DEF OrderInv
      <4>2. CASE n # 0
        <5>1. order # <<>> /\ i # 1 /\ i - 1 = n /\ n \in 1 .. n
          BY <1>3, <3>2, <4>2, EmptySeq
        <5>2. QED BY <1>1, <1>2, <1>3, <1>4, <3>2, <5>1 DEF OrderInv
      <4>3. QED BY <4>1, <4>2
    <3>3. QED BY <1>3, <1>4, <3>1, <3>2
  <2>3. lastRef' = order'[Len(order')] BY <1>2, <1>4
  <2>4. QED BY <1>1, <1>4, <1>5, <1>6, <2>1, <2>2, <2>3 DEF OrderInv
<1>9. StateInv'
  <2>1. \A d \in Call : chained'[d] = Nothing => state[d] = Unresolved
    BY <1>1, <1>2 DEF StateInv, ActorInv, TypeOK
  <2>2. ASSUME NEW i \in DOMAIN order' PROVE state[order'[i]] \in {Unresolved, Made(order', i)}
    <3>1. CASE i \in 1 .. n
      <4>1. Made(order', i) = Made(order, i) BY <1>1, <1>2, <1>3, <3>1, MadeNext DEF OrderInv
      <4>2. order'[i] = order[i] /\ i \in DOMAIN order BY <1>3, <1>4, <3>1
      <4>3. QED BY <1>1, <4>1, <4>2 DEF StateInv
    <3>2. CASE i = n + 1 BY <1>1, <1>2, <1>4, <3>2 DEF StateInv
    <3>3. QED BY <1>3, <1>4, <3>1, <3>2
  <2>3. QED BY <1>1, <1>2, <2>1, <2>2 DEF StateInv, Made
<1>10. ActorInv' BY <1>1, ChainInv
<1>11. QED BY <1>1, <1>2, <1>8, <1>9, <1>10 DEF SequentialInv, OrderInv

\* A task that resolves to what its call makes keeps the state right.
LEMMA ResolveState ==
    ASSUME SequentialInv, ActorInv', NEW i \in DOMAIN order, state[Init0] # Unresolved,
           state' = [state EXCEPT ![order[i]] = Made(order, i)],
           UNCHANGED <<lastRef, chained, order, result>>
    PROVE  SequentialInv'
<1>1. OrderInv /\ StateInv BY DEF SequentialInv
<1>2. order[i] \in Call /\ order[i] # Init0 /\ chained[order[i]] # Nothing
  BY <1>1, ActorAssumption DEF OrderInv, ToSet, Chained, Call, Init0
<1>3. OrderInv' BY <1>1 DEF OrderInv, Chained
<1>4. ASSUME NEW j \in DOMAIN order PROVE state'[order[j]] \in {Unresolved, Made(order, j)}
  <2>1. order[j] \in Call /\ (j # i => order[j] # order[i])
    BY <1>1, LenProperties DEF OrderInv
  <2>2. CASE j = i BY <1>1, <2>1, <2>2 DEF StateInv
  <2>3. CASE j # i
    <3>1. state'[order[j]] = state[order[j]] BY <1>1, <2>1, <2>3 DEF StateInv
    <3>2. QED BY <1>1, <3>1 DEF StateInv
  <2>4. QED BY <2>2, <2>3
<1>5. state'[Init0] = state[Init0] BY <1>1, <1>2 DEF StateInv
<1>6. \A j \in DOMAIN order : Made(order, j)' = Made(order, j) BY <1>5 DEF Made
<1>7. StateInv' BY <1>1, <1>2, <1>4, <1>5, <1>6 DEF StateInv
<1>8. QED BY <1>3, <1>7 DEF SequentialInv

\* Where a call is in the order, and the task before its own.
LEMMA PlaceOf ==
    ASSUME SequentialInv, NEW c \in Call, chained[c] # Nothing
    PROVE  \E i \in DOMAIN order :
              /\ order[i] = c
              /\ state[c] \in {Unresolved, Made(order, i)}
              /\ Before(c) # Unresolved => state[Init0] # Unresolved
              /\ i = 1 => Before(c) = state[Init0]
              /\ i # 1 => /\ i - 1 \in DOMAIN order
                          /\ Before(c) \in {Unresolved, Made(order, i - 1)}
<1>1. OrderInv /\ StateInv BY DEF SequentialInv
<1>2. PICK i \in DOMAIN order : order[i] = c
  BY <1>1 DEF OrderInv, ToSet, Chained
<1>3. state[c] \in {Unresolved, Made(order, i)} BY <1>1, <1>2 DEF StateInv
<1>4. i = 1 => Before(c) = state[Init0]
  BY <1>1, <1>2 DEF OrderInv, StateInv, Before
<1>5. i # 1 => i - 1 \in DOMAIN order /\ Before(c) \in {Unresolved, Made(order, i - 1)}
  <2>1. i # 1 => i - 1 \in DOMAIN order BY <1>1, MadeNext DEF OrderInv
  <2>2. QED BY <1>1, <1>2, <2>1 DEF OrderInv, StateInv, Before
<1>6. Before(c) # Unresolved => state[Init0] # Unresolved
  <2>1. i # 1 => chained[c] \in Call
    BY <1>1, <1>2, <1>5, LenProperties DEF OrderInv
  <2>2. QED BY <1>1, <1>4, <2>1 DEF StateInv, Before
<1>7. QED BY <1>2, <1>3, <1>4, <1>5, <1>6

LEMMA RunMethodState ==
    ASSUME SequentialInv, NEW c \in Call, RunMethod(c)
    PROVE  SequentialInv'
<1>1. ActorInv' BY TasksKeepChain DEF SequentialInv, RunMethod
<1>2. /\ chained[c] # Nothing /\ Before(c) \notin {Unresolved, Error}
      /\ state' = [state EXCEPT ![c] = IF c \in Raises THEN Error ELSE Append(Before(c), c)]
      /\ UNCHANGED <<lastRef, chained, order, result>>
  BY DEF RunMethod, taskVars
<1>3. PICK i \in DOMAIN order :
         /\ order[i] = c
         /\ Before(c) # Unresolved => state[Init0] # Unresolved
         /\ i = 1 => Before(c) = state[Init0]
         /\ i # 1 => i - 1 \in DOMAIN order /\ Before(c) \in {Unresolved, Made(order, i - 1)}
  BY <1>2, PlaceOf
<1>4. order \in Seq(Call) /\ state[Init0] \in {Unresolved, <<>>, Error}
  BY DEF SequentialInv, OrderInv, StateInv
<1>5. (IF c \in Raises THEN Error ELSE Append(Before(c), c)) = Made(order, i)
  <2>1. CASE i = 1
    <3>1. Before(c) = <<>> /\ state[Init0] # Error BY <1>2, <1>3, <1>4, <2>1
    <3>2. QED BY <1>3, <1>4, <2>1, <3>1, MadeNext
  <2>2. CASE i # 1 BY <1>2, <1>3, <1>4, <2>2, MadeNext
  <2>3. QED BY <2>1, <2>2
<1>6. QED BY <1>1, <1>2, <1>3, <1>5, ResolveState

LEMMA RaiseTooState ==
    ASSUME SequentialInv, NEW c \in Call, RaiseToo(c)
    PROVE  SequentialInv'
<1>1. ActorInv' BY TasksKeepChain DEF SequentialInv, RaiseToo
<1>2. OrderInv /\ StateInv BY DEF SequentialInv
<1>3. CASE /\ chained[c] # Nothing /\ Before(c) = Error
           /\ state' = [state EXCEPT ![c] = Error]
           /\ UNCHANGED <<lastRef, chained, order, result>>
  <2>1. PICK i \in DOMAIN order :
           /\ order[i] = c
           /\ Before(c) # Unresolved => state[Init0] # Unresolved
           /\ i = 1 => Before(c) = state[Init0]
           /\ i # 1 => i - 1 \in DOMAIN order /\ Before(c) \in {Unresolved, Made(order, i - 1)}
    BY <1>3, PlaceOf
  <2>2. Error # Unresolved BY ActorAssumption
  <2>3. state[Init0] = Error \/ (i # 1 /\ Made(order, i - 1) = Error)
    BY <1>3, <2>1, <2>2
  <2>4. Made(order, i) = Error BY <1>2, <2>1, <2>3, MadeNext DEF OrderInv
  <2>5. QED BY <1>1, <1>3, <2>1, <2>2, <2>4, ResolveState
<1>4. CASE /\ result' = [result EXCEPT ![c] = Error]
           /\ UNCHANGED <<lastRef, chained, order, state>>
  BY <1>1, <1>2, <1>4, CallsKeepOrder DEF StateInv
<1>5. QED BY <1>3, <1>4 DEF RaiseToo, taskVars

LEMMA CreateState ==
    ASSUME SequentialInv, Create
    PROVE  SequentialInv'
<1>1. ActorInv' BY TasksKeepChain DEF SequentialInv, Create
<1>2. PICK made \in {<<>>, Error} :
        /\ state[Init0] = Unresolved
        /\ state' = [state EXCEPT ![Init0] = made]
        /\ UNCHANGED <<lastRef, chained, order, result>>
  BY DEF Create, taskVars
<1>3. OrderInv /\ StateInv BY DEF SequentialInv
<1>4. \A c \in Call : c # Init0 BY ActorAssumption DEF Call, Init0
<1>5. \A i \in DOMAIN order : order[i] \in Call BY <1>3, LenProperties DEF OrderInv
<1>6. OrderInv' BY <1>2, <1>3 DEF OrderInv, Chained
<1>7. \A c \in Call : state'[c] = Unresolved BY <1>2, <1>3, <1>4 DEF StateInv
<1>8. StateInv' BY <1>2, <1>3, <1>5, <1>7 DEF StateInv
<1>9. QED BY <1>1, <1>6, <1>8 DEF SequentialInv

\* Every step keeps the invariant.
LEMMA SequentialNext == SequentialInv /\ [Next]_vars => SequentialInv'
<1> SUFFICES ASSUME SequentialInv, [Next]_vars PROVE SequentialInv'
  OBVIOUS
<1>1. ActorInv' BY ActorNext DEF SequentialInv
<1>2. result = [c \in Call |-> result[c]] BY DEF SequentialInv, StateInv
<1>3. ASSUME NEW u \in Caller, Begin(u) \/ Acquire(u) \/ Extract(u) PROVE SequentialInv'
  <2>1. UNCHANGED <<lastRef, chained, order, state, result>>
    BY <1>3 DEF Begin, Acquire, Extract, taskVars, valueVars
  <2>2. QED BY <1>1, <1>2, <2>1, CallsKeepOrder
<1>4. ASSUME NEW u \in Caller, Chain(u) PROVE SequentialInv'
  BY <1>4, ChainOrder
<1>5. ASSUME NEW c \in Call, ArgsReady(c) \/ ExtractValue(c) PROVE SequentialInv'
  <2>1. UNCHANGED <<lastRef, chained, order, state>> /\ result' = [d \in Call |-> result'[d]]
    BY <1>2, <1>5 DEF ArgsReady, ExtractValue, taskVars
  <2>2. QED BY <1>1, <2>1, CallsKeepOrder
<1>6. CASE UNCHANGED vars
  <2>1. UNCHANGED <<lastRef, chained, order, state, result>>
    BY <1>6 DEF vars, taskVars, valueVars
  <2>2. QED BY <1>1, <1>2, <2>1, CallsKeepOrder
<1>7. QED BY <1>3, <1>4, <1>5, <1>6, RunMethodState, RaiseTooState, CreateState
          DEF Next, Remote, Run
-----------------------------------------------------------------------------
\* The calls whose callers are in .remote().
Open == {c \in Call : \E u \in Caller : making[u] = c}

soState == <<state[Init0], Open, order, result>>

LEMMA OpenInit == Init => SO!SOInit
<1> SUFFICES ASSUME Init PROVE SO!SOInit
  OBVIOUS
<1>1. \A c \in Call, u \in Caller : making[u] # c
  BY ActorAssumption DEF Init, Call
<1>2. state[Init0] = Unresolved BY DEF Init
<1>3. QED BY <1>1, <1>2 DEF SO!SOInit, Init

\* A call begins.
LEMMA BeginOpens ==
    ASSUME SequentialInv, NEW u \in Caller, Begin(u)
    PROVE  SO!SONext
<1>1. PICK c : c = calls + 1 OBVIOUS
<1>2. ActorInv /\ OrderInv BY DEF SequentialInv
<1>3. /\ making[u] = Nothing /\ making' = [making EXCEPT ![u] = c]
      /\ UNCHANGED <<order, result, state>>
  BY <1>1 DEF Begin, taskVars, valueVars
<1>4. c \in Call /\ c > calls /\ c # Nothing
  BY <1>1, <1>2, ActorAssumption DEF Begin, ActorInv, TypeOK, Call
<1>5. c \notin Chained BY <1>2, <1>4 DEF ActorInv, UnderWayUnchained, Chained
<1>6. c \notin Open
  BY <1>2, <1>4, ActorAssumption DEF ActorInv, TypeOK, UnderWayUnchained, Open, Call
<1>7. Open' = Open \cup {c}
  BY <1>2, <1>3, <1>4, ActorAssumption DEF ActorInv, TypeOK, Open, Call
<1>8. SO!ToSet(order) = Chained BY <1>2 DEF SO!ToSet, ToSet, OrderInv
<1>9. SO!SOBegin(c) BY <1>3, <1>4, <1>5, <1>6, <1>7, <1>8 DEF SO!SOBegin, Open
<1>10. QED BY <1>4, <1>9 DEF SO!SONext

\* Its state task is submitted.
LEMMA ChainOrders ==
    ASSUME SequentialInv, NEW u \in Caller, Chain(u)
    PROVE  SO!SONext
<1>1. PICK c : c = making[u] OBVIOUS
<1>2. c \in Call \ ToSet(order) /\ order' = Append(order, c) BY <1>1, ChainOrder
<1>3. c \in Open BY <1>1, <1>2 DEF Open
<1>4. UNCHANGED <<Open, result, state>> BY DEF Chain, callVars, valueVars, Open
<1>5. SO!ToSet(order) = ToSet(order) BY DEF SO!ToSet, ToSet
<1>6. SO!SOOrder(c) BY <1>2, <1>3, <1>4, <1>5 DEF SO!SOOrder, Open
<1>7. QED BY <1>2, <1>6 DEF SO!SONext

\* Its caller returns.
LEMMA ExtractCloses ==
    ASSUME SequentialInv, NEW u \in Caller, Extract(u)
    PROVE  SO!SONext
<1>1. PICK c : c = making[u] OBVIOUS
<1>2. ActorInv /\ OrderInv BY DEF SequentialInv
<1>3. /\ prevRef[u] # Nothing /\ chained[c] # Nothing
      /\ making' = [making EXCEPT ![u] = Nothing]
      /\ UNCHANGED <<order, result, state>>
  BY <1>1 DEF Extract, valueVars
<1>4. c \in Call /\ c # Nothing BY <1>1, <1>2, <1>3, ActorAssumption DEF ActorInv, TypeOK, Call
<1>5. Open' = Open \ {c}
  <2>1. \A v \in Caller : v # u => making[v] # c /\ making'[v] = making[v]
    BY <1>1, <1>2, <1>3, <1>4 DEF ActorInv, TypeOK, OwnCall
  <2>2. making'[u] = Nothing /\ \A d \in Call : d # Nothing
    BY <1>2, <1>3, ActorAssumption DEF ActorInv, TypeOK, Call
  <2>3. QED BY <1>1, <1>3, <2>1, <2>2 DEF Open
<1>6. c \in Open /\ c \in Chained BY <1>1, <1>3, <1>4 DEF Open, Chained
<1>7. SO!ToSet(order) = Chained BY <1>2 DEF SO!ToSet, ToSet, OrderInv
<1>8. SO!SOEnd(c) BY <1>3, <1>4, <1>5, <1>6, <1>7 DEF SO!SOEnd, Open
<1>9. QED BY <1>4, <1>8 DEF SO!SONext

\* Its result is what the calls up to it have made.
LEMMA ResultAnswers ==
    ASSUME SequentialInv, NEW c \in Call, c \in extracted, result[c] = Unresolved,
           state[c] # Unresolved, result' = [result EXCEPT ![c] = state[c]],
           UNCHANGED <<making, order, state>>
    PROVE  SO!SOAnswer(c)
<1>1. chained[c] # Nothing BY DEF SequentialInv, ActorInv, TypeOK
<1>2. PICK i \in DOMAIN order : order[i] = c /\ state[c] \in {Unresolved, Made(order, i)}
  BY <1>1, PlaceOf
<1>3. state[Init0] # Unresolved BY DEF SequentialInv, StateInv
<1>4. result' = [result EXCEPT ![c] =
                    IF state[Init0] = Error \/ \E j \in 1 .. i : order[j] \in Raises
                    THEN Error ELSE SubSeq(order, 1, i)]
  BY <1>2 DEF Made
<1>5. QED BY <1>2, <1>3, <1>4, ZenonT(30) DEF SO!SOAnswer

\* The first state task makes the object.
LEMMA CreateMakes ==
    ASSUME SequentialInv, Create
    PROVE  SO!SONext
<1>1. /\ state[Init0] = Unresolved /\ state'[Init0] \in {<<>>, Error}
      /\ UNCHANGED <<making, order, result>>
  BY DEF Create, callVars, taskVars, SequentialInv, StateInv
<1>2. SO!SOCreate BY <1>1 DEF SO!SOCreate
<1>3. QED BY <1>2 DEF SO!SONext

\* No other task is the first.
LEMMA OtherThanInit ==
    ASSUME SequentialInv, NEW c \in Call
    PROVE  \A v : [state EXCEPT ![c] = v][Init0] = state[Init0]
BY ActorAssumption DEF SequentialInv, StateInv, Call, Init0

LEMMA SequentialStep ==
    ASSUME SequentialInv, [Next]_vars
    PROVE  SO!SONext \/ UNCHANGED soState
<1>1. ASSUME NEW u \in Caller, Begin(u) \/ Chain(u) \/ Extract(u)
      PROVE  SO!SONext
  BY <1>1, BeginOpens, ChainOrders, ExtractCloses
<1>2. ASSUME NEW u \in Caller, Acquire(u) PROVE UNCHANGED soState
  BY <1>2 DEF Acquire, taskVars, valueVars, soState, Open
<1>3. ASSUME NEW c \in Call, ArgsReady(c) \/ RunMethod(c) PROVE UNCHANGED soState
  BY <1>3, OtherThanInit DEF ArgsReady, RunMethod, callVars, taskVars, soState, Open
<1>4. ASSUME NEW c \in Call, ExtractValue(c) PROVE SO!SONext
  BY <1>4, ResultAnswers DEF ExtractValue, callVars, taskVars, SO!SONext
<1>5. ASSUME NEW c \in Call, RaiseToo(c) PROVE SO!SONext \/ UNCHANGED soState
  <2>1. CASE UNCHANGED result
    BY <1>5, <2>1, OtherThanInit DEF RaiseToo, callVars, taskVars, soState, Open
  <2>2. CASE /\ c \in extracted /\ result[c] = Unresolved /\ state[c] = Error
             /\ result' = [result EXCEPT ![c] = Error]
    BY <1>5, <2>2, ResultAnswers, ActorAssumption
    DEF RaiseToo, callVars, taskVars, SO!SONext
  <2>3. QED BY <1>5, <2>1, <2>2 DEF RaiseToo
<1>6. CASE UNCHANGED vars
  BY <1>6 DEF vars, callVars, taskVars, valueVars, soState, Open
<1>7. CASE Create BY <1>7, CreateMakes
<1>8. QED BY <1>1, <1>2, <1>3, <1>4, <1>5, <1>6, <1>7 DEF Next, Remote, Run

(***************************************************************************)
(* However many threads call methods of an actor and in whatever order the *)
(* arguments of their calls arrive, the methods run one at a time, each on *)
(* the state the one submitted before it left, and after one that raised   *)
(* they raise (docs/design.md:200-202, actor.py:80-136).                   *)
(***************************************************************************)
THEOREM ActorImplementsSequentialObject == Spec => ActorIsSequential
<1>1. SequentialInv /\ [Next]_vars => [SO!SONext]_(SO!soVars)
  BY SequentialStep DEF soState, Open, SO!soVars
<1>2. QED BY <1>1, SequentialInit, SequentialNext, OpenInit, PTL
          DEF Spec, ActorIsSequential, SO!SOSafety
=============================================================================
