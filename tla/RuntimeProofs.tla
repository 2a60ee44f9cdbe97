--------------------------- MODULE RuntimeProofs ---------------------------
(***************************************************************************)
(* What the single-node runtime guarantees, for any number of user         *)
(* threads, workers and tasks, with evictions, timeouts and a shutdown at  *)
(* any time.  All of it follows from one inductive invariant, RuntimeInv.  *)
(*                                                                         *)
(* An eviction takes objects out of the store, so what the parts of the    *)
(* invariant rely on is that an object has been produced: no object loses  *)
(* the value it was first given, and no task its arguments (Grows), so     *)
(* that most of a part carries over from one state to the next as it       *)
(* stands.                                                                 *)
(***************************************************************************)
EXTENDS Runtime, SequenceElements
-----------------------------------------------------------------------------
\* The value of o has been computed; the arguments of t all have; their
\* values; what t is called with, and what it makes of it.
Produced(o) == produced[o] # Absent
ArgsProduced(t) == t \in submitted /\ \A d \in ToSet(args[t]) : Produced(d)
ArgValues(t) == [i \in DOMAIN args[t] |-> produced[args[t][i]]]
Called(t, vals) == ArgsProduced(t) /\ vals = ArgValues(t)
Computed(t, v) == ArgsProduced(t) /\ v = Outcome(t, ArgValues(t))

TaskInv ==
    /\ Cardinality(submitted) \in Nat /\ submitted = 1 .. Cardinality(submitted)
    /\ submitted \subseteq Task
    /\ args \in [Task -> SeqOf(submitted, MaxArgs)]
    /\ refs \subseteq submitted
    /\ gone \subseteq Worker \cup {Collector}
    /\ evicts \in 0 .. MaxEvicts

(***************************************************************************)
(* The values.  What the store has is what has been produced, and that and *)
(* whatever is on its way to or from a worker comes from the values of the *)
(* task's arguments.                                                       *)
(***************************************************************************)
ValueInv ==
    /\ store = [t \in Task |-> store[t]] /\ produced = [t \in Task |-> produced[t]]
    /\ \A t \in Task : Store!contains(t) => store[t] = produced[t]
    /\ evicts = 0 => store = produced
    /\ \A t \in Task : Produced(t) => Computed(t, produced[t])
    /\ IsSequence(taskQueue) /\ IsSequence(resultQueue)
    /\ \A e \in ToSet(taskQueue) : e = Sentinel \/ Called(e[1], e[2])
    /\ running = [w \in Worker |-> running[w]]
    /\ \A w \in Worker : running[w] = Nothing \/ Called(running[w][1], running[w][2])
    /\ \A r \in ToSet(resultQueue) : Computed(r[1], r[2])

(***************************************************************************)
(* The calls in progress.                                                  *)
(***************************************************************************)
\* resolve_args, as far as it has come.
Partial(t, todo, vals) ==
    /\ IsSequence(vals)
    /\ Len(vals) + Len(todo) = Len(args[t])
    /\ \A i \in 1 .. Len(vals) : Produced(args[t][i]) /\ vals[i] = produced[args[t][i]]
    /\ \A i \in 1 .. Len(todo) : todo[i] = args[t][Len(vals) + i]

\* How often an ObjectRef is in a list.
Times(s, o) == Cardinality({i \in DOMAIN s : s[i] = o})

WaitOK(f) ==
    /\ f = [at |-> "wait", of |-> f.of, num_returns |-> f.num_returns,
            expired |-> f.expired, todo |-> f.todo, ready |-> f.ready,
            remaining |-> f.remaining]
    /\ f.of \in Seq(submitted) /\ f.todo \in Seq(submitted)
    /\ f.ready \in Seq(submitted) /\ f.remaining \in Seq(submitted)
    /\ \A o \in Task :
          Times(f.of, o) = Times(f.ready, o) + Times(f.remaining, o) + Times(f.todo, o)
    /\ \A o \in ToSet(f.ready) : Produced(o)

CallOK(th, f) ==
    /\ f = [at |-> f.at, task |-> f.task, todo |-> f.todo, vals |-> f.vals]
    /\ f.at \in Label \ {"wait"}
    /\ f.at # "join" => f.task \in submitted
    /\ f.todo \in Seq(submitted)
    /\ f.at \in {"recheck", "announce", "rebuild"} => f.todo # <<>>
    /\ f.at = "announce" => Produced(Head(f.todo))
    /\ f.at \in {"finished", "failed"} =>
          /\ th = Collector /\ Produced(f.task)
          /\ f.at = "failed" <=> Raised(produced[f.task])
    /\ f.at = "finished" => f.todo = <<f.task>>
    /\ f.at \in {"resolveFlush", "resolveRebuild"} => Partial(f.task, f.todo, f.vals)
    /\ f.at = "resolveFlush" => ArgsProduced(f.task)

FrameOK(th, f) == IF f.at = "wait" THEN WaitOK(f) ELSE CallOK(th, f)

\* The calls that make calls.
Outer == {"flush", "get", "rebuild", "resolveRebuild", "read"}

Under(th) == ToSet(Tail(stack[th]))

StackOK(th) ==
    /\ IsSequence(stack[th])
    /\ stack[th] # <<>> =>
          /\ FrameOK(th, Top(th))
          /\ \A f \in Under(th) : f.at \in Outer /\ FrameOK(th, f)

StackInv == stack = [th \in Thread |-> stack[th]] /\ \A th \in Thread : StackOK(th)

(***************************************************************************)
(* The sleeping threads: each for the object its call needs next, and only *)
(* they are on an event.                                                   *)
(***************************************************************************)
SleepInv ==
    /\ blocked = [th \in Thread |-> blocked[th]]
    /\ waiting = [o \in Task |-> waiting[o]]
    /\ signalling = [th \in Thread |-> signalling[th]]
    /\ \A th \in Thread : blocked[th] # Nothing =>
          stack[th] # <<>> /\ Awaited(th) = blocked[th]
    /\ \A o \in Task : \A th \in waiting[o] : th \in Thread /\ blocked[th] # Nothing
    /\ \A p \in Thread : \A th \in signalling[p] : th \in Thread /\ blocked[th] # Nothing
    /\ \A th \in woken : th \in Thread /\ blocked[th] # Nothing

(***************************************************************************)
(* The scheduler.                                                          *)
(***************************************************************************)
SchedInv ==
    /\ unresolved = [t \in Task |-> unresolved[t]]
    /\ waitingOn \in [Task -> Seq(submitted)]
    /\ ready \in Seq(submitted)
    /\ pending \subseteq submitted
    /\ \A t \in ToSet(ready) : ArgsProduced(t)
    /\ \A t \in pending : \A d \in ToSet(args[t]) : Produced(d) \/ d \in unresolved[t]
    /\ \A t \in pending : \A o \in unresolved[t] :
          o \in submitted /\ t \in ToSet(waitingOn[o])

(***************************************************************************)
(* The status of a task is late only while the collector records it.       *)
(***************************************************************************)
StatusInv ==
    /\ status = [t \in Task |-> status[t]]
    /\ \A t \in submitted :
          /\ ~ Produced(t) => status[t] = "READY"
          /\ Produced(t) =>
                \/ status[t] = IF Raised(produced[t]) THEN "FAILED" ELSE "FINISHED"
                \/ status[t] = "READY" /\ Records(Collector, t)

RuntimeInv ==
    /\ TaskInv /\ ValueInv /\ StackInv /\ SleepInv /\ SchedInv /\ NoMissedTrigger
    /\ StatusInv
-----------------------------------------------------------------------------
(***************************************************************************)
(* Sequences: what is on top of a stack and under it, and how often an     *)
(* element is in a list.                                                   *)
(***************************************************************************)
LEMMA PushTail ==
    ASSUME NEW s, IsSequence(s), NEW e
    PROVE  /\ IsSequence(<<e>> \o s) /\ <<e>> \o s # <<>>
           /\ (<<e>> \o s)[1] = e /\ Tail(<<e>> \o s) = s
<1> DEFINE r == <<e>> \o s
<1>1. /\ IsSequence(r) /\ Len(r) = Len(s) + 1 /\ r[1] = e /\ r # <<>>
      /\ \A i \in 1 .. Len(s) : r[i + 1] = s[i]
  BY PushSequence
<1> HIDE DEF r
<1>2. PICK n \in Nat : n = Len(s) BY SequenceOver DEF IsSequence
<1>3. /\ IsSequence(Tail(r)) /\ Len(Tail(r)) = Len(r) - 1
      /\ \A i \in 1 .. Len(r) - 1 : Tail(r)[i] = r[i + 1]
  BY <1>1, TailSequence
<1>4. Len(r) - 1 = n BY <1>1, <1>2
<1>5. Len(Tail(r)) = n /\ \A i \in 1 .. n : Tail(r)[i] = s[i] BY <1>1, <1>2, <1>3, <1>4
<1> DEFINE S == ToSet(s) \cup ToSet(Tail(r))
<1>6. s \in Seq(S) /\ Tail(r) \in Seq(S) BY <1>3, SequenceIn
<1> HIDE DEF S
<1>7. Tail(r) = s BY <1>2, <1>5, <1>6, SeqEqual
<1>8. QED BY <1>1, <1>7 DEF r

\* Pushing two frames is pushing one and then the other.
LEMMA PushTwo ==
    ASSUME NEW s, IsSequence(s), NEW e, NEW f
    PROVE  <<e, f>> \o s = <<e>> \o (<<f>> \o s)
<1> DEFINE S == ToSet(s) \cup {e, f}
<1>1. s \in Seq(S) BY SequenceIn
<1>2. <<e>> \in Seq(S) /\ <<f>> \in Seq(S)
  <2>1. IsSequence(<<e>>) /\ ToSet(<<e>>) = {e} BY OneElement
  <2>2. IsSequence(<<f>>) /\ ToSet(<<f>>) = {f} BY OneElement
  <2>3. QED BY <2>1, <2>2, SequenceIn
<1> HIDE DEF S
<1>3. (<<e>> \o <<f>>) \o s = <<e>> \o (<<f>> \o s) BY <1>1, <1>2, ConcatAssociative
<1>4. QED BY <1>3, PushOne

\* An object occurs a finite number of times in a sequence.
LEMMA TimesFinite ==
    ASSUME NEW S, NEW s \in Seq(S), NEW o
    PROVE  /\ IsFiniteSet({i \in DOMAIN s : s[i] = o}) /\ Times(s, o) \in Nat
<1>1. DOMAIN s = 1 .. Len(s) /\ Len(s) \in Nat BY LenProperties
<1>2. IsFiniteSet(DOMAIN s) BY <1>1, FS_Interval
<1>3. {i \in DOMAIN s : s[i] = o} \in SUBSET DOMAIN s OBVIOUS
<1>4. IsFiniteSet({i \in DOMAIN s : s[i] = o}) BY <1>2, <1>3, FS_Subset
<1>5. QED BY <1>4, FS_CardinalityType DEF Times

\* Positions counted from a later one.
LEMMA Shifted ==
    ASSUME NEW B \in SUBSET Nat, IsFiniteSet(B), NEW m \in Nat
    PROVE  LET C == {i + m : i \in B} IN
           IsFiniteSet(C) /\ Cardinality(C) = Cardinality(B)
<1> DEFINE C == {i + m : i \in B}
           g == [i \in B |-> i + m]
<1>1. g \in [B -> C] OBVIOUS
<1>2. \A a, b \in B : g[a] = g[b] => a = b OBVIOUS
<1>3. \A c \in C : \E a \in B : g[a] = c OBVIOUS
<1>4. g \in Bijection(B, C)
  <2> HIDE DEF g, C
  <2>1. DOMAIN g = B BY <1>1
  <2>2. QED BY <1>1, <1>2, <1>3, <2>1 DEF Bijection, Injection, Surjection, IsInjective
<1>5. ExistsBijection(B, C) BY <1>4 DEF ExistsBijection
<1>6. QED BY <1>5, FS_Bijection

\* The times in a concatenation are the times in its parts.
LEMMA TimesConcat ==
    ASSUME NEW S, NEW s1 \in Seq(S), NEW s2 \in Seq(S), NEW o
    PROVE  s1 \o s2 \in Seq(S) /\ Times(s1 \o s2, o) = Times(s1, o) + Times(s2, o)
<1> DEFINE r == s1 \o s2
           A == {i \in DOMAIN s1 : s1[i] = o}
           B == {i \in DOMAIN s2 : s2[i] = o}
<1>1. PICK m \in Nat, n \in Nat : m = Len(s1) /\ n = Len(s2) BY LenProperties
<1>2. DOMAIN s1 = 1 .. m /\ DOMAIN s2 = 1 .. n BY <1>1, LenProperties
<1>3. /\ r \in Seq(S) /\ Len(r) = m + n
      /\ \A i \in 1 .. m + n : r[i] = IF i <= m THEN s1[i] ELSE s2[i - m]
  BY <1>1, ConcatProperties
<1> HIDE DEF r
<1>4. DOMAIN r = 1 .. m + n BY <1>3, LenProperties
<1> DEFINE C == {i + m : i \in B}
<1>5. {i \in DOMAIN r : r[i] = o} = A \cup C
  <2>1. ASSUME NEW i \in 1 .. m + n, r[i] = o PROVE i \in A \cup C
    <3>1. CASE i <= m
      <4>1. i \in 1 .. m /\ s1[i] = o BY <1>3, <2>1, <3>1
      <4>2. QED BY <1>2, <4>1
    <3>2. CASE ~ i <= m
      <4>1. i - m \in 1 .. n /\ i = (i - m) + m /\ s2[i - m] = o BY <1>3, <2>1, <3>2
      <4>2. i - m \in B BY <1>2, <4>1
      <4>3. QED BY <4>1, <4>2
    <3>3. QED BY <3>1, <3>2
  <2>2. ASSUME NEW i \in A PROVE i \in 1 .. m + n /\ r[i] = o
    <3>1. i \in 1 .. m /\ s1[i] = o BY <1>2
    <3>2. i \in 1 .. m + n /\ i <= m BY <3>1
    <3>3. QED BY <1>3, <3>1, <3>2
  <2>3. ASSUME NEW j \in B PROVE j + m \in 1 .. m + n /\ r[j + m] = o
    <3>1. j \in 1 .. n /\ s2[j] = o BY <1>2
    <3>2. j + m \in 1 .. m + n /\ ~ (j + m <= m) /\ (j + m) - m = j BY <3>1
    <3>3. QED BY <1>3, <3>1, <3>2
  <2>4. QED BY <1>4, <2>1, <2>2, <2>3
<1>6. IsFiniteSet(A) /\ IsFiniteSet(B) /\ Cardinality(A) \in Nat /\ Cardinality(B) \in Nat
  BY TimesFinite, FS_CardinalityType
<1>7. IsFiniteSet(C) /\ Cardinality(C) = Cardinality(B)
  <2>1. B \in SUBSET Nat BY <1>2
  <2> HIDE DEF B
  <2>2. QED BY <1>6, <2>1, Shifted
<1>8. A \cap C = {} BY <1>2
<1> HIDE DEF A, B, C
<1>9. Cardinality(A \cup C) = Cardinality(A) + Cardinality(B)
  <2>1. Cardinality(A \cap C) = 0 BY <1>8, FS_EmptySet
  <2>2. Cardinality(A \cup C) = Cardinality(A) + Cardinality(C) - Cardinality(A \cap C)
    BY <1>6, <1>7, FS_Union
  <2>3. QED BY <1>6, <1>7, <2>1, <2>2
<1>10. Times(r, o) = Times(s1, o) + Times(s2, o) BY <1>5, <1>9 DEF Times, A, B
<1>11. QED BY <1>3, <1>10 DEF r

\* Nothing occurs in the empty sequence.
LEMMA TimesEmpty == \A o : Times(<<>>, o) = 0
BY NoElement, FS_EmptySet DEF Times

\* An element goes from the head of one list to the end of another.
LEMMA TimesMoved ==
    ASSUME NEW S, NEW s \in Seq(S), s # <<>>, NEW r \in Seq(S), NEW o
    PROVE  Times(Append(r, Head(s)), o) + Times(Tail(s), o) = Times(r, o) + Times(s, o)
<1>1. Head(s) \in S /\ Tail(s) \in Seq(S) BY SplitElements
<1> DEFINE e == <<Head(s)>>
<1>2. e \in Seq(S)
  <2>1. IsSequence(<<Head(s)>>) /\ ToSet(<<Head(s)>>) = {Head(s)} BY OneElement
  <2>2. QED BY <1>1, <2>1, SequenceIn
<1>3. Append(r, Head(s)) = r \o e BY <1>1, AppendIsConcat
<1>4. s = e \o Tail(s)
  <2>1. IsSequence(s) BY SequenceOver
  <2>2. /\ Len(s) \in Nat /\ Len(s) >= 1 /\ Len(Tail(s)) = Len(s) - 1 /\ Head(s) = s[1]
        /\ \A i \in 1 .. Len(s) - 1 : Tail(s)[i] = s[i + 1]
    BY <2>1, TailSequence
  <2>3. IsSequence(Tail(s)) BY <2>1, TailSequence
  <2> DEFINE q == e \o Tail(s)
  <2>4. /\ q \in Seq(S)
        /\ Len(q) = Len(Tail(s)) + 1 /\ q[1] = Head(s)
        /\ \A i \in 1 .. Len(Tail(s)) : q[i + 1] = Tail(s)[i]
    BY <1>1, <1>2, <2>3, PushSequence, ConcatProperties
  <2> HIDE DEF q, e
  <2>5. PICK n \in Nat : n = Len(s) /\ n >= 1 BY <2>2
  <2>6. Len(Tail(s)) = n - 1 /\ Len(q) = n BY <2>2, <2>4, <2>5
  <2>7. ASSUME NEW i \in 1 .. n PROVE q[i] = s[i]
    <3>1. CASE i = 1 BY <2>2, <2>4, <3>1
    <3>2. CASE i # 1
      <4>1. i - 1 \in 1 .. n - 1 /\ (i - 1) + 1 = i BY <3>2
      <4>2. PICK j \in 1 .. n - 1 : j + 1 = i BY <4>1
      <4>3. QED BY <2>2, <2>4, <2>5, <2>6, <4>2
    <3>3. QED BY <3>1, <3>2
  <2>8. q = s BY <2>4, <2>5, <2>6, <2>7, SeqEqual
  <2>9. QED BY <2>8 DEF q
<1> HIDE DEF e
<1>5. Times(r \o e, o) = Times(r, o) + Times(e, o) BY <1>2, TimesConcat
<1>6. PICK q \in Seq(S) : q = Tail(s) BY <1>1
<1>7. Times(e \o q, o) = Times(e, o) + Times(q, o) BY <1>2, TimesConcat
<1>8. PICK k \in Nat, m \in Nat, n \in Nat :
          k = Times(r, o) /\ m = Times(e, o) /\ n = Times(q, o)
  BY <1>2, TimesFinite
<1>9. Times(Append(r, Head(s)), o) = k + m BY <1>3, <1>5, <1>8
<1>10. Times(s, o) = m + n
  <2>1. Times(s, o) = Times(e \o q, o) BY <1>4, <1>6, Zenon
  <2>2. QED BY <1>7, <1>8, <2>1
<1>11. (k + m) + n = k + (m + n) OBVIOUS
<1>12. QED BY <1>6, <1>8, <1>9, <1>10, <1>11
-----------------------------------------------------------------------------
(***************************************************************************)
(* What a step may do to the tasks and to what has been produced: add, and *)
(* no more.                                                                *)
(***************************************************************************)
Grows ==
    /\ submitted \subseteq submitted'
    /\ \A t \in submitted : args'[t] = args[t]
    /\ \A o \in Task : Produced(o) => produced'[o] = produced[o]

\* A step that changes no table grows them.
LEMMA GrowsSame ==
    ASSUME UNCHANGED <<submitted, args, produced>>
    PROVE  Grows
BY DEF Grows

\* The arguments of a submitted task.
LEMMA Arguments ==
    ASSUME TaskInv, NEW t \in submitted
    PROVE  /\ t \in Task
           /\ IsSequence(args[t]) /\ args[t] \in Seq(submitted)
           /\ Len(args[t]) \in Nat /\ DOMAIN args[t] = 1 .. Len(args[t])
           /\ ToSet(args[t]) \subseteq submitted
           /\ \A i \in 1 .. Len(args[t]) : args[t][i] \in ToSet(args[t])
BY BoundedSequence, RuntimeAssumption DEF TaskInv

\* What has been produced stays produced, with its value.
LEMMA StaysProduced ==
    ASSUME TaskInv, Grows, NEW o \in Task, Produced(o)
    PROVE  Produced(o)' /\ produced'[o] = produced[o]
BY DEF Grows, Produced

\* Arguments that have been produced stay the same values.
LEMMA StaysArguments ==
    ASSUME TaskInv, Grows, NEW t, ArgsProduced(t)
    PROVE  ArgsProduced(t)' /\ ArgValues(t)' = ArgValues(t) /\ args'[t] = args[t]
<1>1. t \in submitted BY DEF ArgsProduced
<1>2. /\ args'[t] = args[t] /\ t \in submitted'
      /\ \A i \in DOMAIN args[t] : args[t][i] \in ToSet(args[t])
      /\ \A d \in ToSet(args[t]) : d \in Task
  BY <1>1, Arguments DEF Grows, TaskInv
<1>3. \A d \in ToSet(args[t]) : Produced(d)' /\ produced'[d] = produced[d]
  BY <1>2, StaysProduced DEF ArgsProduced
<1>4. ArgsProduced(t)' BY <1>2, <1>3 DEF ArgsProduced
<1>5. ArgValues(t)' = ArgValues(t)
  <2>1. \A i \in DOMAIN args[t] : produced'[args'[t][i]] = produced[args[t][i]]
    BY <1>2, <1>3
  <2>2. QED BY <1>2, <2>1 DEF ArgValues
<1>6. QED BY <1>2, <1>4, <1>5

\* A call or a result in flight stays the one its arguments give.
LEMMA StaysCalled ==
    ASSUME TaskInv, Grows, NEW t, NEW v
    PROVE  /\ Called(t, v) => Called(t, v)'
           /\ Computed(t, v) => Computed(t, v)'
BY StaysArguments DEF Called, Computed

\* The arguments read so far stay the values of the first arguments.
LEMMA StaysPartial ==
    ASSUME TaskInv, Grows, NEW t \in submitted, NEW todo \in Seq(submitted), NEW vals,
           Partial(t, todo, vals)
    PROVE  Partial(t, todo, vals)'
<1>1. args'[t] = args[t] /\ submitted \subseteq Task BY DEF Grows, TaskInv
<1>2. /\ Len(vals) \in Nat /\ Len(todo) \in Nat /\ Len(args[t]) \in Nat
      /\ \A i \in 1 .. Len(args[t]) : args[t][i] \in Task
  BY <1>1, Arguments, SequenceOver DEF Partial, IsSequence
<1>3. ASSUME NEW i \in 1 .. Len(vals)
      PROVE  Produced(args[t][i])' /\ vals[i] = produced'[args'[t][i]]
  <2>1. i \in 1 .. Len(args[t])
    <3>1. PICK m \in Nat, n \in Nat, l \in Nat :
              m = Len(vals) /\ n = Len(todo) /\ l = Len(args[t])
      BY <1>2
    <3>2. m + n = l BY <3>1 DEF Partial
    <3>3. i \in 1 .. m BY <3>1, Zenon
    <3>4. i \in 1 .. l BY <3>2, <3>3, TwoParts
    <3>5. QED BY <3>1, <3>4, Zenon
  <2>2. PICK d \in Task : d = args[t][i] BY <1>2, <2>1
  <2>3. Produced(d) /\ vals[i] = produced[d] BY <2>2 DEF Partial
  <2>4. Produced(d)' /\ vals[i] = produced'[d] BY <2>3, StaysProduced
  <2>5. args'[t][i] = d BY <1>1, <2>2
  <2>6. QED BY <2>4, <2>5 DEF Produced
<1>4. QED BY <1>1, <1>3 DEF Partial

\* A frame that a step leaves alone stays right.
LEMMA StaysFrame ==
    ASSUME TaskInv, Grows, NEW th, NEW f, FrameOK(th, f)
    PROVE  FrameOK(th, f)'
<1>1. submitted \subseteq submitted' /\ submitted \subseteq Task
  BY DEF Grows, TaskInv
<1>2. \A s \in Seq(submitted) : s \in Seq(submitted') /\ ToSet(s) \subseteq Task
  BY <1>1, SequenceOver, SequenceIn
<1>3. CASE f.at = "wait"
  <2>1. WaitOK(f) BY <1>3 DEF FrameOK
  <2>2. \A o \in ToSet(f.ready) : Produced(o)' BY <1>2, <2>1, StaysProduced DEF WaitOK
  <2>3. WaitOK(f)' BY <1>2, <2>1, <2>2 DEF WaitOK
  <2>4. QED BY <1>3, <2>3 DEF FrameOK
<1>4. CASE f.at # "wait"
  <2>1. CallOK(th, f) BY <1>4 DEF FrameOK
  <2>2. f.at = "announce" => Produced(Head(f.todo))'
    <3> SUFFICES ASSUME f.at = "announce" PROVE Produced(Head(f.todo))'
      OBVIOUS
    <3>1. f.todo # <<>> /\ Produced(Head(f.todo)) BY <2>1 DEF CallOK
    <3>2. Head(f.todo) \in Task BY <1>1, <2>1, <3>1, SplitElements DEF CallOK
    <3>3. QED BY <3>1, <3>2, StaysProduced
  <2>3. f.at \in {"finished", "failed"} =>
            /\ th = Collector /\ Produced(f.task)'
            /\ f.at = "failed" <=> Raised(produced'[f.task])
    <3> SUFFICES ASSUME f.at \in {"finished", "failed"}
                 PROVE  /\ th = Collector /\ Produced(f.task)'
                        /\ f.at = "failed" <=> Raised(produced'[f.task])
      OBVIOUS
    <3>1. f.task \in Task /\ th = Collector /\ Produced(f.task)
          /\ (f.at = "failed" <=> Raised(produced[f.task]))
      BY <1>1, <2>1 DEF CallOK
    <3>2. QED BY <3>1, StaysProduced
  <2>4. f.at \in {"resolveFlush", "resolveRebuild"} => Partial(f.task, f.todo, f.vals)'
    BY <2>1, StaysPartial DEF CallOK
  <2>5. f.at = "resolveFlush" => ArgsProduced(f.task)' BY <2>1, StaysArguments DEF CallOK
  <2>6. (f.at # "join" => f.task \in submitted') /\ f.todo \in Seq(submitted')
    BY <1>1, <1>2, <2>1 DEF CallOK
  <2>7. CallOK(th, f)' BY <2>1, <2>2, <2>3, <2>4, <2>5, <2>6 DEF CallOK
  <2>8. QED BY <1>4, <2>7 DEF FrameOK
<1>5. QED BY <1>3, <1>4
-----------------------------------------------------------------------------
(***************************************************************************)
(* The calls in progress: what is on top, and how it moves on.             *)
(***************************************************************************)
LEMMA TopFrame ==
    ASSUME StackInv, NEW th \in Thread, stack[th] # <<>>
    PROVE  /\ FrameOK(th, Top(th)) /\ Head(stack[th]) = Top(th)
           /\ IsSequence(Tail(stack[th]))
           /\ ToSet(stack[th]) = {Top(th)} \cup Under(th)
           /\ \A f \in Under(th) : f.at \in Outer /\ FrameOK(th, f)
BY TailSequence DEF StackInv, StackOK, Under, Top

\* What is known of the frame a thread is at.
LEMMA AtFrame ==
    ASSUME StackInv, NEW th \in Thread, NEW label, label # "wait", At(th, label)
    PROVE  /\ stack[th] # <<>> /\ Top(th).at = label /\ CallOK(th, Top(th))
           /\ Top(th) = [at |-> label, task |-> Top(th).task, todo |-> Top(th).todo,
                         vals |-> Top(th).vals]
BY TopFrame DEF At, FrameOK, CallOK

\* Frame f on top of others.
LEMMA BuiltStack ==
    ASSUME NEW th, NEW f, NEW rest, IsSequence(rest), FrameOK(th, f)',
           stack'[th] = <<f>> \o rest,
           \A g \in ToSet(rest) : g.at \in Outer /\ FrameOK(th, g)'
    PROVE  StackOK(th)' /\ stack'[th] # <<>> /\ Top(th)' = f
<1>1. /\ IsSequence(stack'[th]) /\ stack'[th] # <<>> /\ stack'[th][1] = f
      /\ Tail(stack'[th]) = rest
  BY PushTail
<1>2. Top(th)' = f /\ Under(th)' = ToSet(rest) BY <1>1 DEF Top, Under
<1>3. FrameOK(th, Top(th))' BY <1>2
<1>4. \A g \in Under(th)' : g.at \in Outer /\ FrameOK(th, g)' BY <1>2
<1>5. QED BY <1>1, <1>2, <1>3, <1>4 DEF StackOK

\* So do the frames below the one that runs.
LEMMA StaysUnder ==
    ASSUME TaskInv, Grows, StackInv, NEW th \in Thread, stack[th] # <<>>
    PROVE  \A g \in Under(th) : g.at \in Outer /\ FrameOK(th, g)'
<1> TAKE g \in Under(th)
<1>1. g.at \in Outer /\ FrameOK(th, g) BY TopFrame
<1>2. QED BY <1>1, StaysFrame

\* A thread that moves within its call keeps a right stack.
LEMMA GotoStack ==
    ASSUME TaskInv, Grows, StackInv, NEW th \in Thread, stack[th] # <<>>,
           NEW f, Goto(th, f), FrameOK(th, f)'
    PROVE  StackOK(th)' /\ stack'[th] # <<>> /\ Top(th)' = f
<1>1. stack'[th] = <<f>> \o Tail(stack[th]) BY DEF StackInv, Goto
<1>2. IsSequence(Tail(stack[th])) BY TopFrame
<1>3. \A g \in ToSet(Tail(stack[th])) : g.at \in Outer /\ FrameOK(th, g)'
  BY StaysUnder DEF Under
<1>4. QED BY <1>1, <1>2, <1>3, BuiltStack

\* f is called, and g goes on after it.
LEMMA CallStack2 ==
    ASSUME TaskInv, Grows, StackInv, NEW th \in Thread, stack[th] # <<>>,
           NEW f, NEW g, Call(th, f, g), FrameOK(th, f)', FrameOK(th, g)', g.at \in Outer
    PROVE  StackOK(th)' /\ stack'[th] # <<>> /\ Top(th)' = f
<1>1. PICK s : s = Tail(stack[th]) /\ IsSequence(s) BY TopFrame
<1>2. stack'[th] = <<f, g>> \o s BY <1>1 DEF StackInv, Call
<1>3. PICK r : r = <<g>> \o s OBVIOUS
<1>4. stack'[th] = <<f>> \o r BY <1>1, <1>2, <1>3, PushTwo
<1>5. IsSequence(r) /\ ToSet(r) = {g} \cup ToSet(s)
  <2>1. IsSequence(r) /\ r # <<>> /\ r[1] = g /\ Tail(r) = s BY <1>1, <1>3, PushTail
  <2>2. QED BY <2>1, TailSequence
<1>6. \A h \in ToSet(s) : h.at \in Outer /\ FrameOK(th, h)'
  BY <1>1, StaysUnder DEF Under
<1>7. \A h \in ToSet(r) : h.at \in Outer /\ FrameOK(th, h)'
  <2> TAKE h \in ToSet(r)
  <2>1. CASE h = g BY <2>1
  <2>2. CASE h \in ToSet(s) BY <1>6, <2>2
  <2>3. QED BY <1>5, <2>1, <2>2
<1>8. QED BY <1>4, <1>5, <1>7, BuiltStack

\* So does a thread that returns from a call.
LEMMA ReturnStack ==
    ASSUME TaskInv, Grows, StackInv, NEW th \in Thread, stack[th] # <<>>, Return(th)
    PROVE  StackOK(th)'
<1>1. PICK s : s = Tail(stack[th]) /\ IsSequence(s) BY TopFrame
<1>2. stack'[th] = s BY <1>1 DEF StackInv, Return
<1>3. \A g \in ToSet(s) : g.at \in Outer /\ FrameOK(th, g)'
  BY <1>1, StaysUnder DEF Under
<1>4. CASE s = <<>> BY <1>1, <1>2, <1>4 DEF StackOK
<1>5. CASE s # <<>>
  <2>1. Head(s) = s[1] /\ ToSet(s) = {Head(s)} \cup ToSet(Tail(s))
    BY <1>1, <1>5, TailSequence
  <2>2. PICK g : g = Head(s) OBVIOUS
  <2>3. FrameOK(th, g)' /\ Top(th)' = g BY <1>2, <1>3, <2>1, <2>2 DEF Top
  <2>4. FrameOK(th, Top(th))' BY <2>3
  <2>5. Under(th)' = ToSet(Tail(s)) BY <1>2 DEF Under
  <2>6. \A h \in Under(th)' : h.at \in Outer /\ FrameOK(th, h)' BY <1>3, <2>1, <2>5
  <2>7. QED BY <1>1, <1>2, <2>4, <2>6 DEF StackOK
<1>6. QED BY <1>4, <1>5

\* A thread that starts a call has a right stack.
LEMMA EnterOne ==
    ASSUME NEW th, NEW f, stack'[th] = <<f>>, FrameOK(th, f)'
    PROVE  StackOK(th)' /\ stack'[th] # <<>> /\ Top(th)' = f
<1>1. IsSequence(<<f>>) /\ <<f>> \o <<>> = <<f>>
  BY OneElement, ConcatEmptySeq DEF IsSequence
<1>2. IsSequence(<<>>) /\ ToSet(<<>>) = {} BY NoElement
<1>3. stack'[th] = <<f>> \o <<>> BY <1>1
<1>4. QED BY <1>2, <1>3, BuiltStack

\* So does one that starts two, one inside the other.
LEMMA EnterTwo ==
    ASSUME NEW th, NEW f, NEW g, stack'[th] = <<f, g>>, FrameOK(th, f)', FrameOK(th, g)',
           g.at \in Outer
    PROVE  StackOK(th)' /\ stack'[th] # <<>> /\ Top(th)' = f
<1>1. IsSequence(<<g>>) /\ ToSet(<<g>>) = {g} BY OneElement
<1>2. stack'[th] = <<f>> \o <<g>> BY PushOne
<1>3. \A h \in ToSet(<<g>>) : h.at \in Outer /\ FrameOK(th, h)'
  <2> TAKE h \in ToSet(<<g>>)
  <2>1. h = g BY <1>1
  <2>2. QED BY <2>1
<1>4. QED BY <1>1, <1>2, <1>3, BuiltStack
-----------------------------------------------------------------------------
(***************************************************************************)
(* What carries over.                                                      *)
(***************************************************************************)
LEMMA StaysTasks ==
    ASSUME TaskInv, UNCHANGED <<submitted, args, refs, gone, evicts>>
    PROVE  TaskInv'
BY DEF TaskInv

\* A queue gets another task, or nothing changes at all.
LEMMA QueuedValues ==
    ASSUME TaskInv, ValueInv, Grows, UNCHANGED <<store, produced, evicts, running>>,
           UNCHANGED resultQueue, IsSequence(taskQueue'),
           \A e \in ToSet(taskQueue') : e = Sentinel \/ Called(e[1], e[2])'
    PROVE  ValueInv'
<1>1. ASSUME NEW t \in Task, Produced(t)' PROVE Computed(t, produced[t])'
  <2>1. PICK v : v = produced[t] OBVIOUS
  <2>2. Computed(t, v) BY <1>1, <2>1 DEF ValueInv, Produced
  <2>3. Computed(t, v)' BY <2>2, StaysCalled
  <2>4. QED BY <2>1, <2>3
<1>2. ASSUME NEW w \in Worker
      PROVE  running[w] = Nothing \/ Called(running[w][1], running[w][2])'
  <2>1. PICK e : e = running[w] OBVIOUS
  <2>2. e = Nothing \/ Called(e[1], e[2]) BY <2>1 DEF ValueInv
  <2>3. e = Nothing \/ Called(e[1], e[2])' BY <2>2, StaysCalled
  <2>4. QED BY <2>1, <2>3
<1>3. \A r \in ToSet(resultQueue) : Computed(r[1], r[2])' BY StaysCalled DEF ValueInv
<1>4. QED BY <1>1, <1>2, <1>3 DEF ValueInv, Store!contains

\* The values of the store stay right when nothing is stored or sent.
LEMMA StaysValues ==
    ASSUME TaskInv, ValueInv, Grows, UNCHANGED <<store, produced, evicts>>, UNCHANGED ipcVars
    PROVE  ValueInv'
<1>1. \A e \in ToSet(taskQueue) : e = Sentinel \/ Called(e[1], e[2])'
  BY StaysCalled DEF ValueInv
<1>2. IsSequence(taskQueue) BY DEF ValueInv
<1>3. QED BY <1>1, <1>2, QueuedValues DEF ipcVars

\* The scheduler stays right when its own state does not change.
LEMMA StaysSched ==
    ASSUME TaskInv, SchedInv, Grows, UNCHANGED schedVars
    PROVE  SchedInv'
<1>1. submitted \subseteq submitted' /\ pending \subseteq submitted /\ submitted \subseteq Task
  BY DEF Grows, SchedInv, TaskInv
<1>2. \A t \in ToSet(ready) : ArgsProduced(t)' BY StaysArguments DEF SchedInv
<1>3. ASSUME NEW t \in pending
      PROVE  \A d \in ToSet(args'[t]) : Produced(d)' \/ d \in unresolved[t]
  <2>1. args'[t] = args[t] /\ ToSet(args[t]) \subseteq Task BY <1>1, Arguments DEF Grows
  <2>2. QED BY <2>1, StaysProduced DEF SchedInv
<1>4. \A s \in Seq(submitted) : s \in Seq(submitted') BY <1>1, SequenceOver, SequenceIn
<1>5. waitingOn \in [Task -> Seq(submitted')] /\ ready \in Seq(submitted')
  BY <1>4 DEF SchedInv
<1>6. QED BY <1>1, <1>2, <1>3, <1>5 DEF SchedInv, schedVars

\* When one thread moves, the stacks of the others stay right.
LEMMA MovedStack ==
    ASSUME TaskInv, Grows, StackInv, NEW h \in Thread,
           stack' = [stack EXCEPT ![h] = stack'[h]], StackOK(h)'
    PROVE  StackInv'
<1>1. ASSUME NEW g \in Thread, g # h PROVE StackOK(g)'
  <2>1. stack'[g] = stack[g] /\ StackOK(g) BY <1>1 DEF StackInv
  <2>2. CASE stack[g] = <<>> BY <2>1, <2>2 DEF StackOK
  <2>3. CASE stack[g] # <<>>
    <3>1. PICK f : f = Top(g) OBVIOUS
    <3>2. FrameOK(g, f) BY <2>1, <2>3, <3>1 DEF StackOK
    <3>3. FrameOK(g, f)' /\ Top(g)' = f BY <2>1, <3>1, <3>2, StaysFrame DEF Top
    <3>4. FrameOK(g, Top(g))' BY <3>3
    <3>5. Under(g)' = Under(g) BY <2>1 DEF Under
    <3>6. \A e \in Under(g)' : e.at \in Outer /\ FrameOK(g, e)' BY <2>3, <3>5, StaysUnder
    <3>7. QED BY <2>1, <3>4, <3>6 DEF StackOK
  <2>4. QED BY <2>2, <2>3
<1>2. QED BY <1>1 DEF StackInv

\* When no thread moves, every stack stays right.
LEMMA StillStacks ==
    ASSUME TaskInv, Grows, StackInv, UNCHANGED stack
    PROVE  StackInv'
<1>1. ASSUME NEW g \in Thread PROVE StackOK(g)'
  <2>1. StackOK(g) BY DEF StackInv
  <2>2. CASE stack[g] = <<>> BY <2>1, <2>2 DEF StackOK
  <2>3. CASE stack[g] # <<>>
    <3>1. PICK f : f = Top(g) OBVIOUS
    <3>2. FrameOK(g, f)' BY <2>1, <2>3, <3>1, StaysFrame DEF StackOK
    <3>3. FrameOK(g, Top(g))' BY <3>1, <3>2 DEF Top
    <3>4. \A e \in Under(g)' : e.at \in Outer /\ FrameOK(g, e)'
      BY <2>3, StaysUnder DEF Under
    <3>5. QED BY <2>1, <3>3, <3>4 DEF StackOK
  <2>4. QED BY <2>2, <2>3
<1>2. QED BY <1>1 DEF StackInv
-----------------------------------------------------------------------------
(***************************************************************************)
(* The sleeping threads.                                                   *)
(***************************************************************************)
LEMMA Awake ==
    ASSUME SleepInv, NEW h \in Thread, stack[h] = <<>> \/ Awaited(h) = Nothing
    PROVE  blocked[h] = Nothing
BY DEF SleepInv

\* Where a call waits for nothing.
Sleepless == Label \ {"resolveFlush", "resolveRebuild", "awaitRebuilt", "read"}

\* A thread that has a step to take there is not asleep.
LEMMA AwakeAt ==
    ASSUME SleepInv, NEW h \in Thread, NEW label \in Sleepless, At(h, label)
    PROVE  blocked[h] = Nothing
<1>1. Awaited(h) = Nothing BY DEF Awaited, At, Sleepless
<1>2. QED BY <1>1, Awake

\* h moves on, having been awake, or just woken up.
Wakes(h) ==
    \/ blocked[h] = Nothing /\ UNCHANGED <<waiting, blocked, signalling, woken>>
    \/ Store!LeaveWait(h)

\* When one thread moves awake, the others sleep as they did.
LEMMA MovedSleep ==
    ASSUME SleepInv, StackInv, NEW h \in Thread, Wakes(h),
           stack' = [stack EXCEPT ![h] = stack'[h]]
    PROVE  SleepInv'
<1>1. ASSUME NEW g \in Thread, g # h
      PROVE  (stack[g] # <<>>)' = (stack[g] # <<>>) /\ Awaited(g)' = Awaited(g)
  <2>1. stack'[g] = stack[g] BY <1>1 DEF StackInv
  <2>2. QED BY <2>1 DEF Awaited, Top, NextArg
<1>2. CASE blocked[h] = Nothing /\ UNCHANGED <<waiting, blocked, signalling, woken>>
  <2>1. ASSUME NEW g \in Thread, blocked'[g] # Nothing
        PROVE  stack'[g] # <<>> /\ Awaited(g)' = blocked'[g]
    <3>1. g # h /\ blocked[g] # Nothing BY <1>2, <2>1
    <3>2. QED BY <1>1, <1>2, <3>1 DEF SleepInv
  <2>2. QED BY <1>2, <2>1 DEF SleepInv
<1>3. CASE Store!LeaveWait(h)
  <2>1. /\ blocked' = [blocked EXCEPT ![h] = Nothing]
        /\ waiting' = [o \in Task |-> waiting[o] \ {h}]
        /\ signalling' = [p \in Thread |-> signalling[p] \ {h}]
        /\ woken' = woken \ {h}
    BY <1>3 DEF Store!LeaveWait
  <2>2. \A g \in Thread : g # h => blocked'[g] = blocked[g]
    BY <2>1 DEF SleepInv
  <2>3. blocked'[h] = Nothing BY <2>1 DEF SleepInv
  <2>4. ASSUME NEW g \in Thread, blocked'[g] # Nothing
        PROVE  stack'[g] # <<>> /\ Awaited(g)' = blocked'[g]
    <3>1. g # h /\ blocked[g] # Nothing /\ blocked'[g] = blocked[g] BY <2>2, <2>3, <2>4
    <3>2. QED BY <1>1, <3>1 DEF SleepInv
  <2>5. \A o \in Task : \A g \in waiting'[o] : g \in Thread /\ blocked'[g] # Nothing
    BY <2>1, <2>2 DEF SleepInv
  <2>6. \A p \in Thread : \A g \in signalling'[p] : g \in Thread /\ blocked'[g] # Nothing
    BY <2>1, <2>2 DEF SleepInv
  <2>7. \A g \in woken' : g \in Thread /\ blocked'[g] # Nothing
    BY <2>1, <2>2 DEF SleepInv
  <2>8. /\ blocked' = [g \in Thread |-> blocked'[g]]
        /\ waiting' = [o \in Task |-> waiting'[o]]
        /\ signalling' = [g \in Thread |-> signalling'[g]]
    BY <2>1 DEF SleepInv
  <2>9. QED BY <2>4, <2>5, <2>6, <2>7, <2>8 DEF SleepInv
<1>4. QED BY <1>2, <1>3 DEF Wakes

\* The object was there, or is when the wait is over.
LEMMA GotFacts ==
    ASSUME SleepInv, NEW h \in Thread, NEW o, Got(h, o)
    PROVE  Store!contains(o) /\ UNCHANGED store /\ Wakes(h)
BY DEF Got, Store!EndWait, Store!LeaveWait, osVars, Wakes
-----------------------------------------------------------------------------
(***************************************************************************)
(* The calls that are about to announce an object: it is always the call   *)
(* on top that does.                                                       *)
(***************************************************************************)
Announces(f, t, o) ==
    /\ f.at \in {"recheck", "finished", "announce"}
    /\ o \in ToSet(f.todo)
    /\ f.task \in {t, o}

OnTop(h, t, o) == stack[h] # <<>> /\ Announces(Top(h), t, o)

\* A thread that will announce o to t has that duty in its top frame.
LEMMA Announcer ==
    ASSUME StackInv, NEW h \in Thread, NEW t, NEW o, WillAnnounce(h, t, o)
    PROVE  OnTop(h, t, o)
<1>1. PICK i \in DOMAIN stack[h] : Announces(stack[h][i], t, o)
  BY DEF WillAnnounce, Announces
<1>2. stack[h] # <<>> BY <1>1, NoElement
<1>3. stack[h][i] \in {Top(h)} \cup Under(h)
  <2>1. stack[h][i] \in ToSet(stack[h]) BY DEF ToSet
  <2>2. QED BY <1>2, <2>1, TopFrame
<1>4. stack[h][i] \notin Under(h) BY <1>1, <1>2, TopFrame DEF Announces, Outer
<1>5. QED BY <1>1, <1>2, <1>3, <1>4 DEF OnTop

\* A top frame with that duty is a thread that will announce.
LEMMA AnnouncerNext ==
    ASSUME NEW h, StackOK(h)', NEW t, NEW o, OnTop(h, t, o)'
    PROVE  WillAnnounce(h, t, o)'
<1>1. IsSequence(stack'[h]) /\ stack'[h] # <<>> /\ Announces(stack'[h][1], t, o)
  BY DEF StackOK, OnTop, Top
<1>2. 1 \in DOMAIN stack'[h]
  <2>1. PICK n \in Nat : n = Len(stack'[h]) /\ n >= 1 BY <1>1, TailSequence
  <2>2. DOMAIN stack'[h] = 1 .. n BY <1>1, <2>1, SequenceOver DEF IsSequence
  <2>3. QED BY <2>1, <2>2
<1>3. QED BY <1>1, <1>2 DEF WillAnnounce, Announces

\* A step of h: what its call on top was about to announce it still is, or it
\* has announced it.
LEMMA MovedTriggers ==
    ASSUME StackInv, NoMissedTrigger, NEW h \in Thread,
           stack' = [stack EXCEPT ![h] = stack'[h]], StackOK(h)',
           \A t \in pending', o \in Task \ Fails :
               o \in unresolved'[t] /\ Store!contains(o)' =>
                   \/ OnTop(h, t, o)'
                   \/ /\ t \in pending /\ o \in unresolved[t] /\ Store!contains(o)
                      /\ ~ OnTop(h, t, o)
    PROVE  NoMissedTrigger'
<1>1. ASSUME NEW t \in pending', NEW o \in Task \ Fails,
             o \in unresolved'[t], Store!contains(o)'
      PROVE  \E g \in Thread : WillAnnounce(g, t, o)'
  <2>1. CASE OnTop(h, t, o)' BY <2>1, AnnouncerNext
  <2>2. CASE /\ t \in pending /\ o \in unresolved[t] /\ Store!contains(o)
             /\ ~ OnTop(h, t, o)
    <3>1. PICK g \in Thread : WillAnnounce(g, t, o)
      BY <2>2 DEF NoMissedTrigger, TriggerPending
    <3>2. g # h BY <2>2, <3>1, Announcer
    <3>3. stack'[g] = stack[g] BY <3>2 DEF StackInv
    <3>4. WillAnnounce(g, t, o)' BY <3>1, <3>3 DEF WillAnnounce
    <3>5. QED BY <3>4
  <2>3. QED BY <1>1, <2>1, <2>2
<1>2. QED BY <1>1 DEF NoMissedTrigger, TriggerPending

\* No trigger is lost when no object is stored and no task queued.
LEMMA StillTriggers ==
    ASSUME NoMissedTrigger, UNCHANGED <<pending, unresolved, stack>>,
           \A o \in Task : Store!contains(o)' => Store!contains(o)
    PROVE  NoMissedTrigger'
BY DEF NoMissedTrigger, TriggerPending, WillAnnounce

\* The collector is not about to record a result, or the step is not its.
LEMMA MovedStatus ==
    ASSUME StatusInv, StackInv, NEW h \in Thread, stack' = [stack EXCEPT ![h] = stack'[h]],
           stack[h] # <<>> => Top(h).at \notin {"finished", "failed"},
           UNCHANGED <<status, submitted, produced>>
    PROVE  StatusInv'
<1>1. ASSUME NEW t, Records(Collector, t) PROVE Records(Collector, t)'
  <2>1. Collector # h BY <1>1 DEF Records, At
  <2>2. stack'[Collector] = stack[Collector] BY <2>1 DEF StackInv, Thread
  <2>3. QED BY <1>1, <2>2 DEF Records, At, Top
<1>2. QED BY <1>1 DEF StatusInv, Produced

(***************************************************************************)
(* A step of a call that leaves the store as it is, announces nothing and  *)
(* records nothing.                                                        *)
(***************************************************************************)
LEMMA ThreadStep ==
    ASSUME RuntimeInv, NEW h \in Thread, stack' = [stack EXCEPT ![h] = stack'[h]],
           StackOK(h)', Wakes(h), UNCHANGED <<store, submitted, args, status, produced>>,
           UNCHANGED <<pending, unresolved>>, TaskInv', ValueInv', SchedInv',
           stack[h] # <<>> => Top(h).at \notin {"finished", "failed"},
           \A t, o : OnTop(h, t, o) /\ Store!contains(o) => OnTop(h, t, o)'
    PROVE  RuntimeInv'
<1>1. /\ TaskInv /\ StackInv /\ SleepInv /\ NoMissedTrigger /\ StatusInv
      /\ Grows
  BY GrowsSame DEF RuntimeInv
<1>2. StackInv' BY <1>1, MovedStack
<1>3. SleepInv' BY <1>1, MovedSleep
<1>4. \A t \in pending', o \in Task \ Fails :
          o \in unresolved'[t] /\ Store!contains(o)' =>
              \/ OnTop(h, t, o)'
              \/ /\ t \in pending /\ o \in unresolved[t] /\ Store!contains(o)
                 /\ ~ OnTop(h, t, o)
  BY DEF Store!contains
<1>5. NoMissedTrigger' BY <1>1, <1>4, MovedTriggers
<1>6. StatusInv' BY <1>1, MovedStatus
<1>7. QED BY <1>2, <1>3, <1>5, <1>6 DEF RuntimeInv

\* The whole invariant, when one thread moves and keeps what it owes.
LEMMA ThreadMoves ==
    ASSUME RuntimeInv, NEW h \in Thread, stack' = [stack EXCEPT ![h] = stack'[h]],
           StackOK(h)', Wakes(h), UNCHANGED store, UNCHANGED schedVars, UNCHANGED restVars,
           stack[h] # <<>> => Top(h).at \notin {"finished", "failed"},
           \A t, o : OnTop(h, t, o) /\ Store!contains(o) => OnTop(h, t, o)'
    PROVE  RuntimeInv'
<1>1. /\ UNCHANGED <<submitted, args, status, refs, gone, produced, evicts>>
      /\ UNCHANGED ipcVars /\ UNCHANGED <<pending, unresolved>>
  BY DEF restVars, tableVars, lifeVars, histVars, schedVars
<1>2. Grows BY <1>1, GrowsSame
<1>3. TaskInv' /\ ValueInv' /\ SchedInv'
  BY <1>1, <1>2, StaysTasks, StaysValues, StaysSched DEF RuntimeInv
<1>4. QED BY <1>1, <1>3, ThreadStep

\* A frame that does not announce anything.
LEMMA Silent ==
    ASSUME NEW h, stack[h] # <<>> => Top(h).at \notin {"recheck", "finished", "announce"}
    PROVE  \A t, o : ~ OnTop(h, t, o)
BY DEF OnTop, Announces
-----------------------------------------------------------------------------
(***************************************************************************)
(* The frames of the calls, as the code makes them.                        *)
(***************************************************************************)
\* A step that only moves the calls of one thread.
LEMMA OnlyStack ==
    ASSUME StackInv, NEW th \in Thread, NEW f, NEW g,
           Goto(th, f) \/ Call(th, f, g) \/ Return(th) \/ Enter(th, f)
    PROVE  stack' = [stack EXCEPT ![th] = stack'[th]]
BY DEF StackInv, Goto, Call, Return, Enter

\* The frames of flush, get and the waits are right for a submitted task.
LEMMA PlainFrame ==
    ASSUME NEW th, NEW at \in {"flush", "get", "awaitRebuilt", "read"}, NEW t \in submitted
    PROVE  /\ FrameOK(th, Frame(at, t, <<>>)) /\ Frame(at, t, <<>>).at = at
           /\ Frame(at, t, <<>>).task = t
<1> DEFINE f == Frame(at, t, <<>>)
<1>1. /\ f = [at |-> f.at, task |-> f.task, todo |-> f.todo, vals |-> f.vals]
      /\ f.at = at /\ f.task = t /\ f.todo = <<>>
  BY DEF Frame
<1> HIDE DEF f
<1>2. <<>> \in Seq(submitted) BY EmptySeq
<1>3. FrameOK(th, f) BY <1>1, <1>2 DEF FrameOK, CallOK, Label
<1>4. QED BY <1>1, <1>3 DEF f

\* So is the frame of a submit, which owes the recheck of its arguments.
LEMMA SubmittingFrame ==
    ASSUME NEW th, NEW t \in submitted, NEW todo \in Seq(submitted)
    PROVE  /\ FrameOK(th, Submitting(t, todo))
           /\ Submitting(t, todo).at \in {"flush", "recheck"}
           /\ \A s, o : o \in ToSet(todo) /\ t \in {s, o} => Announces(Submitting(t, todo), s, o)
<1> DEFINE f == Submitting(t, todo)
<1>1. /\ f = [at |-> f.at, task |-> f.task, todo |-> f.todo, vals |-> f.vals]
      /\ f.task = t /\ f.todo = todo /\ f.at = IF todo = <<>> THEN "flush" ELSE "recheck"
  BY DEF Submitting, Frame
<1> HIDE DEF f
<1>2. ToSet(<<>>) = {} BY NoElement
<1>3. FrameOK(th, f) BY <1>1 DEF FrameOK, CallOK, Label
<1>4. \A s, o : o \in ToSet(todo) /\ t \in {s, o} => Announces(f, s, o)
  BY <1>1, <1>2 DEF Announces
<1>5. QED BY <1>1, <1>3, <1>4 DEF f

\* So is the frame that resolves the arguments of a task.
LEMMA ResolvingFrame ==
    ASSUME TaskInv, NEW th, NEW t \in submitted,
           NEW at \in {"resolveFlush", "resolveRebuild"},
           at = "resolveFlush" => ArgsProduced(t)
    PROVE  FrameOK(th, Resolving(at, t)) /\ Resolving(at, t).at = at
<1>1. args[t] \in Seq(submitted) /\ Len(args[t]) \in Nat BY Arguments
<1> DEFINE f == Resolving(at, t)
<1>2. /\ f = [at |-> at, task |-> t, todo |-> args[t], vals |-> <<>>]
      /\ f.at = at /\ f.task = t /\ f.todo = args[t] /\ f.vals = <<>>
  BY DEF Resolving, Frame
<1>3. Partial(t, args[t], <<>>)
  <2>1. PICK n \in Nat : n = Len(args[t]) BY <1>1
  <2>2. 0 + n = n /\ \A i \in 1 .. n : 0 + i = i OBVIOUS
  <2>3. Len(<<>>) = 0 /\ IsSequence(<<>>) BY NoElement
  <2>4. \A i \in 1 .. 0 : FALSE OBVIOUS
  <2>5. QED BY <2>1, <2>2, <2>3, <2>4 DEF Partial
<1> HIDE DEF f
<1>4. FrameOK(th, f) BY <1>1, <1>2, <1>3 DEF FrameOK, CallOK, Label
<1>5. QED BY <1>2, <1>4 DEF f

\* So is the frame that rebuilds the arguments that are lost.
LEMMA RebuildingFrame ==
    ASSUME TaskInv, NEW th, NEW t \in submitted, NEW todo \in Seq(submitted)
    PROVE  /\ FrameOK(th, Rebuilding(t, todo))
           /\ Rebuilding(t, todo).at \in {"rebuild", "resolveRebuild"}
<1>1. CASE todo = <<>>
  <2>1. Rebuilding(t, todo) = Resolving("resolveRebuild", t) BY <1>1 DEF Rebuilding
  <2>2. QED BY <2>1, ResolvingFrame
<1>2. CASE todo # <<>>
  <2> DEFINE f == Rebuilding(t, todo)
  <2>1. /\ f = [at |-> f.at, task |-> f.task, todo |-> f.todo, vals |-> f.vals]
        /\ f.at = "rebuild" /\ f.task = t /\ f.todo = todo
    BY <1>2 DEF Rebuilding, Frame
  <2> HIDE DEF f
  <2>2. FrameOK(th, f) BY <1>2, <2>1 DEF FrameOK, CallOK, Label
  <2>3. QED BY <2>1, <2>2 DEF f
<1>3. QED BY <1>1, <1>2

\* get_object, with or without a rebuild.
LEMMA GettingStack ==
    ASSUME TaskInv, Grows, NEW th \in Thread, NEW o \in submitted,
           stack'[th] = Getting(o)
    PROVE  StackOK(th)'
<1>1. PICK f : f = Frame("read", o, <<>>) OBVIOUS
<1>2. FrameOK(th, f)' /\ f.at \in Outer BY <1>1, PlainFrame, StaysFrame DEF Outer
<1>3. CASE Store!contains(o)
  <2>1. stack'[th] = <<f>> BY <1>1, <1>3 DEF Getting
  <2>2. QED BY <1>2, <2>1, EnterOne
<1>4. CASE ~ Store!contains(o)
  <2>1. args[o] \in Seq(submitted) BY Arguments
  <2>2. PICK g : g = Rebuilding(o, args[o]) OBVIOUS
  <2>3. FrameOK(th, g)' BY <2>1, <2>2, RebuildingFrame, StaysFrame
  <2>4. stack'[th] = <<g, f>> BY <1>1, <1>4, <2>2 DEF Getting
  <2>5. QED BY <1>2, <2>3, <2>4, EnterTwo
<1>5. QED BY <1>3, <1>4
-----------------------------------------------------------------------------
(***************************************************************************)
(* The steps of a call that announce and record nothing.                   *)
(***************************************************************************)
LEMMA SilentMoves ==
    ASSUME RuntimeInv, NEW h \in Thread, stack' = [stack EXCEPT ![h] = stack'[h]],
           StackOK(h)', Wakes(h), UNCHANGED store, UNCHANGED schedVars, UNCHANGED restVars,
           stack[h] # <<>> => Top(h).at \notin {"recheck", "announce", "finished", "failed"}
    PROVE  RuntimeInv'
<1>1. \A t, o : ~ OnTop(h, t, o) BY Silent
<1>2. QED BY <1>1, ThreadMoves

\* Only the sleeping threads change.
LEMMA WaitingInv ==
    ASSUME RuntimeInv, UNCHANGED <<store, stack>>, UNCHANGED schedVars, UNCHANGED restVars,
           SleepInv'
    PROVE  RuntimeInv'
<1>1. /\ UNCHANGED <<submitted, args, status, refs, gone, produced, evicts>>
      /\ UNCHANGED ipcVars /\ UNCHANGED <<pending, unresolved>>
  BY DEF restVars, tableVars, lifeVars, histVars, schedVars
<1>2. Grows /\ TaskInv /\ ValueInv /\ StackInv /\ SchedInv /\ NoMissedTrigger /\ StatusInv
  BY <1>1, GrowsSame DEF RuntimeInv
<1>3. TaskInv' /\ ValueInv' /\ SchedInv'
  BY <1>1, <1>2, StaysTasks, StaysValues, StaysSched
<1>4. StackInv' BY <1>2, StillStacks
<1>5. NoMissedTrigger' BY <1>1, <1>2, StillTriggers DEF Store!contains
<1>6. StatusInv' BY <1>1, <1>2 DEF StatusInv, Records, At, Top, Produced
<1>7. QED BY <1>3, <1>4, <1>5, <1>6 DEF RuntimeInv

LEMMA BlockInv ==
    ASSUME RuntimeInv, NEW h \in Thread, Block(h)
    PROVE  RuntimeInv'
<1>1. PICK o : o = Awaited(h) /\ o # Nothing /\ stack[h] # <<>>
  BY DEF Block
<1>2. /\ blocked' = [blocked EXCEPT ![h] = o]
      /\ waiting' = [waiting EXCEPT ![o] = @ \cup {h}]
      /\ UNCHANGED <<store, signalling, woken, stack>> /\ UNCHANGED schedVars
      /\ UNCHANGED restVars
  BY <1>1 DEF Block, Store!StartWait
<1>3. SleepInv BY DEF RuntimeInv
<1>4. /\ blocked' = [g \in Thread |-> blocked'[g]] /\ blocked'[h] = o
      /\ \A g \in Thread : g # h => blocked'[g] = blocked[g]
      /\ \A g \in Thread : blocked[g] # Nothing => blocked'[g] # Nothing
  BY <1>1, <1>2, <1>3 DEF SleepInv
<1>5. /\ waiting' = [p \in Task |-> waiting'[p]]
      /\ \A p \in Task : waiting'[p] \subseteq waiting[p] \cup {h}
  BY <1>2, <1>3 DEF SleepInv
<1>6. ASSUME NEW g \in Thread, blocked'[g] # Nothing
      PROVE  stack'[g] # <<>> /\ Awaited(g)' = blocked'[g]
  <2>1. Awaited(g)' = Awaited(g) BY <1>2 DEF Awaited, Top, NextArg
  <2>2. CASE g = h BY <1>1, <1>2, <1>4, <2>1, <2>2
  <2>3. CASE g # h BY <1>2, <1>3, <1>4, <1>6, <2>1, <2>3 DEF SleepInv
  <2>4. QED BY <2>2, <2>3
<1>7. \A p \in Task : \A g \in waiting'[p] : g \in Thread /\ blocked'[g] # Nothing
  BY <1>1, <1>3, <1>4, <1>5 DEF SleepInv
<1>8. /\ \A p \in Thread : \A g \in signalling'[p] : g \in Thread /\ blocked'[g] # Nothing
      /\ \A g \in woken' : g \in Thread /\ blocked'[g] # Nothing
      /\ signalling' = [p \in Thread |-> signalling'[p]]
  BY <1>2, <1>3, <1>4 DEF SleepInv
<1>9. SleepInv'
  BY <1>4, <1>5, <1>6, <1>7, <1>8 DEF SleepInv
<1>10. QED BY <1>2, <1>9, WaitingInv

LEMMA SetEventInv ==
    ASSUME RuntimeInv, SetEvent
    PROVE  RuntimeInv'
<1>1. /\ woken' = woken \cup signalling[Collector]
      /\ signalling' = [signalling EXCEPT ![Collector] = {}]
      /\ UNCHANGED <<store, waiting, blocked, stack>> /\ UNCHANGED schedVars
      /\ UNCHANGED restVars
  BY DEF SetEvent, Store!PutSignal
<1>2. SleepInv /\ Collector \in Thread BY DEF RuntimeInv, Thread
<1>3. ASSUME NEW g \in Thread, blocked'[g] # Nothing
      PROVE  stack'[g] # <<>> /\ Awaited(g)' = blocked'[g]
  <2>1. Awaited(g)' = Awaited(g) BY <1>1 DEF Awaited, Top, NextArg
  <2>2. QED BY <1>1, <1>2, <1>3, <2>1 DEF SleepInv
<1>4. \A p \in Thread : signalling'[p] \subseteq signalling[p]
  BY <1>1, <1>2 DEF SleepInv
<1>5. signalling' = [p \in Thread |-> signalling'[p]] BY <1>1, <1>2 DEF SleepInv
<1>6. SleepInv' BY <1>1, <1>2, <1>3, <1>4, <1>5 DEF SleepInv
<1>7. QED BY <1>1, <1>6, WaitingInv

\* A thread sleeps only where resolve_args, a rebuild or a get needs an object.
LEMMA SleepsAt ==
    ASSUME RuntimeInv, NEW h \in Thread, blocked[h] # Nothing
    PROVE  /\ stack[h] # <<>>
           /\ Top(h).at \in {"resolveFlush", "resolveRebuild", "awaitRebuilt", "read"}
<1>1. stack[h] # <<>> /\ Awaited(h) # Nothing BY DEF RuntimeInv, SleepInv
<1>2. QED BY <1>1 DEF Awaited

LEMMA RaiseKeyErrorInv ==
    ASSUME RuntimeInv, NEW h \in Thread, RaiseKeyError(h)
    PROVE  RuntimeInv'
<1>1. /\ h \in woken /\ Store!LeaveWait(h) /\ stack' = [stack EXCEPT ![h] = <<>>]
      /\ gone' = gone \cup ({h} \cap {Collector})
      /\ UNCHANGED <<store, submitted, args, status, refs, produced, evicts>>
      /\ UNCHANGED ipcVars /\ UNCHANGED schedVars /\ UNCHANGED <<pending, unresolved>>
  BY DEF RaiseKeyError, Store!EndWait, Store!LeaveWait, tableVars, histVars, schedVars
<1>2. /\ TaskInv /\ ValueInv /\ StackInv /\ SleepInv /\ SchedInv /\ Grows
  BY <1>1, GrowsSame DEF RuntimeInv
<1>3. stack' = [stack EXCEPT ![h] = stack'[h]] /\ stack'[h] = <<>>
  BY <1>1, <1>2 DEF StackInv
<1>4. StackOK(h)' BY <1>3, NoElement DEF StackOK
<1>5. Wakes(h) /\ blocked[h] # Nothing BY <1>1, <1>2 DEF Wakes, SleepInv
<1>6. stack[h] # <<>> => Top(h).at \notin {"recheck", "announce", "finished", "failed"}
  BY <1>5, SleepsAt
<1>7. \A t, o : ~ OnTop(h, t, o) BY <1>6, Silent
<1>8. TaskInv' BY <1>1, <1>2 DEF TaskInv
<1>9. ValueInv' /\ SchedInv' BY <1>1, <1>2, StaysValues, StaysSched
<1>10. QED BY <1>1, <1>3, <1>4, <1>5, <1>6, <1>7, <1>8, <1>9, ThreadStep
-----------------------------------------------------------------------------
(***************************************************************************)
(* resolve_args, one argument after the other, and the task is sent.       *)
(***************************************************************************)
LEMMA ResolvedFrame ==
    ASSUME TaskInv, NEW th, NEW f, FrameOK(th, f),
           f.at \in {"resolveFlush", "resolveRebuild"}, f.todo # <<>>,
           Produced(Head(f.todo)), NEW v, v = produced[Head(f.todo)]
    PROVE  FrameOK(th, Resolved(f, v))
<1> DEFINE g == Resolved(f, v)
           t == f.task
           s == f.todo
           a == f.vals
<1>1. /\ f = [at |-> f.at, task |-> t, todo |-> s, vals |-> a]
      /\ t \in submitted /\ s \in Seq(submitted) /\ Partial(t, s, a)
      /\ f.at = "resolveFlush" => ArgsProduced(t)
  BY DEF FrameOK, CallOK
<1>2. /\ g = [at |-> f.at, task |-> t, todo |-> Tail(s), vals |-> Append(a, v)]
      /\ g.at = f.at /\ g.task = t /\ g.todo = Tail(s) /\ g.vals = Append(a, v)
  <2>1. PICK x, y : x = Tail(s) /\ y = Append(a, v) OBVIOUS
  <2>2. PICK e : e = [f EXCEPT !.todo = x] OBVIOUS
  <2>3. e = [at |-> f.at, task |-> t, todo |-> x, vals |-> a] BY <1>1, <2>2
  <2>4. g = [e EXCEPT !.vals = y] BY <2>1, <2>2 DEF Resolved
  <2>5. QED BY <2>1, <2>3, <2>4
<1>3. /\ IsSequence(a) /\ Len(a) \in Nat /\ IsSequence(s) /\ Len(s) \in Nat
      /\ Len(args[t]) \in Nat /\ Len(a) + Len(s) = Len(args[t])
  BY <1>1, Arguments, SequenceOver DEF Partial, IsSequence
<1>4. Tail(s) \in Seq(submitted) BY <1>1, SplitElements
<1>5. /\ Len(s) >= 1 /\ Len(Tail(s)) = Len(s) - 1 /\ Head(s) = s[1]
      /\ \A i \in 1 .. Len(s) - 1 : Tail(s)[i] = s[i + 1]
  BY <1>3, TailSequence
<1>6. /\ IsSequence(Append(a, v)) /\ Len(Append(a, v)) = Len(a) + 1
      /\ Append(a, v)[Len(a) + 1] = v
      /\ \A i \in 1 .. Len(a) : Append(a, v)[i] = a[i]
  BY <1>3, AppendSequence
<1>7. PICK m \in Nat, n \in Nat, l \in Nat : m = Len(a) /\ n = Len(s) /\ l = Len(args[t])
  BY <1>3
<1>8. m + n = l /\ n >= 1 /\ 1 \in 1 .. n
  <2>1. m + n = l BY <1>3, <1>7, Zenon
  <2>2. n >= 1 BY <1>5, <1>7, Zenon
  <2>3. QED BY <2>1, <2>2
<1>9. Produced(args[t][m + 1]) /\ v = produced[args[t][m + 1]]
  <2>1. s[1] = args[t][m + 1] BY <1>1, <1>7, <1>8 DEF Partial
  <2>2. QED BY <1>5, <2>1
<1>10. Partial(t, Tail(s), Append(a, v))
  <2>1. Len(Append(a, v)) + Len(Tail(s)) = Len(args[t])
    <3>1. Len(Append(a, v)) = m + 1 /\ Len(Tail(s)) = n - 1 BY <1>5, <1>6, <1>7
    <3>2. (m + 1) + (n - 1) = l BY <1>8, TwoParts
    <3>3. QED BY <1>7, <3>1, <3>2
  <2>2. ASSUME NEW i \in 1 .. m + 1
        PROVE  Produced(args[t][i]) /\ Append(a, v)[i] = produced[args[t][i]]
    <3>1. CASE i = m + 1 BY <1>6, <1>7, <1>9, <3>1
    <3>2. CASE i \in 1 .. m
      <4>1. Produced(args[t][i]) /\ a[i] = produced[args[t][i]]
        BY <1>1, <1>7, <3>2 DEF Partial
      <4>2. QED BY <1>6, <1>7, <3>2, <4>1
    <3>3. i = m + 1 \/ i \in 1 .. m OBVIOUS
    <3>4. QED BY <3>1, <3>2, <3>3
  <2>3. ASSUME NEW i \in 1 .. n - 1 PROVE Tail(s)[i] = args[t][(m + 1) + i]
    <3>1. i + 1 \in 1 .. n /\ (m + 1) + i = m + (i + 1) BY <1>8, TwoParts
    <3>2. s[i + 1] = args[t][m + (i + 1)] BY <1>1, <1>7, <3>1 DEF Partial
    <3>3. QED BY <1>5, <1>7, <3>1, <3>2
  <2>4. Len(Append(a, v)) = m + 1 /\ Len(Tail(s)) = n - 1 BY <1>5, <1>6, <1>7
  <2> HIDE DEF s, a, t
  <2>5. QED BY <1>6, <2>1, <2>2, <2>3, <2>4 DEF Partial
<1> HIDE DEF g
<1>11. FrameOK(th, g)
  BY <1>1, <1>2, <1>4, <1>10 DEF FrameOK, CallOK, Label
<1>12. QED BY <1>11 DEF g

LEMMA ResolveArgInv ==
    ASSUME RuntimeInv, NEW h \in Thread, ResolveArg(h)
    PROVE  RuntimeInv'
<1>1. PICK f, o, v : f = Top(h) /\ o = Head(f.todo) /\ v = store[o] OBVIOUS
<1>2. /\ At(h, "resolveFlush") \/ At(h, "resolveRebuild")
      /\ f.todo # <<>> /\ Got(h, o) /\ Goto(h, Resolved(f, v))
      /\ UNCHANGED schedVars /\ UNCHANGED restVars
  BY <1>1 DEF ResolveArg, NextArg
<1>3. /\ TaskInv /\ ValueInv /\ StackInv /\ SleepInv /\ Grows
      /\ UNCHANGED <<submitted, args, produced>>
  BY <1>2, GrowsSame DEF RuntimeInv, restVars, tableVars, histVars
<1>4. /\ stack[h] # <<>> /\ FrameOK(h, f) /\ f.todo \in Seq(submitted)
      /\ f.at \in {"resolveFlush", "resolveRebuild"}
  BY <1>1, <1>2, <1>3, AtFrame, TopFrame DEF CallOK
<1>5. Store!contains(o) /\ UNCHANGED store /\ Wakes(h) BY <1>2, <1>3, GotFacts
<1>6. Produced(o) /\ v = produced[o]
  <2>1. o \in Task BY <1>1, <1>2, <1>3, <1>4, SplitElements DEF TaskInv
  <2>2. QED BY <1>1, <1>3, <1>5, <2>1 DEF ValueInv, Produced, Store!contains
<1>7. FrameOK(h, Resolved(f, v))' BY <1>1, <1>2, <1>3, <1>4, <1>6, ResolvedFrame, StaysFrame
<1>8. StackOK(h)' BY <1>2, <1>3, <1>4, <1>7, GotoStack
<1>9. stack' = [stack EXCEPT ![h] = stack'[h]] BY <1>2, <1>3, OnlyStack
<1>10. QED BY <1>1, <1>2, <1>4, <1>5, <1>8, <1>9, SilentMoves

\* When nothing is left to resolve, the task can be called.
LEMMA ResolvedAll ==
    ASSUME TaskInv, NEW t \in submitted, NEW vals, Partial(t, <<>>, vals)
    PROVE  Called(t, vals)
<1>1. IsSequence(vals) BY DEF Partial
<1>2. /\ Len(args[t]) \in Nat /\ DOMAIN args[t] = 1 .. Len(args[t])
  BY <1>1, Arguments
<1>3. /\ Len(vals) \in Nat /\ DOMAIN vals = 1 .. Len(vals)
      /\ vals = [i \in DOMAIN vals |-> vals[i]]
  BY <1>1, LenProperties DEF IsSequence
<1>4. Len(vals) = Len(args[t])
  <2>1. Len(vals) + 0 = Len(args[t]) BY NoElement DEF Partial
  <2>2. PICK m \in Nat : m = Len(vals) BY <1>3
  <2>3. m + 0 = m OBVIOUS
  <2>4. QED BY <2>1, <2>2, <2>3
<1>5. \A i \in DOMAIN vals : Produced(args[t][i]) /\ vals[i] = produced[args[t][i]]
  BY <1>3 DEF Partial
<1>6. vals = [i \in DOMAIN args[t] |-> produced[args[t][i]]] BY <1>2, <1>3, <1>4, <1>5
<1>7. \A d \in ToSet(args[t]) : Produced(d)
  BY <1>2, <1>3, <1>4, <1>5 DEF ToSet
<1>8. QED BY <1>6, <1>7 DEF Called, ArgsProduced, ArgValues

LEMMA SendTaskInv ==
    ASSUME RuntimeInv, NEW h \in Thread, SendTask(h)
    PROVE  RuntimeInv'
<1>1. PICK f, e : f = Top(h) /\ e = <<f.task, f.vals>> OBVIOUS
<1>2. /\ At(h, "resolveFlush") \/ At(h, "resolveRebuild")
      /\ f.todo = <<>> /\ taskQueue' = Append(taskQueue, e)
      /\ Return(h) \/ Goto(h, Frame("awaitRebuilt", f.task, <<>>))
      /\ UNCHANGED osVars /\ UNCHANGED schedVars
      /\ UNCHANGED <<submitted, args, status, refs, running, resultQueue, gone>>
      /\ UNCHANGED <<produced, evicts>>
  BY <1>1 DEF SendTask, tableVars, lifeVars, histVars
<1>3. TaskInv /\ ValueInv /\ StackInv /\ SleepInv /\ SchedInv /\ Grows
  BY <1>2, GrowsSame DEF RuntimeInv
<1>4. /\ stack[h] # <<>> /\ CallOK(h, f) /\ f.task \in submitted
      /\ f.at \in {"resolveFlush", "resolveRebuild"}
  BY <1>1, <1>2, <1>3, AtFrame DEF CallOK
<1>5. StackOK(h)'
  <2>1. CASE Return(h) BY <1>3, <1>4, <2>1, ReturnStack
  <2>2. CASE Goto(h, Frame("awaitRebuilt", f.task, <<>>))
    <3>1. PICK g : g = Frame("awaitRebuilt", f.task, <<>>) OBVIOUS
    <3>2. FrameOK(h, g)' BY <1>3, <1>4, <3>1, PlainFrame, StaysFrame
    <3>3. QED BY <1>3, <1>4, <2>2, <3>1, <3>2, GotoStack
  <2>3. QED BY <1>2, <2>1, <2>2
<1>6. stack' = [stack EXCEPT ![h] = stack'[h]] BY <1>2, <1>3, OnlyStack
<1>7. blocked[h] = Nothing
  <2>1. Awaited(h) = Nothing BY <1>1, <1>2, <1>4 DEF Awaited
  <2>2. QED BY <1>3, <2>1, Awake
<1>8. Called(f.task, f.vals) BY <1>2, <1>3, <1>4, ResolvedAll DEF CallOK
<1>9. IsSequence(taskQueue') /\ ToSet(taskQueue') = ToSet(taskQueue) \cup {e}
  BY <1>2, <1>3, AppendSequence DEF ValueInv
<1>10. Called(e[1], e[2])'
  <2>1. Called(f.task, f.vals)' BY <1>3, <1>8, StaysCalled
  <2>2. e[1] = f.task /\ e[2] = f.vals BY <1>1
  <2>3. QED BY <2>1, <2>2
<1>11. ASSUME NEW d \in ToSet(taskQueue') PROVE d = Sentinel \/ Called(d[1], d[2])'
  <2>1. CASE d = e BY <1>10, <2>1
  <2>2. CASE d \in ToSet(taskQueue) BY <1>3, <2>2, StaysCalled DEF ValueInv
  <2>3. QED BY <1>9, <2>1, <2>2
<1>12. ValueInv' BY <1>2, <1>3, <1>9, <1>11, QueuedValues DEF osVars
<1>13. TaskInv' /\ SchedInv' BY <1>2, <1>3, StaysTasks, StaysSched
<1>14. \A t, o : ~ OnTop(h, t, o) BY <1>1, <1>4, Silent
<1>15. QED
  BY <1>1, <1>2, <1>4, <1>5, <1>6, <1>7, <1>12, <1>13, <1>14, ThreadStep
     DEF Wakes, osVars, schedVars
-----------------------------------------------------------------------------
(***************************************************************************)
(* get_object, reconstruct_object and wait.                                *)
(***************************************************************************)
LEMMA GetObjectInv ==
    ASSUME RuntimeInv, NEW u \in Thread, NEW o \in submitted, GetObject(u, o)
    PROVE  RuntimeInv'
<1>1. /\ stack[u] = <<>> /\ Enter(u, Getting(o))
      /\ UNCHANGED osVars /\ UNCHANGED schedVars /\ UNCHANGED restVars
  BY DEF GetObject, Enter
<1>2. TaskInv /\ StackInv /\ SleepInv /\ Grows
  BY <1>1, GrowsSame DEF RuntimeInv, restVars, tableVars, histVars
<1>3. stack' = [stack EXCEPT ![u] = stack'[u]] /\ stack'[u] = Getting(o)
  BY <1>1, <1>2 DEF Enter, StackInv
<1>4. StackOK(u)' BY <1>2, <1>3, GettingStack
<1>5. Wakes(u) /\ UNCHANGED store BY <1>1, <1>2, Awake DEF Wakes, osVars
<1>6. QED BY <1>1, <1>3, <1>4, <1>5, SilentMoves

LEMMA GetRebuiltInv ==
    ASSUME RuntimeInv, NEW u \in Thread, GetRebuilt(u)
    PROVE  RuntimeInv'
<1>1. PICK f : f = Top(u) OBVIOUS
<1>2. /\ At(u, "get") /\ stack' = [stack EXCEPT ![u] = Getting(f.task)]
      /\ UNCHANGED osVars /\ UNCHANGED schedVars /\ UNCHANGED restVars
  BY <1>1 DEF GetRebuilt
<1>3. TaskInv /\ StackInv /\ SleepInv /\ Grows
  BY <1>2, GrowsSame DEF RuntimeInv, restVars, tableVars, histVars
<1>4. f.at = "get" /\ f.task \in submitted BY <1>1, <1>2, <1>3, AtFrame DEF CallOK
<1>5. stack' = [stack EXCEPT ![u] = stack'[u]] /\ stack'[u] = Getting(f.task)
  BY <1>2, <1>3 DEF StackInv
<1>6. StackOK(u)' BY <1>3, <1>4, <1>5, GettingStack
<1>7. Wakes(u) /\ UNCHANGED store
  BY <1>2, <1>3, AwakeAt DEF Wakes, osVars, Sleepless, Label
<1>8. QED BY <1>1, <1>2, <1>4, <1>5, <1>6, <1>7, SilentMoves

LEMMA ReconstructInv ==
    ASSUME RuntimeInv, NEW u \in Thread, NEW o \in submitted, Reconstruct(u, o)
    PROVE  RuntimeInv'
<1>1. PICK f, g : f = Rebuilding(o, args[o]) /\ g = Frame("get", o, <<>>) OBVIOUS
<1>2. /\ stack[u] = <<>> /\ Enter(u, <<f, g>>)
      /\ UNCHANGED osVars /\ UNCHANGED schedVars /\ UNCHANGED restVars
  BY <1>1 DEF Reconstruct, Enter
<1>3. TaskInv /\ StackInv /\ SleepInv /\ Grows
  BY <1>2, GrowsSame DEF RuntimeInv, restVars, tableVars, histVars
<1>4. stack' = [stack EXCEPT ![u] = stack'[u]] /\ stack'[u] = <<f, g>>
  BY <1>2, <1>3 DEF Enter, StackInv
<1>5. args[o] \in Seq(submitted) BY <1>3, Arguments
<1>6. FrameOK(u, f)' BY <1>1, <1>3, <1>5, RebuildingFrame, StaysFrame
<1>7. FrameOK(u, g)' /\ g.at \in Outer BY <1>1, <1>3, PlainFrame, StaysFrame DEF Outer
<1>8. StackOK(u)' BY <1>4, <1>6, <1>7, EnterTwo
<1>9. Wakes(u) /\ UNCHANGED store BY <1>2, <1>3, Awake DEF Wakes, osVars
<1>10. QED BY <1>2, <1>4, <1>8, <1>9, SilentMoves

LEMMA RebuildDepInv ==
    ASSUME RuntimeInv, NEW u \in Thread, RebuildDep(u)
    PROVE  RuntimeInv'
<1>1. PICK f, d, rest, g :
          /\ f = Top(u) /\ d = Head(f.todo) /\ rest = Rebuilding(f.task, Tail(f.todo))
          /\ g = Rebuilding(d, args[d])
  OBVIOUS
<1>2. /\ At(u, "rebuild")
      /\ Goto(u, rest) \/ Call(u, g, rest)
      /\ UNCHANGED osVars /\ UNCHANGED schedVars /\ UNCHANGED restVars
  BY <1>1 DEF RebuildDep, NextArg
<1>3. TaskInv /\ StackInv /\ SleepInv /\ Grows
  BY <1>2, GrowsSame DEF RuntimeInv, restVars, tableVars, histVars
<1>4. /\ stack[u] # <<>> /\ f.at = "rebuild" /\ f.task \in submitted
      /\ f.todo \in Seq(submitted) /\ f.todo # <<>>
  BY <1>1, <1>2, <1>3, AtFrame DEF CallOK
<1>5. d \in submitted /\ Tail(f.todo) \in Seq(submitted) BY <1>1, <1>4, SplitElements
<1>6. FrameOK(u, rest)' /\ rest.at \in Outer
  BY <1>1, <1>3, <1>4, <1>5, RebuildingFrame, StaysFrame DEF Outer
<1>7. FrameOK(u, g)' BY <1>1, <1>3, <1>5, Arguments, RebuildingFrame, StaysFrame
<1>8. StackOK(u)'
  <2>1. CASE Goto(u, rest) BY <1>3, <1>4, <1>6, <2>1, GotoStack
  <2>2. CASE Call(u, g, rest) BY <1>3, <1>4, <1>6, <1>7, <2>2, CallStack2
  <2>3. QED BY <1>2, <2>1, <2>2
<1>9. stack' = [stack EXCEPT ![u] = stack'[u]] BY <1>2, <1>3, OnlyStack
<1>10. Wakes(u) /\ UNCHANGED store
  BY <1>2, <1>3, AwakeAt DEF Wakes, osVars, Sleepless, Label
<1>11. QED BY <1>1, <1>2, <1>4, <1>8, <1>9, <1>10, SilentMoves

\* A rebuild or a get ends, with its object or at the timeout.
LEMMA EndCallInv ==
    ASSUME RuntimeInv, NEW u \in Thread, EndCall(u) \/ TimeoutRead(u)
    PROVE  RuntimeInv'
<1>1. /\ At(u, "awaitRebuilt") \/ At(u, "read")
      /\ Return(u) /\ UNCHANGED schedVars /\ UNCHANGED restVars
  BY DEF EndCall, TimeoutRead
<1>2. TaskInv /\ StackInv /\ SleepInv /\ Grows
  BY <1>1, GrowsSame DEF RuntimeInv, restVars, tableVars, histVars
<1>3. Wakes(u) /\ UNCHANGED store
  <2>1. CASE EndCall(u) BY <1>2, <2>1, GotFacts DEF EndCall
  <2>2. CASE TimeoutRead(u)
    BY <2>2 DEF TimeoutRead, Store!TimeoutWait, Store!LeaveWait, Wakes
  <2>3. QED BY <2>1, <2>2
<1>4. stack[u] # <<>> /\ Top(u).at \in {"awaitRebuilt", "read"} BY <1>1 DEF At
<1>5. StackOK(u)' BY <1>1, <1>2, <1>4, ReturnStack
<1>6. stack' = [stack EXCEPT ![u] = stack'[u]] BY <1>1, <1>2, OnlyStack
<1>7. QED BY <1>1, <1>3, <1>4, <1>5, <1>6, SilentMoves

LEMMA WaitInv ==
    ASSUME RuntimeInv, NEW u \in Thread, NEW s \in Seq(submitted), NEW k, Wait(u, s, k)
    PROVE  RuntimeInv'
<1>1. PICK f : f = [at |-> "wait", of |-> s, num_returns |-> k, expired |-> FALSE,
                    todo |-> s, ready |-> <<>>, remaining |-> <<>>]
  OBVIOUS
<1>2. /\ stack[u] = <<>> /\ Enter(u, <<f>>)
      /\ UNCHANGED osVars /\ UNCHANGED schedVars /\ UNCHANGED restVars
  BY <1>1 DEF Wait, Enter
<1>3. TaskInv /\ StackInv /\ SleepInv /\ Grows
  BY <1>2, GrowsSame DEF RuntimeInv, restVars, tableVars, histVars
<1>4. stack' = [stack EXCEPT ![u] = stack'[u]] /\ stack'[u] = <<f>>
  BY <1>2, <1>3 DEF Enter, StackInv
<1>5. FrameOK(u, f)
  <2>1. \A o : Times(s, o) = Times(<<>>, o) + Times(<<>>, o) + Times(s, o)
    <3> TAKE o
    <3>1. Times(<<>>, o) = 0 BY TimesEmpty
    <3>2. PICK n \in Nat : n = Times(s, o) BY TimesFinite
    <3>3. n = 0 + 0 + n OBVIOUS
    <3>4. QED BY <3>1, <3>2, <3>3
  <2>2. <<>> \in Seq(submitted) /\ ToSet(<<>>) = {} BY EmptySeq, NoElement
  <2>3. WaitOK(f) BY <1>1, <2>1, <2>2 DEF WaitOK
  <2>4. QED BY <1>1, <2>3 DEF FrameOK
<1>6. StackOK(u)' BY <1>3, <1>4, <1>5, StaysFrame, EnterOne
<1>7. Wakes(u) /\ UNCHANGED store BY <1>2, <1>3, Awake DEF Wakes, osVars
<1>8. QED BY <1>2, <1>4, <1>6, <1>7, SilentMoves

\* A look at the next ObjectRef: it goes to one of the two lists.
LEMMA LookedFrame ==
    ASSUME TaskInv, ValueInv, NEW th, NEW f, f.at = "wait", FrameOK(th, f)
    PROVE  FrameOK(th, Looked(f)) /\ Looked(f).at = "wait"
<1>1. CASE f.todo = <<>> BY <1>1 DEF Looked
<1>2. CASE f.todo # <<>>
  <2>1. WaitOK(f) BY DEF FrameOK
  <2>2. PICK o, s, p, q : /\ o = Head(f.todo) /\ s = Tail(f.todo)
                          /\ p = Append(f.ready, o) /\ q = Append(f.remaining, o)
    OBVIOUS
  <2>3. o \in submitted /\ s \in Seq(submitted) /\ o \in Task
    BY <1>2, <2>1, <2>2, SplitElements DEF WaitOK, TaskInv
  <2>4. /\ p \in Seq(submitted) /\ ToSet(p) = ToSet(f.ready) \cup {o}
        /\ q \in Seq(submitted)
    BY <2>1, <2>2, <2>3, AppendElements, AppendProperties DEF WaitOK
  <2>5. ASSUME NEW a \in Task
        PROVE  /\ Times(f.of, a) = Times(p, a) + Times(f.remaining, a) + Times(s, a)
               /\ Times(f.of, a) = Times(f.ready, a) + Times(q, a) + Times(s, a)
    <3>1. PICK i \in Nat, j \in Nat, m \in Nat, n \in Nat :
              i = Times(f.ready, a) /\ j = Times(f.remaining, a) /\ m = Times(f.todo, a)
              /\ n = Times(s, a)
      BY <2>1, <2>3, TimesFinite DEF WaitOK
    <3>2. PICK k \in Nat, l \in Nat : k = Times(p, a) /\ l = Times(q, a)
      BY <2>4, TimesFinite
    <3>3. k + n = i + m /\ l + n = j + m
      BY <1>2, <2>1, <2>2, <3>1, <3>2, TimesMoved DEF WaitOK
    <3>4. Times(f.of, a) = i + j + m BY <2>1, <3>1 DEF WaitOK
    <3>5. i + j + m = k + j + n /\ i + j + m = i + l + n BY <3>3
    <3>6. QED BY <3>1, <3>2, <3>4, <3>5
  <2>6. CASE Store!contains(o)
    <3>1. PICK g : g = Looked(f) OBVIOUS
    <3>2. g = [at |-> "wait", of |-> f.of, num_returns |-> f.num_returns,
               expired |-> f.expired, todo |-> s, ready |-> p, remaining |-> f.remaining]
      <4>1. PICK e : e = [f EXCEPT !.todo = s] OBVIOUS
      <4>2. e = [at |-> "wait", of |-> f.of, num_returns |-> f.num_returns,
                 expired |-> f.expired, todo |-> s, ready |-> f.ready,
                 remaining |-> f.remaining]
        BY <2>1, <4>1 DEF WaitOK
      <4>3. g = [e EXCEPT !.ready = p]
        BY <1>2, <2>2, <2>6, <3>1, <4>1 DEF Looked
      <4>4. QED BY <4>2, <4>3
    <3>3. Produced(o) BY <2>3, <2>6 DEF ValueInv, Produced, Store!contains
    <3>4. \A a \in ToSet(p) : Produced(a) BY <2>1, <2>4, <3>3 DEF WaitOK
    <3>5. WaitOK(g) BY <2>1, <2>3, <2>4, <2>5, <3>2, <3>4 DEF WaitOK
    <3>6. g.at = "wait" BY <3>2
    <3>7. QED BY <3>1, <3>5, <3>6 DEF FrameOK
  <2>7. CASE ~ Store!contains(o)
    <3>1. PICK g : g = Looked(f) OBVIOUS
    <3>2. g = [at |-> "wait", of |-> f.of, num_returns |-> f.num_returns,
               expired |-> f.expired, todo |-> s, ready |-> f.ready, remaining |-> q]
      <4>1. PICK e : e = [f EXCEPT !.todo = s] OBVIOUS
      <4>2. e = [at |-> "wait", of |-> f.of, num_returns |-> f.num_returns,
                 expired |-> f.expired, todo |-> s, ready |-> f.ready,
                 remaining |-> f.remaining]
        BY <2>1, <4>1 DEF WaitOK
      <4>3. g = [e EXCEPT !.remaining = q]
        BY <1>2, <2>2, <2>7, <3>1, <4>1 DEF Looked
      <4>4. QED BY <4>2, <4>3
    <3>3. WaitOK(g) BY <2>1, <2>3, <2>4, <2>5, <3>2 DEF WaitOK
    <3>4. g.at = "wait" BY <3>2
    <3>5. QED BY <3>1, <3>3, <3>4 DEF FrameOK
  <2>8. QED BY <2>6, <2>7
<1>3. QED BY <1>1, <1>2

\* A new round of wait looks again at what remains.
LEMMA NextRoundFrame ==
    ASSUME NEW th, NEW f, f.at = "wait", FrameOK(th, f), f.todo = <<>>
    PROVE  FrameOK(th, NextRound(f))
<1>1. WaitOK(f) BY DEF FrameOK
<1>2. PICK g : g = NextRound(f) OBVIOUS
<1>3. g = [at |-> "wait", of |-> f.of, num_returns |-> f.num_returns,
           expired |-> f.expired, todo |-> f.remaining, ready |-> f.ready,
           remaining |-> <<>>]
  <2>1. PICK e : e = [f EXCEPT !.todo = f.remaining] OBVIOUS
  <2>2. e = [at |-> "wait", of |-> f.of, num_returns |-> f.num_returns,
             expired |-> f.expired, todo |-> f.remaining, ready |-> f.ready,
             remaining |-> f.remaining]
    BY <1>1, <2>1 DEF WaitOK
  <2>3. g = [e EXCEPT !.remaining = <<>>] BY <1>2, <2>1 DEF NextRound
  <2>4. QED BY <2>2, <2>3
<1>4. ASSUME NEW a \in Task
      PROVE  Times(f.of, a) = Times(f.ready, a) + Times(<<>>, a) + Times(f.remaining, a)
  <2>1. Times(<<>>, a) = 0 /\ Times(f.todo, a) = 0 BY TimesEmpty
  <2>2. PICK i \in Nat, j \in Nat : i = Times(f.ready, a) /\ j = Times(f.remaining, a)
    BY <1>1, TimesFinite DEF WaitOK
  <2>3. Times(f.of, a) = i + j + 0 BY <1>1, <2>1, <2>2 DEF WaitOK
  <2>4. i + j + 0 = i + 0 + j OBVIOUS
  <2>5. QED BY <2>1, <2>2, <2>3, <2>4
<1>5. <<>> \in Seq(submitted) BY EmptySeq
<1>6. WaitOK(g) BY <1>1, <1>3, <1>4, <1>5 DEF WaitOK
<1>7. g.at = "wait" BY <1>3
<1>8. QED BY <1>2, <1>6, <1>7 DEF FrameOK

LEMMA WaitLookInv ==
    ASSUME RuntimeInv, NEW u \in Thread, WaitLook(u) \/ DeadlinePasses(u)
    PROVE  RuntimeInv'
<1>1. PICK f, g, e : f = Top(u) /\ g = Looked(f) /\ e = [f EXCEPT !.expired = TRUE] OBVIOUS
<1>2. /\ At(u, "wait")
      /\ \/ Goto(u, g) \/ Return(u) \/ Goto(u, e)
         \/ g.todo = <<>> /\ Goto(u, NextRound(g))
      /\ UNCHANGED osVars /\ UNCHANGED schedVars /\ UNCHANGED restVars
  <2>1. CASE WaitLook(u)
    <3>1. At(u, "wait") /\ UNCHANGED osVars /\ UNCHANGED schedVars /\ UNCHANGED restVars
      BY <2>1 DEF WaitLook
    <3>2. (CASE g.todo # <<>> -> Goto(u, g)
             [] g.todo = <<>> /\ Enough(g) -> Return(u)
             [] OTHER -> Goto(u, NextRound(g)))
      BY <1>1, <2>1 DEF WaitLook
    <3>3. Goto(u, g) \/ Return(u) \/ (g.todo = <<>> /\ Goto(u, NextRound(g)))
      <4>1. CASE g.todo # <<>> BY <3>2, <4>1
      <4>2. CASE g.todo = <<>> /\ Enough(g) BY <3>2, <4>2
      <4>3. CASE g.todo = <<>> /\ ~ Enough(g) BY <3>2, <4>3
      <4>4. QED BY <4>1, <4>2, <4>3
    <3>4. QED BY <3>1, <3>3
  <2>2. CASE DeadlinePasses(u) BY <1>1, <2>2 DEF DeadlinePasses
  <2>3. QED BY <2>1, <2>2
<1>3. TaskInv /\ ValueInv /\ StackInv /\ SleepInv /\ Grows
  BY <1>2, GrowsSame DEF RuntimeInv, restVars, tableVars, histVars
<1>4. stack[u] # <<>> /\ f.at = "wait" /\ FrameOK(u, f)
  BY <1>1, <1>2, <1>3, TopFrame DEF At
<1>5. FrameOK(u, g)' /\ FrameOK(u, g) /\ g.at = "wait"
  BY <1>1, <1>3, <1>4, LookedFrame, StaysFrame
<1>6. FrameOK(u, e)'
  <2>1. WaitOK(f) BY <1>4 DEF FrameOK
  <2>2. e = [at |-> "wait", of |-> f.of, num_returns |-> f.num_returns,
             expired |-> TRUE, todo |-> f.todo, ready |-> f.ready,
             remaining |-> f.remaining]
    BY <1>1, <1>4, <2>1 DEF WaitOK
  <2>3. WaitOK(e) /\ e.at = "wait" BY <2>1, <2>2 DEF WaitOK
  <2>4. QED BY <1>3, <2>3, StaysFrame DEF FrameOK
<1>7. StackOK(u)'
  <2>1. CASE Goto(u, g) BY <1>3, <1>4, <1>5, <2>1, GotoStack
  <2>2. CASE Return(u) BY <1>3, <1>4, <2>2, ReturnStack
  <2>3. CASE g.todo = <<>> /\ Goto(u, NextRound(g))
    <3>1. FrameOK(u, NextRound(g))' BY <1>3, <1>5, <2>3, NextRoundFrame, StaysFrame
    <3>2. QED BY <1>3, <1>4, <2>3, <3>1, GotoStack
  <2>4. CASE Goto(u, e) BY <1>3, <1>4, <1>6, <2>4, GotoStack
  <2>5. QED BY <1>2, <2>1, <2>2, <2>3, <2>4
<1>8. stack' = [stack EXCEPT ![u] = stack'[u]] BY <1>2, <1>3, OnlyStack
<1>9. Wakes(u) /\ UNCHANGED store
  BY <1>2, <1>3, AwakeAt DEF Wakes, osVars, Sleepless, Label
<1>10. QED BY <1>1, <1>2, <1>4, <1>7, <1>8, <1>9, SilentMoves
-----------------------------------------------------------------------------
(***************************************************************************)
(* The scheduler: a ready task is taken, an object announced.              *)
(***************************************************************************)
LEMMA PopSched ==
    ASSUME TaskInv, SchedInv, Grows, Sched!PopReady
    PROVE  /\ SchedInv' /\ UNCHANGED <<pending, unresolved>>
           /\ ready # <<>> /\ ArgsProduced(Head(ready))
<1>1. /\ ready # <<>> /\ ready' = Tail(ready) /\ UNCHANGED <<pending, unresolved, waitingOn>>
  BY DEF Sched!PopReady
<1>2. ready \in Seq(submitted) /\ submitted \subseteq submitted' BY DEF SchedInv, Grows
<1>3. Tail(ready) \in Seq(submitted) /\ ToSet(ready) = {Head(ready)} \cup ToSet(Tail(ready))
  BY <1>1, <1>2, SplitElements
<1>4. ASSUME NEW t \in ToSet(ready) PROVE ArgsProduced(t) /\ ArgsProduced(t)'
  BY <1>4, StaysArguments DEF SchedInv
<1>5. \A t \in ToSet(ready') : ArgsProduced(t)' BY <1>1, <1>3, <1>4
<1>6. ASSUME NEW t \in pending
      PROVE  \A d \in ToSet(args'[t]) : Produced(d)' \/ d \in unresolved[t]
  <2>1. args'[t] = args[t] /\ ToSet(args[t]) \subseteq Task
    BY Arguments DEF SchedInv, Grows, TaskInv
  <2>2. QED BY <2>1, StaysProduced DEF SchedInv
<1>7. waitingOn \in [Task -> Seq(submitted')] /\ ready' \in Seq(submitted')
  BY <1>1, <1>2, <1>3, SequenceOver, SequenceIn DEF SchedInv
<1>8. SchedInv' BY <1>1, <1>2, <1>5, <1>6, <1>7 DEF SchedInv
<1>9. QED BY <1>1, <1>3, <1>4, <1>8

LEMMA FlushNextInv ==
    ASSUME RuntimeInv, NEW h \in Thread, FlushNext(h)
    PROVE  RuntimeInv'
<1>1. PICK t, f : t = Head(ready) /\ f = Resolving("resolveFlush", t) OBVIOUS
<1>2. /\ At(h, "flush") /\ Sched!PopReady
      /\ stack' = [stack EXCEPT ![h] = <<f>> \o @]
      /\ UNCHANGED osVars /\ UNCHANGED <<submitted, args, status, refs, gone, produced, evicts>>
      /\ UNCHANGED ipcVars
  BY <1>1 DEF FlushNext, restVars, tableVars, lifeVars, histVars
<1>3. TaskInv /\ ValueInv /\ StackInv /\ SleepInv /\ SchedInv /\ Grows
  BY <1>2, GrowsSame DEF RuntimeInv
<1>4. SchedInv' /\ UNCHANGED <<pending, unresolved>> /\ ArgsProduced(t)
  BY <1>1, <1>2, <1>3, PopSched
<1>5. FrameOK(h, f)'
  <2>1. t \in submitted BY <1>4 DEF ArgsProduced
  <2>2. QED BY <1>1, <1>3, <1>4, <2>1, ResolvingFrame, StaysFrame
<1>6. stack[h] # <<>> /\ Top(h).at = "flush" /\ FrameOK(h, Top(h))
  BY <1>2, <1>3, AtFrame, TopFrame
<1>7. PICK s : s = stack[h] /\ IsSequence(s) BY <1>3 DEF StackInv, StackOK
<1>8. ASSUME NEW g \in ToSet(s) PROVE g.at \in Outer /\ FrameOK(h, g)'
  <2>1. g = Top(h) \/ g \in Under(h) BY <1>3, <1>6, <1>7, TopFrame
  <2>2. g.at \in Outer /\ FrameOK(h, g) BY <1>3, <1>6, <2>1, TopFrame DEF Outer
  <2>3. QED BY <1>3, <2>2, StaysFrame
<1>9. stack' = [stack EXCEPT ![h] = stack'[h]] /\ stack'[h] = <<f>> \o s
  BY <1>2, <1>3, <1>7 DEF StackInv
<1>10. StackOK(h)' BY <1>5, <1>7, <1>8, <1>9, BuiltStack
<1>11. Wakes(h) /\ UNCHANGED store
  BY <1>2, <1>3, AwakeAt DEF Wakes, osVars, Sleepless, Label
<1>12. \A t1, o : ~ OnTop(h, t1, o) BY <1>6, Silent
<1>13. TaskInv' /\ ValueInv' BY <1>2, <1>3, <1>11, StaysTasks, StaysValues
<1>14. QED BY <1>2, <1>4, <1>6, <1>9, <1>10, <1>11, <1>12, <1>13, ThreadStep

LEMMA FlushDoneInv ==
    ASSUME RuntimeInv, NEW h \in Thread, FlushDone(h)
    PROVE  RuntimeInv'
<1>1. PICK f : f = Top(h) OBVIOUS
<1>2. /\ At(h, "flush") /\ Return(h) /\ refs' \subseteq refs \cup {f.task}
      /\ UNCHANGED osVars /\ UNCHANGED <<submitted, args, status, gone, produced, evicts>>
      /\ UNCHANGED ipcVars /\ UNCHANGED schedVars /\ UNCHANGED <<pending, unresolved>>
  BY <1>1 DEF FlushDone, schedVars, tableVars, lifeVars, histVars
<1>3. TaskInv /\ ValueInv /\ StackInv /\ SleepInv /\ SchedInv /\ Grows
  BY <1>2, GrowsSame DEF RuntimeInv
<1>4. stack[h] # <<>> /\ f.at = "flush" /\ f.task \in submitted
  BY <1>1, <1>2, <1>3, AtFrame DEF CallOK
<1>5. StackOK(h)' BY <1>2, <1>3, <1>4, ReturnStack
<1>6. stack' = [stack EXCEPT ![h] = stack'[h]] BY <1>2, <1>3, OnlyStack
<1>7. Wakes(h) /\ UNCHANGED store
  BY <1>2, <1>3, AwakeAt DEF Wakes, osVars, Sleepless, Label
<1>8. \A t, o : ~ OnTop(h, t, o) BY <1>1, <1>4, Silent
<1>9. TaskInv'
  <2>1. refs' \subseteq submitted BY <1>2, <1>3, <1>4 DEF TaskInv
  <2>2. QED BY <1>2, <1>3, <2>1 DEF TaskInv
<1>10. ValueInv' /\ SchedInv' BY <1>2, <1>3, <1>7, StaysValues, StaysSched
<1>11. QED BY <1>1, <1>2, <1>4, <1>5, <1>6, <1>7, <1>8, <1>9, <1>10, ThreadStep

\* The runtime's sequences are the scheduler's.
LEMMA SchedSequences ==
    /\ \A s : Sched!ToSet(s) = ToSet(s)
    /\ \A S : Sched!SetToSeqs(S) = SetToSeqs(S)
<1>1. ASSUME NEW s PROVE Sched!ToSet(s) = ToSet(s) BY DEF Sched!ToSet, ToSet
<1>2. ASSUME NEW S PROVE Sched!SetToSeqs(S) = SetToSeqs(S)
  BY DEF Sched!SetToSeqs, SetToSeqs, Sched!Cardinality, Cardinality
<1>3. QED BY <1>1, <1>2

\* on_object_ready keeps the scheduler right and resolves the object.
LEMMA AnnounceSched ==
    ASSUME TaskInv, SchedInv, Grows, NEW o \in submitted, Produced(o),
           Sched!OnObjectReady(o)
    PROVE  /\ SchedInv' /\ pending' \subseteq pending
           /\ \A t \in pending' : o \notin unresolved'[t] /\ unresolved'[t] \subseteq unresolved[t]
<1>1. o \in Task /\ submitted \subseteq submitted' /\ submitted \subseteq Task
  BY DEF TaskInv, Grows
<1> DEFINE R == Sched!Released(o)
           W == Sched!Waiters(o)
<1>2. /\ pending' = pending \ R
      /\ unresolved' = [t \in Task |-> IF t \in W THEN unresolved[t] \ {o} ELSE unresolved[t]]
      /\ waitingOn' = [waitingOn EXCEPT ![o] = <<>>]
      /\ \E r \in SetToSeqs(R) : ready' = ready \o r
  BY SchedSequences DEF Sched!OnObjectReady
<1>3. /\ W = ToSet(waitingOn[o]) \cap pending
      /\ R = {t \in W : unresolved[t] \subseteq {o}}
  BY SchedSequences DEF Sched!Waiters, Sched!Released
<1> HIDE DEF R, W
<1>4. pending \subseteq submitted /\ R \subseteq pending BY <1>1, <1>3 DEF SchedInv
<1>5. PICK r \in SetToSeqs(R) : ready' = ready \o r BY <1>2
<1>6. r \in Seq(R) /\ ToSet(r) = R
  <2>1. IsFiniteSet(submitted)
    <3>1. PICK n \in Nat : submitted = 1 .. n BY <1>1 DEF TaskInv
    <3>2. QED BY <3>1, FS_Interval
  <2>2. IsFiniteSet(R) BY <1>4, <2>1, FS_Subset
  <2>3. QED BY <2>2, ArrangementElements
<1>7. r \in Seq(submitted) BY <1>4, <1>6, SequenceOver, SequenceIn
<1>8. ready' \in Seq(submitted) /\ ToSet(ready') = ToSet(ready) \cup R
  BY <1>1, <1>5, <1>6, <1>7, ConcatElements, ConcatProperties DEF SchedInv
<1>9. ASSUME NEW t \in R PROVE ArgsProduced(t)
  <2>1. t \in pending /\ t \in submitted /\ unresolved[t] \subseteq {o} BY <1>3, <1>4
  <2>2. QED BY <1>1, <2>1 DEF SchedInv, ArgsProduced
<1>10. \A t \in ToSet(ready') : ArgsProduced(t)'
  BY <1>1, <1>8, <1>9, StaysArguments DEF SchedInv
<1>11. ASSUME NEW t \in pending'
       PROVE  /\ t \in pending /\ t \in Task
              /\ unresolved'[t] = unresolved[t] \ {o}
  <2>1. t \in pending /\ t \in Task BY <1>1, <1>2, <1>4
  <2>2. CASE t \in W BY <1>2, <2>1, <2>2
  <2>3. CASE t \notin W
    <3>1. o \notin unresolved[t] BY <1>1, <1>3, <2>1, <2>3 DEF SchedInv
    <3>2. QED BY <1>2, <2>1, <2>3, <3>1
  <2>4. QED BY <2>1, <2>2, <2>3
<1>12. ASSUME NEW t \in pending'
       PROVE  \A d \in ToSet(args'[t]) : Produced(d)' \/ d \in unresolved'[t]
  <2>1. t \in submitted /\ args'[t] = args[t] BY <1>1, <1>4, <1>11 DEF Grows
  <2>2. \A d \in ToSet(args[t]) : d \in Task /\ (Produced(d) \/ d \in unresolved[t])
    BY <1>1, <1>11, <2>1, Arguments DEF SchedInv
  <2>3. ASSUME NEW d \in ToSet(args[t]) PROVE Produced(d)' \/ d \in unresolved'[t]
    <3>1. CASE d = o \/ Produced(d) BY <1>1, <2>2, <3>1, StaysProduced
    <3>2. CASE d # o /\ ~ Produced(d) BY <1>11, <2>2, <3>2
    <3>3. QED BY <3>1, <3>2
  <2>4. QED BY <2>1, <2>3
<1>13. ASSUME NEW t \in pending', NEW p \in unresolved'[t]
       PROVE  p \in submitted' /\ t \in ToSet(waitingOn'[p])
  <2>1. p \in unresolved[t] /\ p # o /\ t \in pending BY <1>11
  <2>2. p \in submitted /\ t \in ToSet(waitingOn[p]) BY <1>1, <2>1 DEF SchedInv
  <2>3. waitingOn'[p] = waitingOn[p] BY <1>1, <1>2, <2>1, <2>2 DEF SchedInv
  <2>4. QED BY <1>1, <2>2, <2>3
<1>14. waitingOn' \in [Task -> Seq(submitted')] /\ ready' \in Seq(submitted')
  <2>1. \A s \in Seq(submitted) : s \in Seq(submitted') BY <1>1, SequenceOver, SequenceIn
  <2>2. <<>> \in Seq(submitted') BY EmptySeq
  <2>3. waitingOn \in [Task -> Seq(submitted')] BY <1>1, <2>1 DEF SchedInv
  <2>4. QED BY <1>1, <1>2, <1>8, <2>1, <2>2, <2>3
<1>15. SchedInv'
  <2>1. unresolved' = [t \in Task |-> unresolved'[t]] BY <1>2
  <2>2. pending' \subseteq submitted' BY <1>1, <1>2, <1>4
  <2>3. QED BY <1>10, <1>12, <1>13, <1>14, <2>1, <2>2 DEF SchedInv
<1>16. QED BY <1>2, <1>11, <1>15
-----------------------------------------------------------------------------
(***************************************************************************)
(* submit_task goes through the dependencies: one that is available is     *)
(* announced.                                                              *)
(***************************************************************************)
LEMMA RecheckInv ==
    ASSUME RuntimeInv, NEW h \in Thread, Recheck(h)
    PROVE  RuntimeInv'
<1>1. PICK f, o, s, e, g :
          /\ f = Top(h) /\ o = Head(f.todo) /\ s = Tail(f.todo)
          /\ e = [f EXCEPT !.at = "announce"] /\ g = Submitting(f.task, s)
  OBVIOUS
<1>2. /\ At(h, "recheck")
      /\ Goto(h, IF Store!contains(o) THEN e ELSE g)
      /\ UNCHANGED osVars /\ UNCHANGED schedVars /\ UNCHANGED restVars
  BY <1>1 DEF Recheck, NextArg
<1>3. TaskInv /\ ValueInv /\ StackInv /\ SleepInv /\ Grows
  BY <1>2, GrowsSame DEF RuntimeInv, restVars, tableVars, histVars
<1>4. /\ stack[h] # <<>> /\ f.at = "recheck" /\ f.task \in submitted
      /\ f.todo \in Seq(submitted) /\ f.todo # <<>>
      /\ f = [at |-> "recheck", task |-> f.task, todo |-> f.todo, vals |-> f.vals]
  BY <1>1, <1>2, <1>3, AtFrame DEF CallOK
<1>5. /\ o \in submitted /\ o \in Task /\ s \in Seq(submitted)
      /\ ToSet(f.todo) = {o} \cup ToSet(s)
  BY <1>1, <1>3, <1>4, SplitElements DEF TaskInv
<1>6. stack' = [stack EXCEPT ![h] = stack'[h]] BY <1>2, <1>3, OnlyStack
<1>7. Wakes(h) /\ UNCHANGED store
  BY <1>2, <1>3, AwakeAt DEF Wakes, osVars, Sleepless, Label
<1>8. StackOK(h)' /\ \A t, p : OnTop(h, t, p) /\ Store!contains(p) => OnTop(h, t, p)'
  <2>1. CASE Store!contains(o)
    <3>1. e = [at |-> "announce", task |-> f.task, todo |-> f.todo, vals |-> f.vals]
      BY <1>1, <1>4
    <3>2. Produced(o) BY <1>3, <1>5, <2>1 DEF ValueInv, Produced, Store!contains
    <3>3. CallOK(h, e) BY <1>1, <1>4, <3>1, <3>2 DEF CallOK, Label
    <3>4. FrameOK(h, e)' BY <1>3, <3>1, <3>3, StaysFrame DEF FrameOK
    <3>5. Goto(h, e) BY <1>2, <2>1
    <3>6. StackOK(h)' /\ stack'[h] # <<>> /\ Top(h)' = e
      BY <1>3, <1>4, <3>4, <3>5, GotoStack
    <3>7. \A t, p : Announces(f, t, p) => Announces(e, t, p) BY <3>1 DEF Announces
    <3>8. QED BY <1>1, <3>6, <3>7 DEF OnTop
  <2>2. CASE ~ Store!contains(o)
    <3>1. FrameOK(h, g)' BY <1>1, <1>3, <1>4, <1>5, SubmittingFrame, StaysFrame
    <3>2. Goto(h, g) BY <1>2, <2>2
    <3>3. StackOK(h)' /\ stack'[h] # <<>> /\ Top(h)' = g
      BY <1>3, <1>4, <3>1, <3>2, GotoStack
    <3>4. ASSUME NEW t, NEW p, Announces(f, t, p), p # o PROVE Announces(g, t, p)
      <4>1. p \in ToSet(s) /\ f.task \in {t, p} BY <1>5, <3>4 DEF Announces
      <4>2. QED BY <1>1, <1>4, <1>5, <4>1, SubmittingFrame
    <3>5. QED BY <1>1, <2>2, <3>3, <3>4 DEF OnTop
  <2>3. QED BY <2>1, <2>2
<1>9. QED BY <1>1, <1>2, <1>4, <1>6, <1>7, <1>8, ThreadMoves

LEMMA AnnounceInv ==
    ASSUME RuntimeInv, NEW h \in Thread, Announce(h)
    PROVE  RuntimeInv'
<1>1. PICK f, o, s, g : /\ f = Top(h) /\ o = Head(f.todo) /\ s = Tail(f.todo)
                        /\ g = Submitting(f.task, s)
  OBVIOUS
<1>2. /\ At(h, "announce") /\ Sched!OnObjectReady(o) /\ Goto(h, g)
      /\ UNCHANGED osVars /\ UNCHANGED <<submitted, args, status, refs, gone, produced, evicts>>
      /\ UNCHANGED ipcVars
  BY <1>1 DEF Announce, NextArg, restVars, tableVars, lifeVars, histVars
<1>3. /\ TaskInv /\ ValueInv /\ StackInv /\ SleepInv /\ SchedInv /\ NoMissedTrigger
      /\ StatusInv /\ Grows
  BY <1>2, GrowsSame DEF RuntimeInv
<1>4. /\ stack[h] # <<>> /\ f.at = "announce" /\ f.task \in submitted
      /\ f.todo \in Seq(submitted) /\ f.todo # <<>> /\ Produced(o)
  BY <1>1, <1>2, <1>3, AtFrame DEF CallOK
<1>5. o \in submitted /\ s \in Seq(submitted) /\ ToSet(f.todo) = {o} \cup ToSet(s)
  BY <1>1, <1>4, SplitElements
<1>6. /\ SchedInv' /\ pending' \subseteq pending
      /\ \A t \in pending' : o \notin unresolved'[t] /\ unresolved'[t] \subseteq unresolved[t]
  BY <1>2, <1>3, <1>4, <1>5, AnnounceSched
<1>7. FrameOK(h, g)' BY <1>1, <1>3, <1>4, <1>5, SubmittingFrame, StaysFrame
<1>8. StackOK(h)' /\ stack'[h] # <<>> /\ Top(h)' = g
  BY <1>2, <1>3, <1>4, <1>7, GotoStack
<1>9. stack' = [stack EXCEPT ![h] = stack'[h]] BY <1>2, <1>3, OnlyStack
<1>10. ASSUME NEW t, NEW p, p # o, OnTop(h, t, p) PROVE OnTop(h, t, p)'
  <2>1. p \in ToSet(s) /\ f.task \in {t, p} BY <1>1, <1>5, <1>10 DEF OnTop, Announces
  <2>2. Announces(g, t, p) BY <1>1, <1>4, <1>5, <2>1, SubmittingFrame
  <2>3. QED BY <1>8, <2>2 DEF OnTop
<1>11. \A t \in pending', p \in Task \ Fails :
           p \in unresolved'[t] /\ Store!contains(p)' =>
               \/ OnTop(h, t, p)'
               \/ /\ t \in pending /\ p \in unresolved[t] /\ Store!contains(p)
                  /\ ~ OnTop(h, t, p)
  BY <1>2, <1>6, <1>10 DEF Store!contains, osVars
<1>12. NoMissedTrigger' BY <1>3, <1>8, <1>9, <1>11, MovedTriggers
<1>13. Wakes(h) /\ UNCHANGED store
  BY <1>2, <1>3, AwakeAt DEF Wakes, osVars, Sleepless, Label
<1>14. StackInv' /\ SleepInv' BY <1>3, <1>8, <1>9, <1>13, MovedStack, MovedSleep
<1>15. StatusInv' BY <1>1, <1>2, <1>3, <1>4, <1>9, MovedStatus
<1>16. TaskInv' /\ ValueInv' BY <1>2, <1>3, <1>13, StaysTasks, StaysValues
<1>17. QED BY <1>6, <1>12, <1>14, <1>15, <1>16 DEF RuntimeInv
-----------------------------------------------------------------------------
(***************************************************************************)
(* The result of a task is stored, and then recorded and announced.        *)
(***************************************************************************)
\* What the collector does next.
LEMMA AfterPutFrame ==
    ASSUME NEW t, NEW v
    PROVE  \E f : /\ AfterPut(t, v) = <<f>>
                  /\ f = [at |-> f.at, task |-> f.task, todo |-> f.todo, vals |-> f.vals]
                  /\ f.task = t
                  /\ \/ f.at = "finished" /\ f.todo = <<t>> /\ ~ Raised(v)
                        /\ \A s : Announces(f, s, t)
                     \/ f.at = "failed" /\ f.todo = <<>> /\ Raised(v)
<1>1. ToSet(<<t>>) = {t} BY OneElement
<1>2. CASE Raised(v)
  <2>1. PICK f : f = Frame("failed", t, <<>>) OBVIOUS
  <2>2. AfterPut(t, v) = <<f>> BY <1>2, <2>1 DEF AfterPut
  <2>3. QED BY <1>2, <2>1, <2>2 DEF Frame
<1>3. CASE ~ Raised(v)
  <2>1. PICK f : f = Frame("finished", t, <<t>>) OBVIOUS
  <2>2. AfterPut(t, v) = <<f>> BY <1>3, <2>1 DEF AfterPut
  <2>3. /\ f = [at |-> f.at, task |-> f.task, todo |-> f.todo, vals |-> f.vals]
        /\ f.task = t /\ f.at = "finished" /\ f.todo = <<t>>
    BY <2>1 DEF Frame
  <2>4. \A s : Announces(f, s, t) BY <1>1, <2>3 DEF Announces
  <2>5. QED BY <1>3, <2>2, <2>3, <2>4
<1>4. QED BY <1>2, <1>3

\* A task that runs again makes the same value again.
LEMMA PutFacts ==
    ASSUME TaskInv, ValueInv, UNCHANGED <<submitted, args>>, NEW t, NEW v, Computed(t, v),
           produced' = [produced EXCEPT ![t] = v]
    PROVE  /\ Grows /\ t \in submitted /\ t \in Task
           /\ v = Outcome(t, ArgValues(t)) /\ v # Absent
           /\ Produced(t) => produced[t] = v
           /\ produced' = [o \in Task |-> produced'[o]] /\ produced'[t] = v
           /\ \A o \in Task : o # t => produced'[o] = produced[o]
           /\ \A o \in Task : Produced(o)' => Computed(o, produced[o])'
<1>1. t \in submitted /\ t \in Task /\ v = Outcome(t, ArgValues(t))
  BY DEF Computed, ArgsProduced, TaskInv
<1>2. v # Absent BY <1>1 DEF Outcome, Absent
<1>3. Produced(t) => produced[t] = v BY <1>1 DEF ValueInv, Computed
<1>4. /\ produced' = [o \in Task |-> produced'[o]] /\ produced'[t] = v
      /\ \A o \in Task : o # t => produced'[o] = produced[o]
  BY <1>1 DEF ValueInv
<1>5. Grows BY <1>3, <1>4 DEF Grows
<1>6. ASSUME NEW o \in Task, Produced(o)' PROVE Computed(o, produced[o])'
  <2>1. PICK w : w = produced'[o] OBVIOUS
  <2>2. CASE o = t BY <1>4, <1>5, <2>2, StaysCalled
  <2>3. CASE o # t
    <3>1. w = produced[o] /\ Produced(o) BY <1>4, <1>6, <2>1, <2>3 DEF Produced
    <3>2. Computed(o, w) BY <3>1 DEF ValueInv
    <3>3. Computed(o, w)' BY <1>5, <3>2, StaysCalled
    <3>4. QED BY <2>1, <3>3
  <2>4. QED BY <2>2, <2>3
<1>7. QED BY <1>1, <1>2, <1>3, <1>4, <1>5, <1>6

LEMMA CollectResultInv ==
    ASSUME RuntimeInv, CollectResult
    PROVE  RuntimeInv'
<1>1. PICK r, t, v : r = Head(resultQueue) /\ t = r[1] /\ v = r[2] OBVIOUS
<1>2. /\ resultQueue # <<>> /\ resultQueue' = Tail(resultQueue)
      /\ store' = [store EXCEPT ![t] = v]
      /\ signalling' = [signalling EXCEPT ![Collector] = waiting[t]]
      /\ produced' = [produced EXCEPT ![t] = v]
      /\ Enter(Collector, AfterPut(t, v))
      /\ UNCHANGED <<waiting, blocked, woken>> /\ UNCHANGED schedVars
      /\ UNCHANGED <<submitted, args, status, refs, taskQueue, running, gone, evicts>>
      /\ UNCHANGED <<pending, unresolved>>
  BY <1>1 DEF CollectResult, Store!PutStore, schedVars, tableVars, lifeVars
<1>3. /\ TaskInv /\ ValueInv /\ StackInv /\ SleepInv /\ SchedInv /\ NoMissedTrigger
      /\ StatusInv /\ Collector \in Thread
  BY DEF RuntimeInv, Thread
<1>4. r \in ToSet(resultQueue) /\ IsSequence(Tail(resultQueue))
      /\ ToSet(Tail(resultQueue)) \subseteq ToSet(resultQueue)
  BY <1>1, <1>2, <1>3, TailSequence DEF ValueInv
<1>5. Computed(t, v) BY <1>1, <1>3, <1>4 DEF ValueInv
<1>6. /\ Grows /\ t \in submitted /\ t \in Task
      /\ v = Outcome(t, ArgValues(t)) /\ v # Absent
      /\ Produced(t) => produced[t] = v
      /\ produced' = [o \in Task |-> produced'[o]] /\ produced'[t] = v
      /\ \A o \in Task : o # t => produced'[o] = produced[o]
      /\ \A o \in Task : Produced(o)' => Computed(o, produced[o])'
  BY <1>2, <1>3, <1>5, PutFacts
<1>7. /\ store' = [o \in Task |-> store'[o]] /\ store'[t] = v
      /\ \A o \in Task : o # t => store'[o] = store[o]
  BY <1>2, <1>3, <1>6 DEF ValueInv
<1>8. PICK f : /\ AfterPut(t, v) = <<f>>
               /\ f = [at |-> f.at, task |-> f.task, todo |-> f.todo, vals |-> f.vals]
               /\ f.task = t
               /\ \/ f.at = "finished" /\ f.todo = <<t>> /\ ~ Raised(v)
                     /\ \A s : Announces(f, s, t)
                  \/ f.at = "failed" /\ f.todo = <<>> /\ Raised(v)
  BY AfterPutFrame
<1>9. /\ stack[Collector] = <<>> /\ stack'[Collector] = <<f>>
      /\ stack' = [stack EXCEPT ![Collector] = stack'[Collector]]
  BY <1>2, <1>3, <1>8 DEF Enter, StackInv
<1>10. FrameOK(Collector, f)'
  <2>1. <<t>> \in Seq(submitted) /\ <<>> \in Seq(submitted)
    <3>1. IsSequence(<<t>>) /\ ToSet(<<t>>) = {t} BY OneElement
    <3>2. QED BY <1>6, <3>1, SequenceIn, EmptySeq
  <2>2. f.task \in submitted' /\ f.todo \in Seq(submitted') BY <1>2, <1>6, <1>8, <2>1
  <2>3. Produced(f.task)' /\ (f.at = "failed" <=> Raised(produced'[f.task]))
    BY <1>6, <1>8 DEF Produced
  <2>4. CallOK(Collector, f)' BY <1>8, <2>2, <2>3 DEF CallOK, Label
  <2>5. QED BY <1>8, <2>4 DEF FrameOK
<1>11. StackOK(Collector)' /\ stack'[Collector] # <<>> /\ Top(Collector)' = f
  BY <1>9, <1>10, EnterOne
<1>12. StackInv' BY <1>3, <1>6, <1>9, <1>11, MovedStack
<1>13. ValueInv'
  <2>1. \A o \in Task : Store!contains(o)' => store'[o] = produced'[o]
    BY <1>3, <1>6, <1>7 DEF ValueInv, Store!contains
  <2>2. evicts' = 0 => store' = produced' BY <1>2, <1>3 DEF ValueInv
  <2>3. \A e \in ToSet(taskQueue) : e = Sentinel \/ Called(e[1], e[2])'
    BY <1>3, <1>6, StaysCalled DEF ValueInv
  <2>4. ASSUME NEW w \in Worker
        PROVE  running[w] = Nothing \/ Called(running[w][1], running[w][2])'
    <3>1. PICK e : e = running[w] OBVIOUS
    <3>2. e = Nothing \/ Called(e[1], e[2]) BY <1>3, <3>1 DEF ValueInv
    <3>3. e = Nothing \/ Called(e[1], e[2])' BY <1>3, <1>6, <3>2, StaysCalled
    <3>4. QED BY <1>2, <3>1, <3>3
  <2>5. \A q \in ToSet(resultQueue') : Computed(q[1], q[2])'
    BY <1>2, <1>3, <1>4, <1>6, StaysCalled DEF ValueInv
  <2>6. IsSequence(taskQueue') /\ IsSequence(resultQueue')
    BY <1>2, <1>3, <1>4 DEF ValueInv
  <2>7. running' = [w \in Worker |-> running'[w]] BY <1>2, <1>3 DEF ValueInv
  <2>8. QED BY <1>2, <1>6, <1>7, <2>1, <2>2, <2>3, <2>4, <2>5, <2>6, <2>7 DEF ValueInv
<1>14. SleepInv'
  <2>1. blocked[Collector] = Nothing BY <1>3, <1>9, Awake
  <2>2. ASSUME NEW g \in Thread, blocked'[g] # Nothing
        PROVE  stack'[g] # <<>> /\ Awaited(g)' = blocked'[g]
    <3>1. g # Collector /\ stack'[g] = stack[g] BY <1>2, <1>3, <1>9, <2>1, <2>2 DEF StackInv
    <3>2. Awaited(g)' = Awaited(g) BY <3>1 DEF Awaited, Top, NextArg
    <3>3. QED BY <1>2, <1>3, <2>2, <3>1, <3>2 DEF SleepInv
  <2>3. signalling' = [p \in Thread |-> signalling'[p]] BY <1>2, <1>3 DEF SleepInv
  <2>4. \A p \in Thread : signalling'[p] \subseteq signalling[p] \cup waiting[t]
    BY <1>2, <1>3 DEF SleepInv
  <2>5. \A p \in Thread : \A g \in signalling'[p] : g \in Thread /\ blocked[g] # Nothing
    BY <1>3, <1>6, <2>4 DEF SleepInv
  <2>6. QED BY <1>2, <1>3, <2>2, <2>3, <2>5 DEF SleepInv
<1>15. SchedInv' BY <1>2, <1>3, <1>6, StaysSched
<1>16. TaskInv' BY <1>2, <1>3, StaysTasks
<1>17. ASSUME NEW s \in pending', NEW o \in Task \ Fails,
              o \in unresolved'[s], Store!contains(o)'
       PROVE  \/ OnTop(Collector, s, o)'
              \/ /\ s \in pending /\ o \in unresolved[s] /\ Store!contains(o)
                 /\ ~ OnTop(Collector, s, o)
  <2>1. CASE o = t
    <3>1. ~ Raised(v) BY <1>6, <2>1 DEF Raised, Outcome
    <3>2. Announces(f, s, o) BY <1>8, <2>1, <3>1
    <3>3. QED BY <1>11, <3>2 DEF OnTop
  <2>2. CASE o # t
    BY <1>2, <1>7, <1>9, <1>17, <2>2 DEF OnTop, Store!contains
  <2>3. QED BY <2>1, <2>2
<1>18. NoMissedTrigger' BY <1>3, <1>9, <1>11, <1>17, MovedTriggers
<1>19. StatusInv'
  <2>1. \A s : ~ Records(Collector, s) BY <1>9 DEF Records, At
  <2>2. Records(Collector, t)' BY <1>8, <1>11 DEF Records, At
  <2>3. ASSUME NEW s \in submitted
        PROVE  /\ ~ Produced(s)' => status[s] = "READY"
               /\ Produced(s)' =>
                     \/ status[s] = IF Raised(produced'[s]) THEN "FAILED" ELSE "FINISHED"
                     \/ status[s] = "READY" /\ Records(Collector, s)'
    <3>1. CASE s = t
      <4>1. CASE Produced(t)
        BY <1>3, <1>6, <2>1, <3>1, <4>1 DEF StatusInv, Produced
      <4>2. CASE ~ Produced(t)
        BY <1>3, <1>6, <2>2, <3>1, <4>2 DEF StatusInv, Produced
      <4>3. QED BY <4>1, <4>2
    <3>2. CASE s # t
      <4>1. produced'[s] = produced[s] BY <1>3, <1>6, <3>2 DEF TaskInv
      <4>2. QED BY <1>3, <2>1, <4>1 DEF StatusInv, Produced
    <3>3. QED BY <3>1, <3>2
  <2>4. QED BY <1>2, <1>3, <2>3 DEF StatusInv
<1>20. QED BY <1>12, <1>13, <1>14, <1>15, <1>16, <1>18, <1>19 DEF RuntimeInv

\* The collector records the status its task has got.
LEMMA RecordedStatus ==
    ASSUME TaskInv, StatusInv, NEW o \in submitted, Produced(o),
           NEW f, f = Top(Collector), f.task = o,
           UNCHANGED <<submitted, produced>>,
           status' = [status EXCEPT ![o] =
                         IF Raised(produced[o]) THEN "FAILED" ELSE "FINISHED"]
    PROVE  StatusInv'
<1>1. o \in Task BY DEF TaskInv
<1>2. ASSUME NEW s \in submitted, s # o PROVE ~ Records(Collector, s)
  BY <1>2 DEF Records
<1>3. /\ status' = [s \in Task |-> status'[s]]
      /\ status'[o] = IF Raised(produced[o]) THEN "FAILED" ELSE "FINISHED"
      /\ \A s \in submitted : s # o => status'[s] = status[s]
  BY <1>1 DEF StatusInv
<1>4. ASSUME NEW s \in submitted
      PROVE  /\ ~ Produced(s) => status'[s] = "READY"
             /\ Produced(s) =>
                   status'[s] = IF Raised(produced[s]) THEN "FAILED" ELSE "FINISHED"
  <2>1. CASE s = o BY <1>3, <2>1
  <2>2. CASE s # o BY <1>2, <1>3, <2>2 DEF StatusInv
  <2>3. QED BY <2>1, <2>2
<1>5. QED BY <1>3, <1>4 DEF StatusInv, Produced

LEMMA FinishedInv ==
    ASSUME RuntimeInv, NEW h \in Thread, Finished(h)
    PROVE  RuntimeInv'
<1>1. PICK f, o, g : f = Top(h) /\ o = f.task /\ g = Frame("flush", o, <<>>) OBVIOUS
<1>2. /\ At(h, "finished") /\ Table!Record(o, "FINISHED") /\ Sched!OnObjectReady(o)
      /\ Goto(h, g) /\ UNCHANGED osVars
      /\ UNCHANGED <<submitted, args, refs, gone, produced, evicts>> /\ UNCHANGED ipcVars
  BY <1>1 DEF Finished, Table!Record, lifeVars, histVars
<1>3. /\ TaskInv /\ ValueInv /\ StackInv /\ SleepInv /\ SchedInv /\ NoMissedTrigger
      /\ StatusInv /\ Grows
  BY <1>2, GrowsSame DEF RuntimeInv
<1>4. /\ stack[h] # <<>> /\ f.at = "finished" /\ o \in submitted /\ f.todo = <<o>>
      /\ h = Collector /\ Produced(o) /\ ~ Raised(produced[o])
  BY <1>1, <1>2, <1>3, AtFrame DEF CallOK
<1>5. /\ SchedInv' /\ pending' \subseteq pending
      /\ \A t \in pending' : o \notin unresolved'[t] /\ unresolved'[t] \subseteq unresolved[t]
  BY <1>2, <1>3, <1>4, AnnounceSched
<1>6. FrameOK(h, g)' BY <1>1, <1>3, <1>4, PlainFrame, StaysFrame
<1>7. StackOK(h)' BY <1>2, <1>3, <1>4, <1>6, GotoStack
<1>8. stack' = [stack EXCEPT ![h] = stack'[h]] BY <1>2, <1>3, OnlyStack
<1>9. ASSUME NEW t, NEW p, p # o PROVE ~ OnTop(h, t, p)
  <2>1. ToSet(<<o>>) = {o} BY OneElement
  <2>2. QED BY <1>1, <1>4, <1>9, <2>1 DEF OnTop, Announces
<1>10. \A t \in pending', p \in Task \ Fails :
           p \in unresolved'[t] /\ Store!contains(p)' =>
               \/ OnTop(h, t, p)'
               \/ /\ t \in pending /\ p \in unresolved[t] /\ Store!contains(p)
                  /\ ~ OnTop(h, t, p)
  BY <1>2, <1>5, <1>9 DEF Store!contains, osVars
<1>11. NoMissedTrigger' BY <1>3, <1>7, <1>8, <1>10, MovedTriggers
<1>12. Wakes(h) /\ UNCHANGED store
  BY <1>2, <1>3, AwakeAt DEF Wakes, osVars, Sleepless, Label
<1>13. StackInv' /\ SleepInv' BY <1>3, <1>7, <1>8, <1>12, MovedStack, MovedSleep
<1>14. StatusInv'
  <2>1. status' = [status EXCEPT ![o] = "FINISHED"] BY <1>2, <1>4 DEF Table!Record
  <2>2. QED BY <1>1, <1>2, <1>3, <1>4, <2>1, RecordedStatus
<1>15. TaskInv' /\ ValueInv' BY <1>2, <1>3, <1>12, StaysTasks, StaysValues
<1>16. QED BY <1>5, <1>11, <1>13, <1>14, <1>15 DEF RuntimeInv

LEMMA FailedInv ==
    ASSUME RuntimeInv, NEW h \in Thread, Failed(h)
    PROVE  RuntimeInv'
<1>1. PICK f, o : f = Top(h) /\ o = f.task OBVIOUS
<1>2. /\ At(h, "failed") /\ Table!Record(o, "FAILED") /\ Return(h)
      /\ UNCHANGED osVars /\ UNCHANGED schedVars
      /\ UNCHANGED <<submitted, args, refs, gone, produced, evicts>> /\ UNCHANGED ipcVars
  BY <1>1 DEF Failed, Table!Record, lifeVars, histVars
<1>3. /\ TaskInv /\ ValueInv /\ StackInv /\ SleepInv /\ SchedInv /\ NoMissedTrigger
      /\ StatusInv /\ Grows
  BY <1>2, GrowsSame DEF RuntimeInv
<1>4. /\ stack[h] # <<>> /\ f.at = "failed" /\ o \in submitted
      /\ h = Collector /\ Produced(o) /\ Raised(produced[o])
  BY <1>1, <1>2, <1>3, AtFrame DEF CallOK
<1>5. StackOK(h)' BY <1>2, <1>3, <1>4, ReturnStack
<1>6. stack' = [stack EXCEPT ![h] = stack'[h]] BY <1>2, <1>3, OnlyStack
<1>7. \A t, p : ~ OnTop(h, t, p) BY <1>1, <1>4, Silent
<1>8. Wakes(h) /\ UNCHANGED store
  BY <1>2, <1>3, AwakeAt DEF Wakes, osVars, Sleepless, Label
<1>9. NoMissedTrigger'
  <2>1. UNCHANGED <<pending, unresolved>> BY <1>2 DEF schedVars
  <2>2. QED BY <1>3, <1>5, <1>6, <1>7, <1>8, <2>1, MovedTriggers DEF Store!contains
<1>10. StackInv' /\ SleepInv' BY <1>3, <1>5, <1>6, <1>8, MovedStack, MovedSleep
<1>11. StatusInv'
  <2>1. status' = [status EXCEPT ![o] = "FAILED"] BY <1>2, <1>4 DEF Table!Record
  <2>2. QED BY <1>1, <1>2, <1>3, <1>4, <2>1, RecordedStatus
<1>12. TaskInv' /\ ValueInv' /\ SchedInv'
  BY <1>2, <1>3, <1>8, StaysTasks, StaysValues, StaysSched
<1>13. QED BY <1>9, <1>10, <1>11, <1>12 DEF RuntimeInv
-----------------------------------------------------------------------------
(***************************************************************************)
(* submit_task registers the task and hands it to the scheduler.           *)
(***************************************************************************)
LEMMA SubmitTasks ==
    ASSUME TaskInv, ValueInv, UNCHANGED <<refs, gone, produced, evicts>>,
           NEW t \in Task, t = Cardinality(submitted) + 1,
           NEW a \in SeqOf(submitted, MaxArgs), Table!register_task(t, a)
    PROVE  /\ TaskInv' /\ Grows /\ t \notin submitted /\ ~ Produced(t)
           /\ t \in submitted' /\ submitted' = submitted \cup {t}
           /\ args'[t] = a /\ args' = [args EXCEPT ![t] = a]
<1>1. PICK n \in Nat : n = Cardinality(submitted) /\ submitted = 1 .. n
  BY DEF TaskInv
<1>2. t \notin submitted
  <2>1. t = n + 1 /\ n + 1 \notin 1 .. n BY <1>1
  <2>2. QED BY <1>1, <2>1
<1>3. submitted' = submitted \cup {t} /\ submitted' = 1 .. n + 1
  <2>1. submitted' = submitted \cup {t} BY DEF Table!register_task
  <2>2. 1 .. n + 1 = (1 .. n) \cup {n + 1} OBVIOUS
  <2>3. QED BY <1>1, <2>1, <2>2
<1>4. Cardinality(submitted') = n + 1
  <2>1. IsFiniteSet(submitted)
    <3>1. IsFiniteSet(1 .. n) BY FS_Interval
    <3>2. QED BY <1>1, <3>1
  <2>2. QED BY <1>1, <1>2, <1>3, <2>1, FS_AddElement
<1>5. args' = [args EXCEPT ![t] = a] BY DEF Table!register_task
<1>6. args' \in [Task -> SeqOf(submitted', MaxArgs)] /\ args'[t] = a
  <2>1. SeqOf(submitted, MaxArgs) \subseteq SeqOf(submitted', MaxArgs)
    BY <1>3, BoundedSequence, RuntimeAssumption
  <2>2. QED BY <1>5, <2>1 DEF TaskInv
<1>7. Grows BY <1>2, <1>3, <1>5 DEF Grows, TaskInv
<1>8. ~ Produced(t) BY <1>2 DEF ValueInv, Computed, ArgsProduced
<1>9. TaskInv'
  <2>1. Cardinality(submitted') \in Nat /\ submitted' = 1 .. Cardinality(submitted')
    <3>1. n + 1 \in Nat OBVIOUS
    <3>2. QED BY <1>3, <1>4, <3>1
  <2>2. submitted' \subseteq Task /\ refs' \subseteq submitted'
    BY <1>3 DEF TaskInv
  <2>3. QED BY <1>6, <2>1, <2>2 DEF TaskInv
<1>10. QED BY <1>2, <1>3, <1>5, <1>6, <1>7, <1>8, <1>9

\* The index: every argument leads to the task, and nothing is dropped from it.
LEMMA IndexedTask ==
    ASSUME NEW S, S \subseteq Task, waitingOn \in [Task -> Seq(S)],
           NEW t \in S, NEW a \in Seq(S)
    PROVE  /\ Sched!Indexed(t, a) \in [Task -> Seq(S)]
           /\ \A o \in Task : ToSet(waitingOn[o]) \subseteq ToSet(Sched!Indexed(t, a)[o])
           /\ \A o \in ToSet(a) : t \in ToSet(Sched!Indexed(t, a)[o])
<1> DEFINE U(o) == {i \in DOMAIN a : a[i] = o}
           n(o) == Cardinality(U(o))
           w == [o \in Task |-> waitingOn[o] \o [i \in 1 .. n(o) |-> t]]
<1>1. Sched!Indexed(t, a) = w
  BY DEF Sched!Indexed, Sched!Uses, Sched!Cardinality, Cardinality
<1>2. ASSUME NEW o \in Task
      PROVE  /\ w[o] \in Seq(S) /\ ToSet(waitingOn[o]) \subseteq ToSet(w[o])
             /\ o \in ToSet(a) => t \in ToSet(w[o])
  <2>1. n(o) \in Nat /\ (o \in ToSet(a) => n(o) # 0) BY UsesFinite
  <2>2. PICK k \in Nat, s \in Seq(S) : k = n(o) /\ s = waitingOn[o] BY <2>1
  <2>3. w[o] = s \o [i \in 1 .. k |-> t] BY <2>2
  <2>4. PICK r : r = s \o [i \in 1 .. k |-> t] OBVIOUS
  <2>5. r \in Seq(S) /\ ToSet(s) \subseteq ToSet(r) /\ (k # 0 => t \in ToSet(r))
    BY <2>4, RepeatedElement
  <2> HIDE DEF w, n
  <2>6. QED BY <2>1, <2>2, <2>3, <2>4, <2>5
<1>3. ToSet(a) \subseteq Task BY SequenceOver
<1>4. w = [o \in Task |-> w[o]] OBVIOUS
<1> HIDE DEF w
<1>5. QED BY <1>1, <1>2, <1>3, <1>4

\* submit keeps the scheduler right and queues only the new task.
LEMMA SubmitSched ==
    ASSUME TaskInv, SchedInv, Grows, UNCHANGED produced, submitted' \subseteq Task,
           NEW t \in submitted', t \notin submitted,
           NEW a \in SeqOf(submitted, MaxArgs), args'[t] = a, Sched!SchedSubmit(t, a)
    PROVE  /\ SchedInv' /\ pending' \subseteq pending \cup {t}
           /\ t \in pending' => unresolved'[t] = ToSet(a)
           /\ \A s \in pending : unresolved'[s] = unresolved[s]
<1>1. /\ submitted \subseteq submitted' /\ pending \subseteq submitted
      /\ submitted \subseteq Task
  BY DEF Grows, SchedInv, TaskInv
<1>2. /\ a \in Seq(submitted) /\ ToSet(a) \subseteq submitted
  BY BoundedSequence, RuntimeAssumption
<1>3. \A s \in Seq(submitted) : s \in Seq(submitted')
  BY <1>1, SequenceOver, SequenceIn
<1>4. waitingOn \in [Task -> Seq(submitted')] /\ ready \in Seq(submitted')
  BY <1>1, <1>3 DEF SchedInv
<1>5. ASSUME NEW s \in ToSet(ready) PROVE ArgsProduced(s)'
  BY <1>1, StaysArguments DEF SchedInv
<1>6. ASSUME NEW s \in pending
      PROVE  \A d \in ToSet(args'[s]) : Produced(d)' \/ d \in unresolved[s]
  BY <1>1 DEF SchedInv, Grows, Produced
<1>7. CASE a = <<>>
  <2>1. ready' = Append(ready, t) /\ UNCHANGED <<pending, unresolved, waitingOn>>
    BY <1>7 DEF Sched!SchedSubmit
  <2>2. ready' \in Seq(submitted') /\ ToSet(ready') = ToSet(ready) \cup {t}
    BY <1>4, <2>1, AppendElements, AppendProperties
  <2>3. ArgsProduced(t)' BY <1>7, NoElement DEF ArgsProduced
  <2>4. SchedInv' BY <1>1, <1>4, <1>5, <1>6, <2>1, <2>2, <2>3 DEF SchedInv
  <2>5. QED BY <1>1, <2>1, <2>4
<1>8. CASE a # <<>>
  <2>1. /\ pending' = pending \cup {t} /\ ready' = ready
        /\ unresolved' = [unresolved EXCEPT ![t] = ToSet(a)]
        /\ waitingOn' = Sched!Indexed(t, a)
    BY <1>8, SchedSequences DEF Sched!SchedSubmit
  <2>2. /\ waitingOn' \in [Task -> Seq(submitted')]
        /\ \A o \in Task : ToSet(waitingOn[o]) \subseteq ToSet(waitingOn'[o])
        /\ \A o \in ToSet(a) : t \in ToSet(waitingOn'[o])
    BY <1>2, <1>3, <1>4, <2>1, IndexedTask
  <2>3. /\ unresolved' = [s \in Task |-> unresolved'[s]]
        /\ unresolved'[t] = ToSet(a)
        /\ \A s \in pending : unresolved'[s] = unresolved[s]
    BY <1>1, <2>1 DEF SchedInv
  <2>4. \A s \in pending' : \A d \in ToSet(args'[s]) :
            Produced(d)' \/ d \in unresolved'[s]
    BY <1>6, <2>1, <2>3
  <2>5. ASSUME NEW s \in pending', NEW o \in unresolved'[s]
        PROVE  o \in submitted' /\ s \in ToSet(waitingOn'[o])
    <3>1. CASE s = t BY <1>1, <1>2, <2>2, <2>3, <3>1
    <3>2. CASE s \in pending
      <4>1. o \in submitted /\ s \in ToSet(waitingOn[o]) BY <1>1, <2>3, <3>2 DEF SchedInv
      <4>2. QED BY <1>1, <2>2, <4>1
    <3>3. QED BY <2>1, <3>1, <3>2
  <2>6. SchedInv'
    <3>1. pending' \subseteq submitted' BY <1>1, <2>1
    <3>2. QED BY <1>4, <1>5, <2>1, <2>2, <2>3, <2>4, <2>5, <3>1 DEF SchedInv
  <2>7. QED BY <2>1, <2>3, <2>6
<1>9. QED BY <1>7, <1>8

LEMMA SubmitTaskInv ==
    ASSUME RuntimeInv, NEW u \in User, NEW a \in SeqOf(refs, MaxArgs), SubmitTask(u, a)
    PROVE  RuntimeInv'
<1>1. PICK t, f : t = Cardinality(submitted) + 1 /\ f = Submitting(t, a) OBVIOUS
<1>2. /\ t \in Task /\ Table!register_task(t, a) /\ Sched!SchedSubmit(t, a)
      /\ stack[u] = <<>> /\ Enter(u, <<f>>)
      /\ UNCHANGED <<store, waiting, blocked, signalling, woken>>
      /\ UNCHANGED <<refs, gone, produced, evicts>> /\ UNCHANGED ipcVars
  BY <1>1 DEF SubmitTask, Enter, osVars, lifeVars, histVars
<1>3. /\ TaskInv /\ ValueInv /\ StackInv /\ SleepInv /\ SchedInv /\ NoMissedTrigger
      /\ StatusInv /\ u \in Thread /\ u # Collector
  BY RuntimeAssumption DEF RuntimeInv, Thread
<1>4. a \in SeqOf(submitted, MaxArgs) /\ a \in Seq(submitted)
  BY <1>3, BoundedSequence, RuntimeAssumption DEF TaskInv
<1>5. /\ TaskInv' /\ Grows /\ t \notin submitted /\ ~ Produced(t)
      /\ t \in submitted' /\ submitted' = submitted \cup {t} /\ args'[t] = a
  BY <1>1, <1>2, <1>3, <1>4, SubmitTasks
<1>6. /\ SchedInv' /\ pending' \subseteq pending \cup {t}
      /\ t \in pending' => unresolved'[t] = ToSet(a)
      /\ \A s \in pending : unresolved'[s] = unresolved[s]
  BY <1>2, <1>3, <1>4, <1>5, SubmitSched DEF TaskInv
<1>7. /\ f = [at |-> f.at, task |-> f.task, todo |-> f.todo, vals |-> f.vals]
      /\ f.task = t /\ f.todo = a /\ f.at = IF a = <<>> THEN "flush" ELSE "recheck"
  BY <1>1 DEF Submitting, Frame
<1>8. FrameOK(u, f)'
  <2>1. a \in Seq(submitted')
    BY <1>4, <1>5, SequenceOver, SequenceIn
  <2>2. CallOK(u, f)' BY <1>5, <1>7, <2>1 DEF CallOK, Label
  <2>3. QED BY <1>7, <2>2 DEF FrameOK
<1>9. stack' = [stack EXCEPT ![u] = stack'[u]] /\ stack'[u] = <<f>>
  BY <1>2, <1>3 DEF Enter, StackInv
<1>10. StackOK(u)' /\ stack'[u] # <<>> /\ Top(u)' = f BY <1>8, <1>9, EnterOne
<1>11. StackInv' BY <1>3, <1>5, <1>9, <1>10, MovedStack
<1>12. Wakes(u) BY <1>2, <1>3, Awake DEF Wakes
<1>13. SleepInv' BY <1>3, <1>9, <1>12, MovedSleep
<1>14. ASSUME NEW s \in pending', NEW p \in Task \ Fails,
              p \in unresolved'[s], Store!contains(p)'
       PROVE  \/ OnTop(u, s, p)'
              \/ /\ s \in pending /\ p \in unresolved[s] /\ Store!contains(p)
                 /\ ~ OnTop(u, s, p)
  <2>1. CASE s = t
    <3>1. p \in ToSet(a) BY <1>6, <1>14, <2>1
    <3>2. f.at = "recheck" BY <1>7, <3>1, NoElement
    <3>3. Announces(f, s, p) BY <1>7, <2>1, <3>1, <3>2 DEF Announces
    <3>4. QED BY <1>10, <3>3 DEF OnTop
  <2>2. CASE s # t
    BY <1>2, <1>6, <1>14, <2>2 DEF OnTop, Store!contains
  <2>3. QED BY <2>1, <2>2
<1>15. NoMissedTrigger' BY <1>3, <1>9, <1>10, <1>14, MovedTriggers
<1>16. ValueInv' BY <1>2, <1>3, <1>5, StaysValues
<1>17. StatusInv'
  <2>1. status' = [status EXCEPT ![t] = "READY"] BY <1>2 DEF Table!register_task
  <2>2. stack'[Collector] = stack[Collector] BY <1>3, <1>9 DEF StackInv, Thread
  <2>3. \A s : Records(Collector, s) => Records(Collector, s)'
    BY <2>2 DEF Records, At, Top
  <2>4. /\ status' = [s \in Task |-> status'[s]] /\ status'[t] = "READY"
        /\ \A s \in submitted : status'[s] = status[s]
    BY <1>2, <1>3, <1>5, <2>1 DEF StatusInv, TaskInv
  <2>5. QED BY <1>2, <1>3, <1>5, <2>3, <2>4 DEF StatusInv, Produced
<1>18. QED BY <1>5, <1>6, <1>11, <1>13, <1>15, <1>16, <1>17 DEF RuntimeInv
-----------------------------------------------------------------------------
(***************************************************************************)
(* An eviction, and the steps outside the calls: the workers, the end of   *)
(* the collector, and what shutdown does to them.                          *)
(***************************************************************************)
LEMMA EvictObjectInv ==
    ASSUME RuntimeInv, NEW u \in User, NEW o \in submitted, EvictObject(u, o)
    PROVE  RuntimeInv'
<1>1. /\ store' = [store EXCEPT ![o] = Absent] /\ waiting' = [waiting EXCEPT ![o] = {}]
      /\ evicts < MaxEvicts /\ evicts' = evicts + 1
      /\ UNCHANGED <<blocked, signalling, woken, stack>> /\ UNCHANGED schedVars
      /\ UNCHANGED <<submitted, args, status, refs, gone, produced>> /\ UNCHANGED ipcVars
      /\ UNCHANGED <<pending, unresolved>>
  BY DEF EvictObject, Store!Delete, schedVars, tableVars, lifeVars
<1>2. /\ TaskInv /\ ValueInv /\ StackInv /\ SleepInv /\ SchedInv /\ NoMissedTrigger
      /\ StatusInv /\ Grows
  BY <1>1, GrowsSame DEF RuntimeInv
<1>3. /\ store' = [t \in Task |-> store'[t]]
      /\ \A t \in Task : Store!contains(t)' => Store!contains(t) /\ store'[t] = store[t]
  BY <1>1, <1>2 DEF ValueInv, Store!contains
<1>4. evicts' \in 0 .. MaxEvicts /\ evicts' # 0
  BY <1>1, <1>2, RuntimeAssumption DEF TaskInv
<1>5. TaskInv' BY <1>1, <1>2, <1>4 DEF TaskInv
<1>6. ValueInv'
  <2>1. \A t \in Task : Store!contains(t)' => store'[t] = produced'[t]
    BY <1>1, <1>2, <1>3 DEF ValueInv
  <2>2. \A t \in Task : Produced(t)' => Computed(t, produced[t])'
    BY <1>1, <1>2 DEF ValueInv, Computed, ArgsProduced, ArgValues, Produced
  <2>3. \A e \in ToSet(taskQueue) : e = Sentinel \/ Called(e[1], e[2])'
    BY <1>2, StaysCalled DEF ValueInv
  <2>4. ASSUME NEW w \in Worker
        PROVE  running[w] = Nothing \/ Called(running[w][1], running[w][2])'
    <3>1. PICK e : e = running[w] OBVIOUS
    <3>2. e = Nothing \/ Called(e[1], e[2]) BY <1>2, <3>1 DEF ValueInv
    <3>3. e = Nothing \/ Called(e[1], e[2])' BY <1>2, <3>2, StaysCalled
    <3>4. QED BY <1>1, <3>1, <3>3 DEF ipcVars
  <2>5. \A q \in ToSet(resultQueue) : Computed(q[1], q[2])'
    BY <1>2, StaysCalled DEF ValueInv
  <2>6. QED BY <1>1, <1>2, <1>3, <1>4, <2>1, <2>2, <2>3, <2>4, <2>5 DEF ValueInv, ipcVars
<1>7. StackInv' /\ SchedInv' BY <1>1, <1>2, StillStacks, StaysSched
<1>8. SleepInv'
  <2>1. /\ waiting' = [p \in Task |-> waiting'[p]]
        /\ \A p \in Task : waiting'[p] \subseteq waiting[p]
    BY <1>1, <1>2 DEF SleepInv
  <2>2. ASSUME NEW g \in Thread PROVE Awaited(g)' = Awaited(g)
    BY <1>1 DEF Awaited, Top, NextArg
  <2>3. QED BY <1>1, <1>2, <2>1, <2>2 DEF SleepInv
<1>9. NoMissedTrigger' BY <1>1, <1>2, <1>3, StillTriggers
<1>10. StatusInv' BY <1>1, <1>2 DEF StatusInv, Records, At, Top, Produced
<1>11. QED BY <1>5, <1>6, <1>7, <1>8, <1>9, <1>10 DEF RuntimeInv

\* The queues and the workers hold calls and results of tasks as before.
LEMMA MovedValues ==
    ASSUME ValueInv, UNCHANGED <<store, submitted, args, produced, evicts>>,
           IsSequence(taskQueue'), IsSequence(resultQueue'),
           \A e \in ToSet(taskQueue') : e = Sentinel \/ Called(e[1], e[2]),
           running' = [w \in Worker |-> running'[w]],
           \A w \in Worker : \/ running'[w] = Nothing
                             \/ Called(running'[w][1], running'[w][2]),
           \A r \in ToSet(resultQueue') : Computed(r[1], r[2])
    PROVE  ValueInv'
<1>1. \A t, v : (Called(t, v)' <=> Called(t, v)) /\ (Computed(t, v)' <=> Computed(t, v))
  BY DEF Called, Computed, ArgsProduced, ArgValues, Produced
<1>2. ASSUME NEW t \in Task, Produced(t)' PROVE Computed(t, produced[t])'
  <2>1. PICK v : v = produced[t] OBVIOUS
  <2>2. Computed(t, v) BY <1>2, <2>1 DEF ValueInv, Produced
  <2>3. QED BY <1>1, <2>1, <2>2
<1>3. ASSUME NEW w \in Worker
      PROVE  running'[w] = Nothing \/ Called(running[w][1], running[w][2])'
  <2>1. PICK e : e = running'[w] OBVIOUS
  <2>2. e = Nothing \/ Called(e[1], e[2])' BY <1>1, <2>1
  <2>3. QED BY <2>1, <2>2
<1>4. QED BY <1>1, <1>2, <1>3 DEF ValueInv, Store!contains

\* The whole invariant, when a worker or the collector moves alone.
LEMMA OutsideMoves ==
    ASSUME RuntimeInv, UNCHANGED <<store, waiting, blocked, signalling, woken>>,
           UNCHANGED schedVars, UNCHANGED <<stack, submitted, args, status, produced>>,
           TaskInv', ValueInv'
    PROVE  RuntimeInv'
<1>1. /\ TaskInv /\ StackInv /\ SleepInv /\ SchedInv /\ NoMissedTrigger /\ StatusInv
      /\ Grows /\ UNCHANGED <<pending, unresolved>>
  BY GrowsSame DEF RuntimeInv, schedVars
<1>2. StackInv' /\ SchedInv' BY <1>1, StillStacks, StaysSched
<1>3. SleepInv'
  <2>1. ASSUME NEW g \in Thread PROVE Awaited(g)' = Awaited(g)
    BY DEF Awaited, Top, NextArg
  <2>2. QED BY <1>1, <2>1 DEF SleepInv
<1>4. NoMissedTrigger' BY <1>1, StillTriggers DEF Store!contains
<1>5. StatusInv' BY <1>1 DEF StatusInv, Records, At, Top, Produced
<1>6. QED BY <1>2, <1>3, <1>4, <1>5 DEF RuntimeInv

LEMMA TakeTaskInv ==
    ASSUME RuntimeInv, NEW w \in Worker, TakeTask(w)
    PROVE  RuntimeInv'
<1>1. PICK e : e = Head(taskQueue) OBVIOUS
<1>2. /\ taskQueue # <<>> /\ taskQueue' = Tail(taskQueue)
      /\ \/ e = Sentinel /\ gone' = gone \cup {w} /\ running' = running
         \/ e # Sentinel /\ running' = [running EXCEPT ![w] = e] /\ gone' = gone
      /\ UNCHANGED <<store, waiting, blocked, signalling, woken>> /\ UNCHANGED schedVars
      /\ UNCHANGED <<submitted, args, status, refs, stack, resultQueue, produced, evicts>>
  BY <1>1 DEF TakeTask, osVars, tableVars, histVars
<1>3. TaskInv /\ ValueInv BY DEF RuntimeInv
<1>4. /\ IsSequence(taskQueue') /\ e \in ToSet(taskQueue)
      /\ ToSet(taskQueue') \subseteq ToSet(taskQueue)
  BY <1>1, <1>2, <1>3, TailSequence DEF ValueInv
<1>5. /\ \A d \in ToSet(taskQueue') : d = Sentinel \/ Called(d[1], d[2])
      /\ e = Sentinel \/ Called(e[1], e[2])
  BY <1>3, <1>4 DEF ValueInv
<1>6. /\ running' = [x \in Worker |-> running'[x]]
      /\ \A x \in Worker : running'[x] = running[x] \/ (e # Sentinel /\ running'[x] = e)
  BY <1>2, <1>3 DEF ValueInv
<1>7. \A x \in Worker : running'[x] = Nothing \/ Called(running'[x][1], running'[x][2])
  BY <1>3, <1>5, <1>6 DEF ValueInv
<1>8. TaskInv' BY <1>2, <1>3 DEF TaskInv
<1>9. ValueInv'
  <2>1. IsSequence(resultQueue') /\ \A r \in ToSet(resultQueue') : Computed(r[1], r[2])
    BY <1>2, <1>3 DEF ValueInv
  <2>2. QED BY <1>2, <1>3, <1>4, <1>5, <1>6, <1>7, <2>1, MovedValues
<1>10. QED BY <1>2, <1>8, <1>9, OutsideMoves

LEMMA ReportResultInv ==
    ASSUME RuntimeInv, NEW w \in Worker, ReportResult(w)
    PROVE  RuntimeInv'
<1>1. PICK t, vals, r : /\ t = running[w][1] /\ vals = running[w][2]
                        /\ r = <<t, Outcome(t, vals)>>
  OBVIOUS
<1>2. /\ running[w] # Nothing /\ resultQueue' = Append(resultQueue, r)
      /\ running' = [running EXCEPT ![w] = Nothing]
      /\ UNCHANGED <<store, waiting, blocked, signalling, woken>> /\ UNCHANGED schedVars
      /\ UNCHANGED <<submitted, args, status, refs, stack, taskQueue, gone, produced, evicts>>
  BY <1>1 DEF ReportResult, osVars, tableVars, lifeVars, histVars
<1>3. TaskInv /\ ValueInv BY DEF RuntimeInv
<1>4. Called(t, vals) BY <1>1, <1>2, <1>3 DEF ValueInv
<1>5. Computed(t, Outcome(t, vals)) BY <1>4 DEF Called, Computed
<1>6. IsSequence(resultQueue') /\ ToSet(resultQueue') = ToSet(resultQueue) \cup {r}
  BY <1>2, <1>3, AppendSequence DEF ValueInv
<1>7. \A q \in ToSet(resultQueue') : Computed(q[1], q[2])
  <2>1. Computed(r[1], r[2]) BY <1>1, <1>5
  <2>2. QED BY <1>3, <1>6, <2>1 DEF ValueInv
<1>8. /\ running' = [x \in Worker |-> running'[x]]
      /\ \A x \in Worker : running'[x] = running[x] \/ running'[x] = Nothing
  BY <1>2, <1>3 DEF ValueInv
<1>9. TaskInv' BY <1>2, <1>3, StaysTasks
<1>10. ValueInv'
  <2>1. /\ IsSequence(taskQueue')
        /\ \A e \in ToSet(taskQueue') : e = Sentinel \/ Called(e[1], e[2])
        /\ \A x \in Worker : running'[x] = Nothing \/ Called(running'[x][1], running'[x][2])
    BY <1>2, <1>3, <1>8 DEF ValueInv
  <2>2. QED BY <1>2, <1>3, <1>6, <1>7, <1>8, <2>1, MovedValues
<1>11. QED BY <1>2, <1>9, <1>10, OutsideMoves

LEMMA TerminateInv ==
    ASSUME RuntimeInv, NEW u, NEW w \in Worker, Terminate(u, w)
    PROVE  RuntimeInv'
<1>1. /\ gone' = gone \cup {w} /\ running' = [running EXCEPT ![w] = Nothing]
      /\ UNCHANGED <<store, waiting, blocked, signalling, woken>> /\ UNCHANGED schedVars
      /\ UNCHANGED <<submitted, args, status, refs, stack, taskQueue, resultQueue>>
      /\ UNCHANGED <<produced, evicts>>
  BY DEF Terminate, osVars, tableVars, histVars
<1>2. TaskInv /\ ValueInv BY DEF RuntimeInv
<1>3. /\ running' = [x \in Worker |-> running'[x]]
      /\ \A x \in Worker : running'[x] = running[x] \/ running'[x] = Nothing
  BY <1>1, <1>2 DEF ValueInv
<1>4. TaskInv' BY <1>1, <1>2 DEF TaskInv
<1>5. ValueInv'
  <2>1. /\ IsSequence(taskQueue') /\ IsSequence(resultQueue')
        /\ \A e \in ToSet(taskQueue') : e = Sentinel \/ Called(e[1], e[2])
        /\ \A x \in Worker : running'[x] = Nothing \/ Called(running'[x][1], running'[x][2])
        /\ \A r \in ToSet(resultQueue') : Computed(r[1], r[2])
    BY <1>1, <1>2, <1>3 DEF ValueInv
  <2>2. QED BY <1>1, <1>2, <1>3, <2>1, MovedValues
<1>6. QED BY <1>1, <1>4, <1>5, OutsideMoves

LEMMA CollectorExitInv ==
    ASSUME RuntimeInv, CollectorExit
    PROVE  RuntimeInv'
<1>1. /\ gone' = gone \cup {Collector}
      /\ UNCHANGED <<store, waiting, blocked, signalling, woken>> /\ UNCHANGED schedVars
      /\ UNCHANGED <<submitted, args, status, refs, stack, produced, evicts>>
      /\ UNCHANGED ipcVars
  BY DEF CollectorExit, osVars, tableVars, histVars
<1>2. TaskInv /\ ValueInv /\ Grows BY <1>1, GrowsSame DEF RuntimeInv
<1>3. TaskInv' BY <1>1, <1>2 DEF TaskInv
<1>4. ValueInv' BY <1>1, <1>2, StaysValues
<1>5. QED BY <1>1, <1>3, <1>4, OutsideMoves

LEMMA ShutdownInv ==
    ASSUME RuntimeInv, NEW u \in Thread, Shutdown(u)
    PROVE  RuntimeInv'
<1>1. PICK f : f = Frame("join", Nothing, <<>>) OBVIOUS
<1>2. /\ taskQueue' = taskQueue \o [i \in 1 .. Cardinality(Worker) |-> Sentinel]
      /\ stack[u] = <<>> /\ Enter(u, <<f>>)
      /\ UNCHANGED osVars /\ UNCHANGED schedVars /\ UNCHANGED <<pending, unresolved>>
      /\ UNCHANGED <<submitted, args, status, refs, running, resultQueue, gone>>
      /\ UNCHANGED <<produced, evicts>>
  BY <1>1 DEF Shutdown, Enter, schedVars, tableVars, histVars
<1>3. TaskInv /\ ValueInv /\ StackInv /\ SleepInv /\ SchedInv /\ Grows
  BY <1>2, GrowsSame DEF RuntimeInv
<1>4. stack' = [stack EXCEPT ![u] = stack'[u]] /\ stack'[u] = <<f>>
  BY <1>2, <1>3 DEF Enter, StackInv
<1>5. FrameOK(u, f)
  <2>1. <<>> \in Seq(submitted) BY EmptySeq
  <2>2. /\ f = [at |-> f.at, task |-> f.task, todo |-> f.todo, vals |-> f.vals]
        /\ f.at = "join" /\ f.todo = <<>>
    BY <1>1 DEF Frame
  <2>3. QED BY <2>1, <2>2 DEF FrameOK, CallOK, Label
<1>6. StackOK(u)' BY <1>3, <1>4, <1>5, StaysFrame, EnterOne
<1>7. Wakes(u) /\ UNCHANGED store BY <1>2, <1>3, Awake DEF Wakes, osVars
<1>8. IsSequence(taskQueue') /\ ToSet(taskQueue') \subseteq ToSet(taskQueue) \cup {Sentinel}
  <2> DEFINE S == ToSet(taskQueue) \cup {Sentinel}
  <2>1. PICK n \in Nat : n = Cardinality(Worker) BY RuntimeAssumption, FS_CardinalityType
  <2>2. taskQueue \in Seq(S) /\ Sentinel \in S BY <1>3, SequenceIn DEF ValueInv
  <2>3. taskQueue' = taskQueue \o [i \in 1 .. n |-> Sentinel] BY <1>2, <2>1
  <2>4. taskQueue' \in Seq(S)
    <3> HIDE DEF S
    <3>1. QED BY <2>2, <2>3, RepeatedElement
  <2>5. QED BY <2>4, SequenceOver
<1>9. \A e \in ToSet(taskQueue') : e = Sentinel \/ Called(e[1], e[2])'
  BY <1>3, <1>8, StaysCalled DEF ValueInv
<1>10. ValueInv' BY <1>2, <1>3, <1>7, <1>8, <1>9, QueuedValues
<1>11. TaskInv' /\ SchedInv' BY <1>2, <1>3, StaysTasks, StaysSched
<1>12. \A t, o : ~ OnTop(u, t, o) BY <1>2, Silent
<1>13. QED BY <1>2, <1>4, <1>6, <1>7, <1>10, <1>11, <1>12, ThreadStep

LEMMA ShutdownReturnInv ==
    ASSUME RuntimeInv, NEW u \in Thread, ShutdownReturn(u)
    PROVE  RuntimeInv'
<1>1. /\ At(u, "join") /\ Return(u)
      /\ UNCHANGED osVars /\ UNCHANGED schedVars /\ UNCHANGED <<pending, unresolved>>
      /\ UNCHANGED <<submitted, args, status, refs, gone, produced, evicts>>
      /\ UNCHANGED ipcVars
  BY DEF ShutdownReturn, schedVars, tableVars, histVars
<1>2. TaskInv /\ ValueInv /\ StackInv /\ SleepInv /\ SchedInv /\ Grows
  BY <1>1, GrowsSame DEF RuntimeInv
<1>3. stack[u] # <<>> /\ Top(u).at = "join" BY <1>1 DEF At
<1>4. StackOK(u)' BY <1>1, <1>2, <1>3, ReturnStack
<1>5. stack' = [stack EXCEPT ![u] = stack'[u]] BY <1>1, <1>2, OnlyStack
<1>6. Wakes(u) /\ UNCHANGED store
  BY <1>1, <1>2, AwakeAt DEF Wakes, osVars, Sleepless, Label
<1>7. TaskInv' /\ ValueInv' /\ SchedInv'
  BY <1>1, <1>2, <1>6, StaysTasks, StaysValues, StaysSched
<1>8. \A t, o : ~ OnTop(u, t, o) BY <1>3, Silent
<1>9. QED BY <1>1, <1>3, <1>4, <1>5, <1>6, <1>7, <1>8, ThreadStep
-----------------------------------------------------------------------------
(***************************************************************************)
(* The invariant holds at first and after every step.                      *)
(***************************************************************************)
LEMMA InitInv == Init => RuntimeInv
<1> SUFFICES ASSUME Init PROVE RuntimeInv
  OBVIOUS
<1>1. /\ submitted = {} /\ args = [t \in Task |-> <<>>]
      /\ status = [t \in Task |-> "READY"]
  BY DEF Init, Table!TableInit, Table!Task, Task
<1>2. /\ store = [t \in Task |-> Absent] /\ waiting = [o \in Task |-> {}]
      /\ blocked = [th \in Thread |-> Nothing] /\ signalling = [th \in Thread |-> {}]
      /\ woken = {}
  BY DEF Init, Store!OSInit
<1>3. /\ pending = {} /\ unresolved = [t \in Task |-> {}]
      /\ waitingOn = [t \in Task |-> <<>>] /\ ready = <<>>
  BY DEF Init, Sched!SchedInit
<1>4. /\ refs = {} /\ stack = [th \in Thread |-> <<>>] /\ taskQueue = <<>>
      /\ resultQueue = <<>> /\ running = [w \in Worker |-> Nothing]
      /\ gone = {} /\ produced = [t \in Task |-> Absent] /\ evicts = 0
  BY DEF Init
<1>5. TaskInv
  <2>1. Cardinality(submitted) = 0 BY <1>1, FS_EmptySet
  <2>2. 1 .. 0 = {} OBVIOUS
  <2>3. args \in [Task -> SeqOf(submitted, MaxArgs)]
    BY <1>1, EmptyIsBounded, RuntimeAssumption
  <2>4. evicts \in 0 .. MaxEvicts BY <1>4, RuntimeAssumption
  <2>5. QED BY <1>1, <1>4, <2>1, <2>2, <2>3, <2>4 DEF TaskInv
<1>6. ValueInv
  <2>1. \A t \in Task : ~ Store!contains(t) /\ ~ Produced(t)
    BY <1>2, <1>4 DEF Store!contains, Produced
  <2>2. QED BY <1>2, <1>4, <2>1, NoElement DEF ValueInv
<1>7. StackInv BY <1>4, NoElement DEF StackInv, StackOK
<1>8. SleepInv BY <1>2 DEF SleepInv
<1>9. SchedInv
  <2>1. <<>> \in Seq(submitted) /\ ToSet(<<>>) = {} BY EmptySeq, NoElement
  <2>2. QED BY <1>1, <1>3, <2>1 DEF SchedInv
<1>10. NoMissedTrigger BY <1>3 DEF NoMissedTrigger
<1>11. StatusInv BY <1>1 DEF StatusInv
<1>12. QED BY <1>5, <1>6, <1>7, <1>8, <1>9, <1>10, <1>11 DEF RuntimeInv

LEMMA AdvanceInv ==
    ASSUME RuntimeInv, NEW th \in Thread, Advance(th)
    PROVE  RuntimeInv'
<1>1. CASE Block(th) BY <1>1, BlockInv
<1>2. CASE RaiseKeyError(th) BY <1>2, RaiseKeyErrorInv
<1>3. CASE ResolveArg(th) BY <1>3, ResolveArgInv
<1>4. CASE SendTask(th) BY <1>4, SendTaskInv
<1>5. CASE Recheck(th) BY <1>5, RecheckInv
<1>6. CASE Announce(th) BY <1>6, AnnounceInv
<1>7. CASE FlushNext(th) BY <1>7, FlushNextInv
<1>8. CASE FlushDone(th) BY <1>8, FlushDoneInv
<1>9. CASE GetRebuilt(th) BY <1>9, GetRebuiltInv
<1>10. CASE RebuildDep(th) BY <1>10, RebuildDepInv
<1>11. CASE EndCall(th) BY <1>11, EndCallInv
<1>12. CASE Finished(th) BY <1>12, FinishedInv
<1>13. CASE Failed(th) BY <1>13, FailedInv
<1>14. CASE WaitLook(th) BY <1>14, WaitLookInv
<1>15. QED
  BY <1>1, <1>2, <1>3, <1>4, <1>5, <1>6, <1>7, <1>8, <1>9, <1>10, <1>11, <1>12, <1>13,
     <1>14 DEF Advance

LEMMA UserCallInv ==
    ASSUME RuntimeInv, NEW u \in User, UserCall(u)
    PROVE  RuntimeInv'
<1>1. u \in Thread /\ refs \subseteq submitted BY DEF Thread, RuntimeInv, TaskInv
<1>2. ASSUME NEW a \in SeqOf(refs, MaxArgs), SubmitTask(u, a) PROVE RuntimeInv'
  BY <1>2, SubmitTaskInv
<1>3. ASSUME NEW o \in refs, GetObject(u, o) \/ Reconstruct(u, o) \/ EvictObject(u, o)
      PROVE  RuntimeInv'
  BY <1>1, <1>3, GetObjectInv, ReconstructInv, EvictObjectInv
<1>4. ASSUME NEW w \in Waits, ToSet(w[1]) \subseteq refs, Wait(u, w[1], w[2])
      PROVE  RuntimeInv'
  <2>1. PICK s, k : s = w[1] /\ k = w[2] OBVIOUS
  <2>2. s \in Seq(Task) /\ ToSet(s) \subseteq submitted
    BY <1>1, <1>4, <2>1, RuntimeAssumption
  <2>3. s \in Seq(submitted) BY <2>2, SequenceOver, SequenceIn
  <2>4. QED BY <1>1, <1>4, <2>1, <2>3, WaitInv
<1>5. CASE Shutdown(u) BY <1>1, <1>5, ShutdownInv
<1>6. QED BY <1>2, <1>3, <1>4, <1>5 DEF UserCall

\* Every step keeps the inductive invariant.
LEMMA NextInv == RuntimeInv /\ [Next]_vars => RuntimeInv'
<1> SUFFICES ASSUME RuntimeInv, [Next]_vars PROVE RuntimeInv'
  OBVIOUS
<1>1. ASSUME NEW th \in Thread, Advance(th) PROVE RuntimeInv'
  BY <1>1, AdvanceInv
<1>2. ASSUME NEW u \in User, UserCall(u) PROVE RuntimeInv'
  BY <1>2, UserCallInv
<1>3. ASSUME NEW u \in User, TimeoutRead(u) \/ DeadlinePasses(u) \/ ShutdownReturn(u)
      PROVE  RuntimeInv'
  <2>1. u \in Thread BY DEF Thread
  <2>2. QED BY <1>3, <2>1, EndCallInv, WaitLookInv, ShutdownReturnInv
<1>4. ASSUME NEW u \in User, NEW w \in Worker, Terminate(u, w) PROVE RuntimeInv'
  BY <1>4, TerminateInv
<1>5. ASSUME NEW w \in Worker, TakeTask(w) \/ ReportResult(w) PROVE RuntimeInv'
  BY <1>5, TakeTaskInv, ReportResultInv
<1>6. CASE Collect BY <1>6, CollectResultInv, SetEventInv, CollectorExitInv DEF Collect
<1>7. CASE UNCHANGED vars
  <2>1. /\ UNCHANGED <<store, waiting, blocked, signalling, woken, stack>>
        /\ UNCHANGED schedVars /\ UNCHANGED restVars
    BY <1>7 DEF vars, osVars
  <2>2. SleepInv'
    <3>1. SleepInv BY DEF RuntimeInv
    <3>2. ASSUME NEW g \in Thread PROVE Awaited(g)' = Awaited(g)
      BY <2>1 DEF Awaited, Top, NextArg
    <3>3. QED BY <2>1, <3>1, <3>2 DEF SleepInv
  <2>3. QED BY <2>1, <2>2, WaitingInv
<1>8. QED BY <1>1, <1>2, <1>3, <1>4, <1>5, <1>6, <1>7 DEF Next

(***************************************************************************)
(* The inductive invariant holds in every state the runtime reaches: the   *)
(* table, the values, the stack of every thread, who sleeps on what, the   *)
(* scheduler, and the thread that will announce what a pending task still  *)
(* waits for (driver.py:150-357, api.py:240-258).                          *)
(***************************************************************************)
THEOREM RuntimeInvariant == Spec => []RuntimeInv
BY InitInv, NextInv, PTL DEF Spec
-----------------------------------------------------------------------------
(***************************************************************************)
(* The tasks and objects that the calls, the scheduler and the sleeping    *)
(* threads are about have been submitted (driver.py:170-321).              *)
(***************************************************************************)
THEOREM RuntimeTypeOK == Spec => []TypeOK
<1>1. RuntimeInv => TypeOK
  <2> SUFFICES ASSUME RuntimeInv PROVE TypeOK
    OBVIOUS
  <2>1. TaskInv /\ StackInv /\ SleepInv /\ SchedInv BY DEF RuntimeInv
  <2>2. ASSUME NEW th \in Thread, NEW f, FrameOK(th, f) PROVE IsFrame(f)
    <3>1. CASE f.at = "wait"
      <4>1. f.todo \in Seq(submitted) BY <2>2, <3>1 DEF FrameOK, WaitOK
      <4>2. QED BY <3>1, <4>1, SequenceOver DEF IsFrame, Label
    <3>2. CASE f.at # "wait"
      <4>1. /\ f.at \in Label /\ f.todo \in Seq(submitted)
            /\ f.at # "join" => f.task \in submitted
        BY <2>2, <3>2 DEF FrameOK, CallOK
      <4>2. QED BY <4>1, SequenceOver DEF IsFrame
    <3>3. QED BY <3>1, <3>2
  <2>3. ASSUME NEW th \in Thread, NEW i \in DOMAIN stack[th] PROVE IsFrame(stack[th][i])
    <3>1. stack[th] # <<>> /\ stack[th][i] \in ToSet(stack[th])
      BY NoElement DEF ToSet
    <3>2. FrameOK(th, stack[th][i]) BY <2>1, <3>1, TopFrame
    <3>3. QED BY <2>2, <3>2
  <2>4. ASSUME NEW th \in Thread PROVE blocked[th] \in submitted \cup {Nothing}
    <3>1. CASE blocked[th] = Nothing BY <3>1
    <3>2. CASE blocked[th] # Nothing
      <4>1. PICK f : f = Top(th) OBVIOUS
      <4>2. stack[th] # <<>> /\ Awaited(th) = blocked[th] BY <2>1, <3>2 DEF SleepInv
      <4>3. f.at \in {"resolveFlush", "resolveRebuild", "awaitRebuilt", "read"}
        BY <3>2, <4>1, SleepsAt
      <4>4. f.todo \in Seq(submitted) /\ f.task \in submitted
        BY <2>1, <4>1, <4>2, <4>3, TopFrame DEF FrameOK, CallOK
      <4>5. CASE f.at \in {"resolveFlush", "resolveRebuild"}
        <5>1. f.todo # <<>> /\ Awaited(th) = Head(f.todo)
          BY <3>2, <4>1, <4>2, <4>5 DEF Awaited, NextArg
        <5>2. QED BY <4>2, <4>4, <5>1, SplitElements
      <4>6. CASE f.at \in {"awaitRebuilt", "read"}
        <5>1. Awaited(th) = f.task BY <4>1, <4>6 DEF Awaited
        <5>2. QED BY <4>2, <4>4, <5>1
      <4>7. QED BY <4>3, <4>5, <4>6
    <3>3. QED BY <3>1, <3>2
  <2>5. blocked \in [Thread -> submitted \cup {Nothing}] BY <2>1, <2>4 DEF SleepInv
  <2>6. pending \cup ToSet(ready) \subseteq submitted
    BY <2>1, SequenceOver DEF SchedInv
  <2>7. QED BY <2>1, <2>3, <2>5, <2>6 DEF TypeOK, TaskInv
<1>2. QED BY <1>1, RuntimeInvariant, PTL

(***************************************************************************)
(* As long as a task waits for an object that is in the store, a thread is *)
(* about to announce it: the one that submits the task or the collector    *)
(* that stored the object (driver.py:211-220, 346-357).                    *)
(***************************************************************************)
THEOREM RuntimeTriggers == Spec => []NoMissedTrigger
<1>1. RuntimeInv => NoMissedTrigger BY DEF RuntimeInv
<1>2. QED BY <1>1, RuntimeInvariant, PTL

(***************************************************************************)
(* A task is READY until it has a value, then FINISHED or FAILED as the    *)
(* value says, and late only while the collector records it                *)
(* (driver.py:346-357).                                                    *)
(***************************************************************************)
THEOREM RuntimeStatus == Spec => []StatusFollowsValue
<1>1. RuntimeInv => StatusFollowsValue
  <2>1. \A v : Table!Raised(v) <=> Raised(v) BY DEF Table!Raised, Raised
  <2>2. QED BY <2>1 DEF RuntimeInv, StatusInv, Produced, StatusFollowsValue, Table!Follows
<1>2. QED BY <1>1, RuntimeInvariant, PTL

(***************************************************************************)
(* As long as nothing has been evicted, the arguments of a ready task are  *)
(* in the store until it is sent (driver.py:311-316).                      *)
(***************************************************************************)
THEOREM RuntimeArgsInStore == Spec => []ReadyArgsInStore
<1>1. RuntimeInv => ReadyArgsInStore
  <2> SUFFICES ASSUME RuntimeInv, evicts = 0
               PROVE  /\ \A t \in ToSet(ready) : \A d \in ToSet(args[t]) : Store!contains(d)
                      /\ \A th \in Thread : At(th, "resolveFlush") =>
                             \A d \in ToSet(Top(th).todo) : Store!contains(d)
    BY DEF ReadyArgsInStore
  <2>1. /\ TaskInv /\ ValueInv /\ StackInv /\ SchedInv
        /\ \A d : Produced(d) => Store!contains(d)
    BY DEF RuntimeInv, ValueInv, Produced, Store!contains
  <2>2. \A t \in ToSet(ready) : \A d \in ToSet(args[t]) : Store!contains(d)
    BY <2>1 DEF SchedInv, ArgsProduced
  <2>3. ASSUME NEW th \in Thread, At(th, "resolveFlush"), NEW d \in ToSet(Top(th).todo)
        PROVE  Store!contains(d)
    <3>1. PICK f : f = Top(th) OBVIOUS
    <3>2. CallOK(th, f) /\ f.at = "resolveFlush" BY <2>1, <2>3, <3>1, AtFrame
    <3>3. /\ Partial(f.task, f.todo, f.vals) /\ f.task \in submitted
          /\ f.todo \in Seq(submitted) /\ ArgsProduced(f.task)
      BY <3>2 DEF CallOK
    <3>4. PICK i \in 1 .. Len(f.todo) : d = f.todo[i]
      BY <2>3, <3>1, <3>3, SequenceOver DEF ToSet
    <3>5. PICK l \in Nat, m \in Nat, n \in Nat :
              l = Len(args[f.task]) /\ m = Len(f.vals) /\ n = Len(f.todo)
      BY <2>1, <3>3, Arguments, SequenceOver DEF Partial, IsSequence
    <3>6. m + i \in 1 .. l /\ d = args[f.task][m + i]
      <4>1. m + n = l /\ i \in 1 .. n BY <3>3, <3>5 DEF Partial
      <4>2. m + i \in 1 .. l BY <4>1, TwoParts
      <4>3. QED BY <3>3, <3>4, <3>5, <4>2 DEF Partial
    <3>7. d \in ToSet(args[f.task]) BY <2>1, <3>3, <3>5, <3>6, Arguments
    <3>8. QED BY <2>1, <3>3, <3>7 DEF ArgsProduced
  <2>4. QED BY <2>2, <2>3
<1>2. QED BY <1>1, RuntimeInvariant, PTL

(***************************************************************************)
(* wait sorts the list it was given into what it has found, what it has    *)
(* not and what it still has to look at, repetitions included, and finds   *)
(* only what has been computed (api.py:240-258).                           *)
(***************************************************************************)
THEOREM RuntimeWaitCounts == Spec => []WaitCountsOnce
<1>1. RuntimeInv => WaitCountsOnce
  <2> SUFFICES ASSUME RuntimeInv, NEW u \in User, At(u, "wait"), NEW f, f = Top(u),
                      NEW o \in Task
               PROVE  /\ Times(f.of, o) = Times(f.ready \o f.remaining \o f.todo, o)
                      /\ o \in ToSet(f.ready) => produced[o] # Absent
    BY DEF WaitCountsOnce, Times
  <2>1. WaitOK(f)
    <3>1. u \in Thread /\ StackInv BY DEF Thread, RuntimeInv
    <3>2. QED BY <3>1, TopFrame DEF At, FrameOK
  <2>2. PICK p, q, s : /\ p = f.ready /\ q = f.remaining /\ s = f.todo
                       /\ p \in Seq(submitted) /\ q \in Seq(submitted) /\ s \in Seq(submitted)
    BY <2>1 DEF WaitOK
  <2>3. p \o q \in Seq(submitted) /\ Times(p \o q, o) = Times(p, o) + Times(q, o)
    BY <2>2, TimesConcat
  <2>4. Times((p \o q) \o s, o) = Times(p \o q, o) + Times(s, o)
    <3>1. PICK r \in Seq(submitted) : r = p \o q BY <2>3
    <3>2. Times(r \o s, o) = Times(r, o) + Times(s, o) BY <2>2, TimesConcat
    <3>3. QED BY <3>1, <3>2, Zenon
  <2>5. Times(f.of, o) = Times((p \o q) \o s, o)
    BY <2>1, <2>2, <2>3, <2>4 DEF WaitOK
  <2>6. QED BY <2>1, <2>2, <2>5 DEF WaitOK, Produced
<1>2. QED BY <1>1, RuntimeInvariant, PTL
-----------------------------------------------------------------------------
(***************************************************************************)
(* The refinement: what the runtime does to the tasks and to the values it *)
(* has stored is what Futures promises.                                    *)
(***************************************************************************)
futures == <<submitted, args, produced>>

\* At first no future has been created.
LEMMA FutureInit == Init => Fut!FutInit
<1> SUFFICES ASSUME Init PROVE Fut!FutInit
  OBVIOUS
<1>1. submitted = {} /\ args = [t \in Task |-> <<>>]
  BY DEF Init, Table!TableInit, Table!Task, Task
<1>2. produced = [t \in Task |-> Absent] BY DEF Init
<1>3. QED BY <1>1, <1>2 DEF Fut!FutInit, Fut!Task, Task

\* A submit creates the future of the task.
LEMMA FutureSubmit ==
    ASSUME RuntimeInv, NEW u, NEW a \in SeqOf(refs, MaxArgs), SubmitTask(u, a)
    PROVE  Fut!FutNext
<1>1. PICK t : t = Cardinality(submitted) + 1 OBVIOUS
<1>2. /\ t \in Task /\ Table!register_task(t, a)
      /\ UNCHANGED <<refs, gone, produced, evicts>>
  BY <1>1 DEF SubmitTask, lifeVars, histVars
<1>3. TaskInv /\ ValueInv BY DEF RuntimeInv
<1>4. a \in SeqOf(submitted, MaxArgs) /\ ToSet(a) \subseteq submitted
  BY <1>3, BoundedSequence, RuntimeAssumption DEF TaskInv
<1>5. /\ t \notin submitted /\ submitted' = submitted \cup {t}
      /\ args'[t] = a /\ args' = [args EXCEPT ![t] = a]
  BY <1>1, <1>2, <1>3, <1>4, SubmitTasks
<1>6. Fut!ToSet(a) \subseteq submitted
  <2>1. Fut!ToSet(a) = ToSet(a) BY DEF Fut!ToSet, ToSet
  <2>2. QED BY <1>4, <2>1
<1>7. Fut!Create(t) BY <1>2, <1>5, <1>6 DEF Fut!Create
<1>8. QED BY <1>2, <1>7 DEF Fut!FutNext, Fut!Task, Task

\* A result resolves it, unless it has been resolved already.
LEMMA FutureResult ==
    ASSUME RuntimeInv, CollectResult
    PROVE  Fut!FutNext \/ UNCHANGED futures
<1>1. PICK r, t, v : r = Head(resultQueue) /\ t = r[1] /\ v = r[2] OBVIOUS
<1>2. /\ resultQueue # <<>> /\ produced' = [produced EXCEPT ![t] = v]
      /\ UNCHANGED <<submitted, args>>
  BY <1>1 DEF CollectResult, tableVars
<1>3. TaskInv /\ ValueInv BY DEF RuntimeInv
<1>4. Computed(t, v) BY <1>1, <1>2, <1>3, TailSequence DEF ValueInv
<1>5. /\ t \in submitted /\ t \in Task
      /\ \A d \in ToSet(args[t]) : produced[d] # Absent
      /\ v = Outcome(t, [i \in DOMAIN args[t] |-> produced[args[t][i]]])
  BY <1>3, <1>4 DEF Computed, ArgsProduced, ArgValues, TaskInv, Produced
<1>6. CASE produced[t] = Absent
  <2>1. Fut!ToSet(args[t]) = ToSet(args[t]) BY DEF Fut!ToSet, ToSet
  <2>2. \A vals : Fut!Outcome(t, vals) = Outcome(t, vals) BY DEF Fut!Outcome, Outcome
  <2>3. Fut!Resolve(t) BY <1>2, <1>5, <1>6, <2>1, <2>2 DEF Fut!Resolve
  <2>4. QED BY <1>5, <2>3 DEF Fut!FutNext, Fut!Task, Task
<1>7. CASE produced[t] # Absent
  <2>1. produced[t] = v BY <1>2, <1>3, <1>4, <1>7, PutFacts DEF Produced
  <2>2. produced' = produced BY <1>2, <1>3, <2>1 DEF ValueInv
  <2>3. QED BY <1>2, <2>2 DEF futures
<1>8. QED BY <1>6, <1>7

\* A thread that moves within a call touches no future.
LEMMA FutureAdvance ==
    ASSUME NEW th, Advance(th)
    PROVE  UNCHANGED futures
<1>1. CASE Block(th) \/ RaiseKeyError(th) \/ ResolveArg(th) \/ SendTask(th) \/ Recheck(th)
  BY <1>1 DEF Block, RaiseKeyError, ResolveArg, SendTask, Recheck, restVars, tableVars,
              histVars, futures
<1>2. CASE Announce(th) \/ FlushNext(th) \/ FlushDone(th) \/ GetRebuilt(th)
           \/ RebuildDep(th) \/ EndCall(th) \/ WaitLook(th)
  BY <1>2 DEF Announce, FlushNext, FlushDone, GetRebuilt, RebuildDep, EndCall, WaitLook,
              restVars, tableVars, histVars, futures
<1>3. CASE Finished(th) \/ Failed(th)
  BY <1>3 DEF Finished, Failed, Table!Record, histVars, futures
<1>4. QED BY <1>1, <1>2, <1>3 DEF Advance

\* Every step creates a future, resolves one, or leaves them alone.
LEMMA FutureNext ==
    ASSUME RuntimeInv, [Next]_vars
    PROVE  [Fut!FutNext]_futures
<1>1. ASSUME NEW th \in Thread, Advance(th) PROVE UNCHANGED futures
  BY <1>1, FutureAdvance
<1>2. ASSUME NEW u \in User, UserCall(u) PROVE [Fut!FutNext]_futures
  <2>1. ASSUME NEW a \in SeqOf(refs, MaxArgs), SubmitTask(u, a) PROVE Fut!FutNext
    BY <2>1, FutureSubmit
  <2>2. ASSUME NEW o, GetObject(u, o) \/ Reconstruct(u, o) \/ EvictObject(u, o)
        PROVE  UNCHANGED futures
    BY <2>2 DEF GetObject, Reconstruct, EvictObject, restVars, tableVars, histVars, futures
  <2>3. ASSUME NEW s, NEW k, Wait(u, s, k) PROVE UNCHANGED futures
    BY <2>3 DEF Wait, restVars, tableVars, histVars, futures
  <2>4. CASE Shutdown(u) BY <2>4 DEF Shutdown, tableVars, histVars, futures
  <2>5. QED BY <1>2, <2>1, <2>2, <2>3, <2>4 DEF UserCall
<1>3. ASSUME NEW u \in User, TimeoutRead(u) \/ DeadlinePasses(u) \/ ShutdownReturn(u)
      PROVE  UNCHANGED futures
  BY <1>3 DEF TimeoutRead, DeadlinePasses, ShutdownReturn, restVars, tableVars, histVars,
              futures
<1>4. ASSUME NEW u \in User, NEW w \in Worker, Terminate(u, w) PROVE UNCHANGED futures
  BY <1>4 DEF Terminate, tableVars, histVars, futures
<1>5. ASSUME NEW w \in Worker, TakeTask(w) \/ ReportResult(w) PROVE UNCHANGED futures
  BY <1>5 DEF TakeTask, ReportResult, tableVars, histVars, futures
<1>6. CASE Collect
  <2>1. CASE CollectResult BY <2>1, FutureResult
  <2>2. CASE SetEvent BY <2>2 DEF SetEvent, restVars, tableVars, histVars, futures
  <2>3. CASE CollectorExit BY <2>3 DEF CollectorExit, tableVars, histVars, futures
  <2>4. QED BY <1>6, <2>1, <2>2, <2>3 DEF Collect
<1>7. CASE UNCHANGED vars BY <1>7 DEF vars, restVars, tableVars, histVars, futures
<1>8. QED BY <1>1, <1>2, <1>3, <1>4, <1>5, <1>6, <1>7 DEF Next

(***************************************************************************)
(* An ObjectRef is a future: it is created by one submit_task, with        *)
(* arguments created before it, and is resolved once, to what its function *)
(* makes of their values, however often the task runs and whatever is      *)
(* evicted and rebuilt (driver.py:170-305, 340-357).                       *)
(***************************************************************************)
THEOREM RuntimeFutures == Spec => FuturesSafety
<1>1. RuntimeInv /\ [Next]_vars => [Fut!FutNext]_(Fut!futVars)
  BY FutureNext DEF futures, Fut!futVars
<1>2. QED BY <1>1, FutureInit, RuntimeInvariant, PTL DEF Spec, FuturesSafety, Fut!FutSafety
=============================================================================
