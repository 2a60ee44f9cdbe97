-------------------------- MODULE SequenceElements --------------------------
(***************************************************************************)
(* Lemmas for the proofs of several modules: the elements of the sequences *)
(* that Append, \o, Head, Tail and SetToSeqs make; induction; sequences    *)
(* that are cut and put together; and functions defined by recursion.      *)
(***************************************************************************)
EXTENDS Integers, Sequences, SequencesExt, SequenceTheorems, FiniteSetTheorems,
        WellFoundedInduction, TLAPS

LEMMA AppendElements ==
    ASSUME NEW S, NEW s \in Seq(S), NEW e \in S
    PROVE  /\ ToSet(Append(s, e)) = ToSet(s) \cup {e}
           /\ IsInjective(s) /\ e \notin ToSet(s) => IsInjective(Append(s, e))
<1>1. /\ Len(Append(s, e)) = Len(s) + 1
      /\ \A i \in 1 .. Len(s) : Append(s, e)[i] = s[i]
      /\ Append(s, e)[Len(s) + 1] = e
      /\ DOMAIN s = 1 .. Len(s)
      /\ DOMAIN Append(s, e) = 1 .. Len(s) + 1
      /\ Len(s) \in Nat
  BY AppendProperties, LenProperties
<1>2. ToSet(Append(s, e)) = ToSet(s) \cup {e}
  BY <1>1 DEF ToSet
<1>3. ASSUME IsInjective(s), e \notin ToSet(s)
      PROVE  IsInjective(Append(s, e))
  BY <1>1, <1>3 DEF ToSet, IsInjective
<1>4. QED BY <1>2, <1>3

LEMMA ConcatElements ==
    ASSUME NEW S, NEW s1 \in Seq(S), NEW s2 \in Seq(S)
    PROVE  /\ ToSet(s1 \o s2) = ToSet(s1) \cup ToSet(s2)
           /\ IsInjective(s1) /\ IsInjective(s2) /\ ToSet(s1) \cap ToSet(s2) = {}
                => IsInjective(s1 \o s2)
<1>1. /\ Len(s1) \in Nat /\ DOMAIN s1 = 1 .. Len(s1)
      /\ Len(s2) \in Nat /\ DOMAIN s2 = 1 .. Len(s2)
      /\ DOMAIN (s1 \o s2) = 1 .. Len(s1) + Len(s2)
  BY ConcatProperties, LenProperties
<1>2. \A i \in 1 .. Len(s1) : i \in DOMAIN (s1 \o s2) /\ (s1 \o s2)[i] = s1[i]
  BY <1>1, ConcatProperties
<1>3. \A i \in 1 .. Len(s2) :
          i + Len(s1) \in DOMAIN (s1 \o s2) /\ (s1 \o s2)[i + Len(s1)] = s2[i]
  BY <1>1, ConcatProperties
<1>4. \A k \in DOMAIN (s1 \o s2) :
          k \in 1 .. Len(s1) \/ \E i \in 1 .. Len(s2) : k = i + Len(s1)
  <2> TAKE k \in DOMAIN (s1 \o s2)
  <2>1. k \in 1 .. Len(s1) \/ (k - Len(s1) \in 1 .. Len(s2)
                               /\ k = (k - Len(s1)) + Len(s1))
    BY <1>1
  <2>2. QED BY <2>1
<1>5. ToSet(s1 \o s2) = ToSet(s1) \cup ToSet(s2)
  <2>1. ToSet(s1) \cup ToSet(s2) \subseteq ToSet(s1 \o s2)
    BY <1>1, <1>2, <1>3 DEF ToSet
  <2>2. ASSUME NEW k \in DOMAIN (s1 \o s2)
        PROVE  (s1 \o s2)[k] \in ToSet(s1) \cup ToSet(s2)
    BY <1>1, <1>2, <1>3, <1>4 DEF ToSet
  <2>3. QED BY <2>1, <2>2 DEF ToSet
<1>6. ASSUME IsInjective(s1), IsInjective(s2), ToSet(s1) \cap ToSet(s2) = {},
             NEW a \in DOMAIN (s1 \o s2), NEW b \in DOMAIN (s1 \o s2),
             (s1 \o s2)[a] = (s1 \o s2)[b]
      PROVE  a = b
  <2>1. \A i \in 1 .. Len(s1), j \in 1 .. Len(s2) : s1[i] # s2[j]
    BY <1>1, <1>6 DEF ToSet
  <2>2. CASE a \in 1 .. Len(s1) /\ b \in 1 .. Len(s1)
    BY <1>1, <1>2, <1>6, <2>2 DEF IsInjective
  <2>3. CASE a \in 1 .. Len(s1) /\ \E j \in 1 .. Len(s2) : b = j + Len(s1)
    BY <1>2, <1>3, <1>6, <2>1, <2>3
  <2>4. CASE b \in 1 .. Len(s1) /\ \E j \in 1 .. Len(s2) : a = j + Len(s1)
    BY <1>2, <1>3, <1>6, <2>1, <2>4
  <2>5. CASE /\ \E i \in 1 .. Len(s2) : a = i + Len(s1)
             /\ \E j \in 1 .. Len(s2) : b = j + Len(s1)
    <3>1. PICK i \in 1 .. Len(s2), j \in 1 .. Len(s2) :
              a = i + Len(s1) /\ b = j + Len(s1)
      BY <2>5
    <3>2. s2[i] = s2[j] BY <1>3, <1>6, <3>1
    <3>3. i = j BY <1>1, <1>6, <3>2 DEF IsInjective
    <3>4. QED BY <3>1, <3>3
  <2>6. QED BY <1>4, <1>6, <2>2, <2>3, <2>4, <2>5
<1>7. QED BY <1>5, <1>6 DEF IsInjective

\* The head of a sequence and what is left of it.
LEMMA SplitElements ==
    ASSUME NEW S, NEW s \in Seq(S), s # <<>>
    PROVE  /\ Head(s) \in S
           /\ Tail(s) \in Seq(S)
           /\ ToSet(s) = {Head(s)} \cup ToSet(Tail(s))
<1>1. /\ Len(s) \in Nat /\ Len(s) >= 1 /\ DOMAIN s = 1 .. Len(s)
      /\ Head(s) = s[1] /\ Head(s) \in S
      /\ DOMAIN Tail(s) = 1 .. Len(s) - 1
      /\ \A i \in 1 .. Len(s) - 1 : Tail(s)[i] = s[i + 1]
      /\ Tail(s) \in Seq(S)
  BY HeadTailProperties, LenProperties, EmptySeq
<1>2. ASSUME NEW k \in DOMAIN s, k # 1
      PROVE  s[k] \in ToSet(Tail(s))
  <2>1. k - 1 \in 1 .. Len(s) - 1 /\ s[(k - 1) + 1] = s[k]
    BY <1>1, <1>2
  <2>2. Tail(s)[k - 1] = s[k]
    BY <1>1, <2>1
  <2>3. QED BY <1>1, <2>1, <2>2 DEF ToSet
<1>3. ASSUME NEW i \in DOMAIN Tail(s)
      PROVE  Tail(s)[i] \in ToSet(s)
  BY <1>1, <1>3 DEF ToSet
<1>4. Head(s) \in ToSet(s)
  <2>1. 1 \in DOMAIN s BY <1>1
  <2>2. QED BY <1>1, <2>1 DEF ToSet
<1>5. QED BY <1>1, <1>2, <1>3, <1>4 DEF ToSet

LEMMA TailElements ==
    ASSUME NEW S, NEW s \in Seq(S), s # <<>>, IsInjective(s)
    PROVE  /\ Head(s) \in ToSet(s)
           /\ Tail(s) \in Seq(S)
           /\ ToSet(Tail(s)) = ToSet(s) \ {Head(s)}
           /\ IsInjective(Tail(s))
<1>1. /\ Len(s) \in Nat /\ Len(s) >= 1 /\ DOMAIN s = 1 .. Len(s)
      /\ Head(s) = s[1]
      /\ DOMAIN Tail(s) = 1 .. Len(s) - 1
      /\ \A i \in 1 .. Len(s) - 1 : Tail(s)[i] = s[i + 1]
      /\ Tail(s) \in Seq(S)
  BY HeadTailProperties, LenProperties, EmptySeq
<1>2. ASSUME NEW k \in DOMAIN s, s[k] # Head(s)
      PROVE  s[k] \in ToSet(Tail(s))
  <2>1. k - 1 \in 1 .. Len(s) - 1 /\ s[(k - 1) + 1] = s[k]
    BY <1>1, <1>2
  <2>2. Tail(s)[k - 1] = s[k]
    BY <1>1, <2>1
  <2>3. QED BY <1>1, <2>1, <2>2 DEF ToSet
<1>3. ASSUME NEW i \in DOMAIN Tail(s)
      PROVE  Tail(s)[i] \in ToSet(s) \ {Head(s)}
  BY <1>1, <1>3 DEF ToSet, IsInjective
<1>4. ToSet(Tail(s)) = ToSet(s) \ {Head(s)}
  BY <1>2, <1>3 DEF ToSet
<1>5. IsInjective(Tail(s))
  BY <1>1 DEF IsInjective
<1>6. Head(s) \in ToSet(s)
  <2>1. 1 \in DOMAIN s BY <1>1
  <2>2. QED BY <1>1, <2>1 DEF ToSet
<1>7. QED BY <1>1, <1>4, <1>5, <1>6

\* The index of an object gets a task several times.
LEMMA RepeatedElement ==
    ASSUME NEW S, NEW s \in Seq(S), NEW e \in S, NEW n \in Nat
    PROVE  LET r == s \o [i \in 1 .. n |-> e] IN
           /\ r \in Seq(S)
           /\ ToSet(s) \subseteq ToSet(r)
           /\ n # 0 => e \in ToSet(r)
<1> DEFINE tail == [i \in 1 .. n |-> e]
<1>1. tail \in Seq(S) BY IsASeq
<1>2. n # 0 => e \in ToSet(tail)
  <2>1. ASSUME n # 0 PROVE 1 \in 1 .. n BY <2>1
  <2>2. QED BY <2>1 DEF ToSet
<1> HIDE DEF tail
<1>3. s \o tail \in Seq(S) /\ ToSet(s \o tail) = ToSet(s) \cup ToSet(tail)
  BY <1>1, ConcatElements, ConcatProperties
<1>4. QED BY <1>2, <1>3 DEF tail

\* The positions of an element.
LEMMA UsesFinite ==
    ASSUME NEW S, NEW s \in Seq(S), NEW e
    PROVE  LET n == Cardinality({i \in DOMAIN s : s[i] = e}) IN
           n \in Nat /\ (e \in ToSet(s) => n # 0)
<1> DEFINE U == {i \in DOMAIN s : s[i] = e}
<1>1. IsFiniteSet(U)
  <2>1. DOMAIN s = 1 .. Len(s) /\ Len(s) \in Nat BY LenProperties
  <2>2. IsFiniteSet(DOMAIN s) BY <2>1, FS_Interval
  <2>3. U \in SUBSET DOMAIN s OBVIOUS
  <2>4. QED BY <2>2, <2>3, FS_Subset
<1>2. e \in ToSet(s) => U # {} BY DEF ToSet
<1>3. QED BY <1>1, <1>2, FS_CardinalityType, FS_EmptySet

\* SetToSeqs(S): every element of a finite S, once.
LEMMA ArrangementElements ==
    ASSUME NEW S, IsFiniteSet(S), NEW r \in SetToSeqs(S)
    PROVE  r \in Seq(S) /\ ToSet(r) = S /\ IsInjective(r)
<1> DEFINE D == 1 .. Cardinality(S)
<1>1. Cardinality(S) \in Nat BY FS_CardinalityType
<1>2. r \in Injection(D, S)
  BY DEF SetToSeqs, Injection, IsInjective
<1>3. r \in Seq(S) BY <1>1, <1>2, IsASeq DEF Injection
<1>4. IsFiniteSet(D) /\ Cardinality(D) = Cardinality(S)
  BY <1>1, FS_Interval
<1>5. r \in Surjection(D, S) BY <1>2, <1>4, FS_Injection
<1>6. QED BY <1>2, <1>3, <1>5 DEF Injection, Surjection, ToSet
-----------------------------------------------------------------------------
(***************************************************************************)
(* Sequences whose elements need no set of their own: the frames of a      *)
(* call, the messages of a connection, the values of arguments.            *)
(***************************************************************************)
\* Arithmetic on positions, for a length n that the provers do not look into.
LEMMA Positions ==
    ASSUME NEW n \in Nat
    PROVE  /\ n >= 1 => 1 \in 1 .. n /\ n \in 1 .. n
           /\ n >= 1 /\ n # 1 => n \in 2 .. n /\ 1 \in 1 .. n - 1 /\ n - 1 \in 1 .. n - 1
           /\ \A i \in 1 .. n : i = 1 \/ i \in 2 .. n
           /\ \A i \in 2 .. n : i - 1 \in 1 .. n - 1 /\ (i - 1) + 1 = i /\ i \in 1 .. n
           /\ \A i \in 1 .. n - 1 : i + 1 \in 2 .. n /\ (i + 1 = n <=> i = n - 1)
OBVIOUS

LEMMA TwoParts ==
    ASSUME NEW m \in Nat, NEW n \in Nat, NEW k \in Nat, m + n = k
    PROVE  /\ \A i \in 1 .. m : i \in 1 .. k
           /\ \A i \in 1 .. n : m + i \in 1 .. k
           /\ n = 0 => m = k
           /\ n >= 1 => (m + 1) + (n - 1) = k
           /\ \A i \in 1 .. m + 1 : i \in 1 .. m \/ i = m + 1
           /\ \A i \in 1 .. n - 1 : i + 1 \in 1 .. n /\ (m + 1) + i = m + (i + 1)
OBVIOUS

IsSequence(s) == s \in Seq(ToSet(s))

LEMMA SequenceOver ==
    ASSUME NEW S, NEW s \in Seq(S)
    PROVE  IsSequence(s) /\ Len(s) \in Nat /\ DOMAIN s = 1 .. Len(s) /\ ToSet(s) \subseteq S
<1>1. Len(s) \in Nat /\ DOMAIN s = 1 .. Len(s) /\ s \in [1 .. Len(s) -> S]
  BY LenProperties
<1>2. s \in [1 .. Len(s) -> ToSet(s)]
  BY <1>1 DEF ToSet
<1>3. IsSequence(s) BY <1>1, <1>2, IsASeq DEF IsSequence
<1>4. QED BY <1>1, <1>3 DEF ToSet

LEMMA SequenceIn ==
    ASSUME NEW s, IsSequence(s), NEW S, ToSet(s) \subseteq S
    PROVE  s \in Seq(S)
<1>1. Len(s) \in Nat /\ DOMAIN s = 1 .. Len(s) /\ s \in [1 .. Len(s) -> ToSet(s)]
  BY LenProperties DEF IsSequence
<1>2. s \in [1 .. Len(s) -> S] BY <1>1
<1>3. QED BY <1>1, <1>2, IsASeq

LEMMA NoElement ==
    /\ IsSequence(<<>>) /\ ToSet(<<>>) = {} /\ DOMAIN <<>> = {} /\ Len(<<>>) = 0
<1>1. <<>> \in Seq({}) /\ Len(<<>>) = 0 BY EmptySeq
<1>2. DOMAIN <<>> = {} BY <1>1, LenProperties
<1>3. ToSet(<<>>) = {} BY <1>2 DEF ToSet
<1>4. QED BY <1>1, <1>2, <1>3 DEF IsSequence

\* Append.
LEMMA AppendSequence ==
    ASSUME NEW s, IsSequence(s), NEW e
    PROVE  /\ IsSequence(Append(s, e))
           /\ Len(Append(s, e)) = Len(s) + 1
           /\ Append(s, e)[Len(s) + 1] = e
           /\ \A i \in 1 .. Len(s) : Append(s, e)[i] = s[i]
           /\ ToSet(Append(s, e)) = ToSet(s) \cup {e}
           /\ Append(s, e) # <<>>
<1> DEFINE S == ToSet(s) \cup {e}
<1>1. s \in Seq(S) BY SequenceIn
<1>2. Append(s, e) \in Seq(S) /\ Append(s, e) # <<>>
      /\ Len(Append(s, e)) = Len(s) + 1
      /\ Append(s, e)[Len(s) + 1] = e
      /\ \A i \in 1 .. Len(s) : Append(s, e)[i] = s[i]
  BY <1>1, AppendProperties
<1>3. IsSequence(Append(s, e)) BY <1>2, SequenceOver
<1>4. ToSet(Append(s, e)) = ToSet(s) \cup {e} BY <1>1, AppendElements
<1>5. QED BY <1>2, <1>3, <1>4

\* Tail and Head.
LEMMA TailSequence ==
    ASSUME NEW s, IsSequence(s), s # <<>>
    PROVE  /\ IsSequence(Tail(s))
           /\ Len(s) \in Nat /\ Len(s) >= 1
           /\ Len(Tail(s)) = Len(s) - 1
           /\ Head(s) = s[1]
           /\ \A i \in 1 .. Len(s) - 1 : Tail(s)[i] = s[i + 1]
           /\ ToSet(s) = {Head(s)} \cup ToSet(Tail(s))
<1> DEFINE S == ToSet(s)
<1>1. s \in Seq(S) BY DEF IsSequence
<1>2. /\ Len(s) \in Nat /\ Len(s) >= 1 /\ Head(s) = s[1]
      /\ Len(Tail(s)) = Len(s) - 1
      /\ \A i \in 1 .. Len(s) - 1 : Tail(s)[i] = s[i + 1]
      /\ Tail(s) \in Seq(S)
  BY <1>1, HeadTailProperties, LenProperties, EmptySeq
<1>3. IsSequence(Tail(s)) BY <1>2, SequenceOver
<1>4. ToSet(s) = {Head(s)} \cup ToSet(Tail(s)) BY <1>1, SplitElements
<1>5. QED BY <1>2, <1>3, <1>4

\* A new first element.
LEMMA PushSequence ==
    ASSUME NEW s, IsSequence(s), NEW e
    PROVE  /\ IsSequence(<<e>> \o s)
           /\ Len(<<e>> \o s) = Len(s) + 1
           /\ (<<e>> \o s)[1] = e
           /\ \A i \in 1 .. Len(s) : (<<e>> \o s)[i + 1] = s[i]
           /\ <<e>> \o s # <<>>
           /\ Head(<<e>> \o s) = e
<1> DEFINE S == ToSet(s) \cup {e}
           r == <<e>> \o s
<1>1. s \in Seq(S) /\ <<e>> \in Seq(S) /\ Len(<<e>>) = 1 /\ <<e>>[1] = e /\ Len(s) \in Nat
  BY SequenceIn, SequenceOver
<1>2. r \in Seq(S) /\ Len(r) = Len(s) + 1 /\ r[1] = e
      /\ \A i \in 1 .. Len(s) : r[i + 1] = s[i]
  BY <1>1, ConcatProperties
<1>3. IsSequence(r) BY <1>2, SequenceOver
<1>4. r # <<>> BY <1>1, <1>2, EmptySeq
<1>5. Head(r) = e BY <1>2, <1>3, <1>4, TailSequence
<1>6. QED BY <1>2, <1>3, <1>4, <1>5

\* A sequence of one element.
LEMMA OneElement ==
    ASSUME NEW e
    PROVE  /\ IsSequence(<<e>>) /\ Len(<<e>>) = 1 /\ <<e>>[1] = e /\ <<e>> # <<>>
           /\ Head(<<e>>) = e /\ Tail(<<e>>) = <<>> /\ Append(<<>>, e) = <<e>>
           /\ ToSet(<<e>>) = {e} /\ DOMAIN <<e>> = {1}
<1> DEFINE S == {e}
           s == <<e>>
<1>1. s \in Seq(S) /\ Len(s) = 1 /\ s[1] = e
  <2>1. e \in S OBVIOUS
  <2>2. HIDE DEF S
  <2>3. QED BY <2>1
<1> HIDE DEF s
<1>2. IsSequence(s) /\ s # <<>> /\ DOMAIN s = {1}
  BY <1>1, SequenceOver, EmptySeq
<1>3. Head(s) = e /\ Len(Tail(s)) = 0 /\ IsSequence(Tail(s))
  BY <1>1, <1>2, TailSequence
<1>4. Tail(s) = <<>> BY <1>3, EmptySeq DEF IsSequence
<1>5. Append(<<>>, e) = s
  <2>1. <<>> \in Seq(S) /\ e \in S /\ Len(<<>>) = 0 BY EmptySeq
  <2>2. /\ Append(<<>>, e) \in Seq(S) /\ Len(Append(<<>>, e)) = 1 /\ Append(<<>>, e)[1] = e
    BY <2>1, AppendProperties
  <2>3. QED BY <1>1, <2>2, SeqEqual
<1>6. ToSet(s) = {e} BY <1>1, <1>2 DEF ToSet
<1>7. QED BY <1>1, <1>2, <1>3, <1>4, <1>5, <1>6 DEF s

\* A sequence of two elements.
LEMMA TwoElements ==
    ASSUME NEW e, NEW f
    PROVE  /\ IsSequence(<<e, f>>) /\ Len(<<e, f>>) = 2
           /\ <<e, f>>[1] = e /\ <<e, f>>[2] = f /\ <<e, f>> # <<>>
           /\ DOMAIN <<e, f>> = {1, 2}
<1> DEFINE S == {e, f}
           s == <<e, f>>
<1>1. s \in Seq(S) /\ Len(s) = 2 /\ s[1] = e /\ s[2] = f
  <2>1. e \in S /\ f \in S OBVIOUS
  <2>2. HIDE DEF S
  <2>3. QED BY <2>1
<1> HIDE DEF s
<1>2. IsSequence(s) /\ s # <<>> /\ DOMAIN s = {1, 2}
  BY <1>1, SequenceOver, EmptySeq
<1>3. QED BY <1>1, <1>2 DEF s

LEMMA PushOne ==
    ASSUME NEW e, NEW f
    PROVE  <<e>> \o <<f>> = <<e, f>>
<1> DEFINE r == <<e>> \o <<f>>
           s == <<f>>
           q == <<e, f>>
<1>1. IsSequence(s) /\ Len(s) = 1 /\ s[1] = f BY OneElement
<1>2. IsSequence(q) /\ Len(q) = 2 /\ q[1] = e /\ q[2] = f BY TwoElements
<1>3. r = <<e>> \o s OBVIOUS
<1> HIDE DEF s, q, r
<1>4. /\ IsSequence(r) /\ Len(r) = Len(s) + 1 /\ r[1] = e
      /\ \A i \in 1 .. Len(s) : r[i + 1] = s[i]
  BY <1>1, <1>3, PushSequence
<1>5. Len(r) = 2 /\ r[2] = f BY <1>1, <1>4
<1>6. \A i \in 1 .. 2 : r[i] = q[i] BY <1>2, <1>4, <1>5
<1> DEFINE S == ToSet(r) \cup ToSet(q)
<1>7. r \in Seq(S) /\ q \in Seq(S) BY <1>2, <1>4, SequenceIn
<1> HIDE DEF S
<1>8. r = q BY <1>2, <1>5, <1>6, <1>7, SeqEqual
<1>9. QED BY <1>8 DEF r, s, q

\* The bounded sequences over a set.
LEMMA BoundedSequence ==
    ASSUME NEW S, NEW n \in Nat, NEW s \in SeqOf(S, n)
    PROVE  /\ IsSequence(s) /\ s \in Seq(S) /\ Len(s) \in 0 .. n /\ DOMAIN s = 1 .. Len(s)
           /\ ToSet(s) \subseteq S
           /\ \A i \in DOMAIN s : s[i] \in ToSet(s)
           /\ \A T : S \subseteq T => s \in SeqOf(T, n)
<1>1. PICK m \in 0 .. n : s \in [1 .. m -> S] BY DEF SeqOf
<1>2. s \in Seq(S) BY <1>1, IsASeq
<1>3. Len(s) = m /\ DOMAIN s = 1 .. m BY <1>1, <1>2, LenProperties
<1>4. ASSUME NEW T, S \subseteq T PROVE s \in SeqOf(T, n)
  <2>1. s \in [1 .. m -> T] BY <1>1, <1>4
  <2>2. QED BY <2>1 DEF SeqOf
<1>5. QED BY <1>2, <1>3, <1>4, SequenceOver DEF ToSet

LEMMA EmptyIsBounded ==
    ASSUME NEW S, NEW n \in Nat
    PROVE  <<>> \in SeqOf(S, n)
<1>1. <<>> \in [1 .. 0 -> S] OBVIOUS
<1>2. QED BY <1>1 DEF SeqOf
-----------------------------------------------------------------------------
(***************************************************************************)
(* Induction.  An induction theorem with an operator for its predicate     *)
(* cannot be instantiated, but a set can stand for the predicate: a        *)
(* non-empty set of numbers has a least one.                               *)
(***************************************************************************)
LEMMA LeastNumber ==
    ASSUME NEW T, T \subseteq Nat, T # {}
    PROVE  \E x \in T : \A y \in T : x <= y
<1> DEFINE R == OpToRel(<, Nat)
<1>1. IsWellFoundedOn(R, Nat) BY NatLessThanWellFounded
<1>2. ASSUME NEW x \in Nat, NEW y \in Nat, ~ (<<y, x>> \in R)
      PROVE  x <= y
  <2>1. <<y, x>> \in Nat \X Nat OBVIOUS
  <2>2. ~ (y < x) BY <1>2, <2>1 DEF OpToRel
  <2>3. QED BY <2>2
<1> HIDE DEF R
<1>3. PICK x \in T : \A y \in T : ~ (<<y, x>> \in R) BY <1>1, WFMin
<1>4. \A y \in T : x <= y
  <2>1. TAKE y \in T
  <2>2. x \in Nat /\ y \in Nat OBVIOUS
  <2>3. QED BY <1>2, <1>3, <2>1, <2>2
<1>5. QED BY <1>4

LEMMA InductionOnSet ==
    ASSUME NEW S, 0 \in S, \A n \in Nat : n \in S => n + 1 \in S
    PROVE  Nat \subseteq S
<1> DEFINE T == {n \in Nat : n \notin S}
<1>1. ASSUME T # {} PROVE FALSE
  <2>1. PICK x \in T : \A y \in T : x <= y BY <1>1, LeastNumber
  <2>2. x \in Nat /\ x # 0 /\ x \notin S BY <2>1
  <2>3. x - 1 \in Nat /\ ~ (x <= x - 1) /\ (x - 1) + 1 = x BY <2>2
  <2>4. x - 1 \in S BY <2>1, <2>3
  <2>5. QED BY <2>2, <2>3, <2>4
<1>2. QED BY <1>1
-----------------------------------------------------------------------------
(***************************************************************************)
(* Sequences cut in two and put together again.                            *)
(***************************************************************************)
\* Three sequences put together, either two first.
Regroups(a, b, c) == (a \o b) \o c = a \o (b \o c)

LEMMA Regroup ==
    ASSUME NEW S, NEW a \in Seq(S), NEW b \in Seq(S), NEW c \in Seq(S)
    PROVE  Regroups(a, b, c)
BY ConcatAssociative DEF Regroups

\* Two ways to cut a sequence at the same place are the same.
LEMMA EqualParts ==
    ASSUME NEW S, NEW s \in Seq(S), NEW t \in Seq(S), NEW u \in Seq(S), NEW v \in Seq(S),
           s \o t = u \o v, Len(s) = Len(u)
    PROVE  s = u /\ t = v
<1>1. \A i \in 1 .. Len(s) : s[i] = u[i]
  <2> TAKE i \in 1 .. Len(s)
  <2>1. Len(s) \in Nat /\ Len(t) \in Nat /\ Len(v) \in Nat BY LenProperties
  <2>2. i \in 1 .. Len(s) + Len(t) /\ i \in 1 .. Len(u) + Len(v) /\ i <= Len(s) BY <2>1
  <2>3. (s \o t)[i] = s[i] /\ (u \o v)[i] = u[i] BY <2>2, ConcatProperties
  <2>4. QED BY <2>3
<1>2. s = u BY <1>1, SeqEqual
<1>3. t = v BY <1>2, ConcatSimplifications
<1>4. QED BY <1>2, <1>3

\* A sequence is cut after its first k elements.
SplitAt(S, s, k) ==
    /\ SubSeq(s, 1, k) \in Seq(S) /\ Len(SubSeq(s, 1, k)) = k
    /\ SubSeq(s, k + 1, Len(s)) \in Seq(S)
    /\ Len(SubSeq(s, k + 1, Len(s))) = Len(s) - k
    /\ s = SubSeq(s, 1, k) \o SubSeq(s, k + 1, Len(s))

LEMMA SplitSequence ==
    ASSUME NEW S, NEW s \in Seq(S), NEW k \in 0 .. Len(s)
    PROVE  SplitAt(S, s, k)
<1>1. Len(s) \in Nat /\ \A i \in 1 .. Len(s) : s[i] \in S BY LenProperties
<1>2. PICK n \in Nat : n = Len(s) BY <1>1
<1>3. k \in Int /\ n \in Int /\ 1 \in Int /\ k + 1 \in Int BY <1>2
<1>4. (\A i \in 1 .. k : s[i] \in S) /\ (\A i \in k + 1 .. n : s[i] \in S) BY <1>1, <1>2
<1>5. /\ SubSeq(s, 1, k) \in Seq(S)
      /\ Len(SubSeq(s, 1, k)) = IF 1 <= k THEN k - 1 + 1 ELSE 0
  BY <1>3, <1>4, SubSeqProperties
<1>6. /\ SubSeq(s, k + 1, n) \in Seq(S)
      /\ Len(SubSeq(s, k + 1, n)) = IF k + 1 <= n THEN n - (k + 1) + 1 ELSE 0
  BY <1>3, <1>4, SubSeqProperties
<1>7. SubSeq(s, 1, k) \o SubSeq(s, k + 1, Len(s)) = SubSeq(s, 1, Len(s))
  <2>1. 1 \in 1 .. Len(s) + 1 /\ k \in 1 - 1 .. Len(s) /\ Len(s) \in k .. Len(s) BY <1>1
  <2>2. QED BY <2>1, ConcatAdjacentSubSeq
<1>8. SubSeq(s, 1, Len(s)) = s BY SubSeqFull
<1>9. Len(SubSeq(s, 1, k)) = k BY <1>5
<1>10. Len(SubSeq(s, k + 1, n)) = n - k BY <1>2, <1>6
<1>11. QED BY <1>2, <1>5, <1>6, <1>7, <1>8, <1>9, <1>10 DEF SplitAt

\* The two parts of s \o t.
LEMMA CutConcat ==
    ASSUME NEW S, NEW s \in Seq(S), NEW t \in Seq(S)
    PROVE  /\ s \o t \in Seq(S) /\ Len(s \o t) = Len(s) + Len(t)
           /\ SubSeq(s \o t, 1, Len(s)) = s
           /\ SubSeq(s \o t, Len(s) + 1, Len(s) + Len(t)) = t
<1>1. PICK m \in Nat : m = Len(s) BY LenProperties
<1>2. PICK n \in Nat : n = Len(t) BY LenProperties
<1>3. PICK r \in Seq(S) : r = s \o t /\ Len(r) = m + n BY <1>1, <1>2, ConcatProperties
<1>4. m \in 0 .. Len(r) BY <1>3
<1>5. /\ SubSeq(r, 1, m) \in Seq(S) /\ Len(SubSeq(r, 1, m)) = m
      /\ SubSeq(r, m + 1, Len(r)) \in Seq(S)
      /\ r = SubSeq(r, 1, m) \o SubSeq(r, m + 1, Len(r))
  <2>1. SplitAt(S, r, m) BY <1>4, SplitSequence
  <2>2. QED BY <2>1 DEF SplitAt
<1>6. SubSeq(r, 1, m) = s /\ SubSeq(r, m + 1, Len(r)) = t
  BY <1>1, <1>3, <1>5, EqualParts
<1>7. QED BY <1>1, <1>2, <1>3, <1>6

\* Of two ways to cut a sequence, one is later.
SameWhole(s, t, u, v) == s \o t = u \o v
Later(S, s, t, u, v) == \E w \in Seq(S) : u = s \o w /\ t = w \o v

LEMMA LaterCut ==
    ASSUME NEW S, NEW s \in Seq(S), NEW t \in Seq(S), NEW u \in Seq(S), NEW v \in Seq(S),
           SameWhole(s, t, u, v), Len(s) <= Len(u)
    PROVE  /\ Later(S, s, t, u, v)
           /\ SubSeq(u, 1, Len(s)) = s
<1>1. PICK k \in Nat : k = Len(s) BY LenProperties
<1>2. k \in 0 .. Len(u) BY <1>1, LenProperties
<1> DEFINE p == SubSeq(u, 1, k)
           w == SubSeq(u, k + 1, Len(u))
<1>3. p \in Seq(S) /\ w \in Seq(S) /\ u = p \o w /\ Len(p) = k
  <2>1. SplitAt(S, u, k) BY <1>2, SplitSequence
  <2>2. QED BY <2>1 DEF SplitAt
<1> HIDE DEF p, w
<1>4. s \o t = p \o (w \o v)
  <2>1. Regroups(p, w, v) BY <1>3, Regroup
  <2>2. QED BY <1>3, <2>1 DEF Regroups, SameWhole
<1>5. w \o v \in Seq(S) BY <1>3, ConcatProperties
<1>6. s = p /\ t = w \o v BY <1>1, <1>3, <1>4, <1>5, EqualParts
<1>7. u = s \o w BY <1>3, <1>6
<1>8. SubSeq(u, 1, Len(s)) = s BY <1>1, <1>6 DEF p
<1>9. Later(S, s, t, u, v) BY <1>3, <1>6, <1>7 DEF Later
<1>10. QED BY <1>8, <1>9

LEMMA FrontOfAppend ==
    ASSUME NEW S, NEW s \in Seq(S), NEW e \in S
    PROVE  Front(Append(s, e)) = s /\ Last(Append(s, e)) = e
<1>1. PICK n \in Nat : n = Len(s) BY LenProperties
<1>2. PICK r \in Seq(S) : r = Append(s, e) /\ Len(r) = n + 1 /\ r[n + 1] = e
  BY <1>1, AppendProperties
<1>3. r = s \o <<e>> BY <1>2, AppendIsConcat
<1>4. <<e>> \in Seq(S) BY <1>1
<1>5. SubSeq(r, 1, n) = s BY <1>1, <1>3, <1>4, CutConcat
<1>6. Len(r) - 1 = n BY <1>2
<1>7. Front(r) = s BY <1>5, <1>6 DEF Front
<1>8. Last(r) = e BY <1>2 DEF Last
<1>9. QED BY <1>2, <1>7, <1>8

LEMMA BoundedBy ==
    ASSUME NEW S, NEW n \in Nat, NEW s \in Seq(S), Len(s) <= n
    PROVE  s \in SeqOf(S, n)
<1>1. PICK m \in Nat : m = Len(s) BY LenProperties
<1>2. s \in [1 .. m -> S] BY <1>1, LenProperties
<1>3. m \in 0 .. n BY <1>1
<1>4. QED BY <1>2, <1>3 DEF SeqOf
-----------------------------------------------------------------------------
(***************************************************************************)
(* A function that is defined by linear recursion exists: base where leaf  *)
(* holds, and elsewhere a step from its value at something smaller.        *)
(***************************************************************************)
IsRecursion(D, V, leaf, base, size, next, step) ==
    /\ base \in [D -> V] /\ size \in [D -> Nat]
    /\ next \in [D \ leaf -> D] /\ step \in [D \ leaf -> [V -> V]]
    /\ \A x \in D \ leaf : size[next[x]] < size[x]

LEMMA LinearRecursion ==
    ASSUME NEW D, NEW V, NEW leaf, NEW base, NEW size, NEW next, NEW step,
           IsRecursion(D, V, leaf, base, size, next, step)
    PROVE  \E f \in [D -> V] : \A x \in D :
               /\ x \in leaf => f[x] = base[x]
               /\ x \notin leaf => f[x] = step[x][f[next[x]]]
<1> USE DEF IsRecursion
<1> DEFINE Step(g) == [x \in D |-> IF x \in leaf THEN base[x] ELSE step[x][g[next[x]]]]
           UpTo(g, k) == g \in [D -> V] /\ \A x \in D : size[x] <= k => g[x] = Step(g)[x]
           Built(k) == \E g : UpTo(g, k)
           S == {k \in Nat : Built(k)}
<1>1. ASSUME NEW g \in [D -> V] PROVE Step(g) \in [D -> V] OBVIOUS
<1>2. 0 \in S
  <2>1. ASSUME NEW x \in D, size[x] <= 0 PROVE base[x] = Step(base)[x]
    <3>1. x \in leaf
      <4>1. ASSUME x \notin leaf PROVE FALSE
        <5>1. next[x] \in D /\ size[next[x]] < size[x] BY <4>1
        <5>2. size[next[x]] \in Nat /\ size[x] \in Nat BY <5>1
        <5>3. QED BY <2>1, <5>1, <5>2
      <4>2. QED BY <4>1
    <3>2. QED BY <3>1
  <2>2. UpTo(base, 0) BY <2>1
  <2> HIDE DEF UpTo
  <2>3. QED BY <2>2
<1>3. ASSUME NEW k \in Nat, k \in S PROVE k + 1 \in S
  <2>1. PICK g : UpTo(g, k)
    <3> HIDE DEF UpTo
    <3>1. QED BY <1>3
  <2> DEFINE h == Step(g)
  <2>2. h \in [D -> V] BY <2>1, <1>1
  <2>3. ASSUME NEW x \in D, size[x] <= k + 1 PROVE h[x] = Step(h)[x]
    <3>1. CASE x \in leaf BY <3>1
    <3>2. CASE x \notin leaf
      <4>1. next[x] \in D /\ size[next[x]] < size[x] BY <3>2
      <4>2. size[next[x]] \in Nat /\ size[x] \in Nat BY <4>1
      <4>3. size[next[x]] <= k BY <2>3, <4>1, <4>2
      <4>4. h[next[x]] = g[next[x]] BY <2>1, <4>1, <4>3
      <4>5. h[x] = step[x][g[next[x]]] BY <3>2
      <4> HIDE DEF h
      <4>6. Step(h)[x] = step[x][h[next[x]]] BY <3>2
      <4>7. QED BY <4>4, <4>5, <4>6
    <3>3. QED BY <3>1, <3>2
  <2> HIDE DEF h
  <2>4. UpTo(h, k + 1) BY <2>2, <2>3
  <2> HIDE DEF UpTo
  <2>5. QED BY <2>4
<1>4. \A k \in Nat : Built(k)
  <2> HIDE DEF Built
  <2>1. QED BY <1>2, <1>3, InductionOnSet
<1>5. ASSUME NEW k \in Nat, NEW g, NEW h, UpTo(g, k), NEW l \in Nat, UpTo(h, l)
      PROVE  \A x \in D : size[x] <= k /\ size[x] <= l => g[x] = h[x]
  <2> DEFINE T == {j \in Nat : \A x \in D :
                                   size[x] <= j /\ size[x] <= k /\ size[x] <= l => g[x] = h[x]}
  <2>1. ASSUME NEW x \in D, x \in leaf, size[x] <= k, size[x] <= l PROVE g[x] = h[x]
    BY <1>5, <2>1
  <2>2. ASSUME NEW x \in D, x \notin leaf, size[x] <= k, size[x] <= l, g[next[x]] = h[next[x]]
        PROVE  g[x] = h[x]
    BY <1>5, <2>2
  <2>3. ASSUME NEW x \in D, x \notin leaf
        PROVE  next[x] \in D /\ size[next[x]] \in Nat /\ size[x] \in Nat
               /\ size[next[x]] < size[x]
    BY <2>3
  <2>4. 0 \in T
    <3>1. ASSUME NEW x \in D, size[x] <= 0 PROVE x \in leaf BY <2>3, <3>1
    <3>2. QED BY <2>1, <3>1
  <2>5. ASSUME NEW j \in Nat, j \in T PROVE j + 1 \in T
    <3>1. ASSUME NEW x \in D, size[x] <= j + 1, size[x] <= k, size[x] <= l, x \notin leaf
          PROVE  g[x] = h[x]
      <4>1. /\ next[x] \in D /\ size[next[x]] <= j
            /\ size[next[x]] <= k /\ size[next[x]] <= l
        BY <2>3, <3>1
      <4>2. g[next[x]] = h[next[x]] BY <2>5, <4>1
      <4>3. QED BY <2>2, <3>1, <4>2
    <3>2. QED BY <2>1, <3>1
  <2>6. Nat \subseteq T BY <2>4, <2>5, InductionOnSet
  <2>7. \A x \in D : size[x] \in Nat /\ size[x] <= size[x] OBVIOUS
  <2> QED BY <2>6, <2>7
<1> DEFINE F(k) == CHOOSE g : UpTo(g, k)
           f == [x \in D |-> F(size[x])[x]]
<1>6. \A k \in Nat : UpTo(F(k), k)
  <2> HIDE DEF UpTo
  <2>1. QED BY <1>4
<1> HIDE DEF F
<1>7. f \in [D -> V]
  <2>1. \A x \in D : size[x] \in Nat OBVIOUS
  <2>2. QED BY <1>6, <2>1
<1>8. ASSUME NEW x \in D PROVE f[x] = Step(f)[x]
  <2>1. size[x] \in Nat /\ size[x] <= size[x] OBVIOUS
  <2>2. PICK k \in Nat : k = size[x] BY <2>1
  <2>3. f[x] = F(k)[x] /\ UpTo(F(k), k) BY <1>6, <2>2
  <2>4. CASE x \in leaf BY <2>1, <2>2, <2>3, <2>4
  <2>5. CASE x \notin leaf
    <3>1. next[x] \in D /\ size[next[x]] < size[x] /\ size[next[x]] \in Nat BY <2>5
    <3>2. PICK l \in Nat : l = size[next[x]] BY <3>1
    <3>3. f[next[x]] = F(l)[next[x]] /\ UpTo(F(l), l) BY <1>6, <3>1, <3>2
    <3>4. l <= k /\ l <= l BY <2>2, <3>1, <3>2
    <3>5. F(l)[next[x]] = F(k)[next[x]]
      <4> HIDE DEF UpTo
      <4>1. \A y \in D : size[y] <= l /\ size[y] <= k => F(l)[y] = F(k)[y]
        BY <1>5, <2>3, <3>3
      <4>2. QED BY <3>1, <3>2, <3>4, <4>1
    <3>6. F(k)[x] = step[x][F(k)[next[x]]] BY <2>1, <2>2, <2>3, <2>5
    <3> HIDE DEF f
    <3>7. Step(f)[x] = step[x][f[next[x]]] BY <2>5
    <3>8. QED BY <2>3, <3>3, <3>5, <3>6, <3>7
  <2>6. QED BY <2>4, <2>5
<1> HIDE DEF f
<1>9. QED BY <1>7, <1>8

\* The same for the numbers up to N.
Iterates(f, N, V, a, next) ==
    /\ f \in [0 .. N -> V]
    /\ f[0] = a
    /\ \A k \in 1 .. N : f[k] = next[f[k - 1]]

LEMMA NumberRecursion ==
    ASSUME NEW N \in Nat, NEW V, NEW a \in V, NEW next, next \in [V -> V]
    PROVE  \E f : Iterates(f, N, V, a, next)
<1> DEFINE D == 0 .. N
           base == [k \in D |-> a]
           size == [k \in D |-> k]
           before == [k \in D \ {0} |-> k - 1]
           step == [k \in D \ {0} |-> next]
<1>1. IsRecursion(D, V, {0}, base, size, before, step) BY DEF IsRecursion
<1>2. 0 \in D /\ base[0] = a
      /\ \A k \in 1 .. N : k \in D /\ k \notin {0} /\ step[k] = next /\ before[k] = k - 1
  OBVIOUS
<1> HIDE DEF D, base, size, before, step
<1>3. PICK f \in [D -> V] : \A k \in D :
          /\ k \in {0} => f[k] = base[k]
          /\ k \notin {0} => f[k] = step[k][f[before[k]]]
  BY <1>1, LinearRecursion
<1>4. f[0] = a /\ \A k \in 1 .. N : f[k] = next[f[k - 1]] BY <1>2, <1>3
<1>5. Iterates(f, N, V, a, next) BY <1>3, <1>4 DEF D, Iterates
<1>6. QED BY <1>5
=============================================================================
