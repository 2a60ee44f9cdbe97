---------------------------- MODULE BlockingMap ----------------------------
(***************************************************************************)
(* What an object store promises to its threads: a map with an atomic put, *)
(* and a blocking get that returns, in one step, a value the map holds at  *)
(* that moment.  A get of an object somebody may delete can fail.          *)
(***************************************************************************)
CONSTANTS Object, Thread, Value, Deletable, Absent, Nothing, Failed

VARIABLES
    map,      \* the value of each object, or Absent
    wanted,   \* the object each thread is blocked on, or Nothing
    result    \* what the last get of each thread returned

bmVars == <<map, wanted, result>>

BMInit ==
    /\ map = [o \in Object |-> Absent]
    /\ wanted = [th \in Thread |-> Nothing]
    /\ result = [th \in Thread |-> Nothing]

BMPut ==
    \E o \in Object, v \in Value : map' = [map EXCEPT ![o] = v]
                                   /\ UNCHANGED <<wanted, result>>

BMDelete ==
    \E o \in Deletable : map' = [map EXCEPT ![o] = Absent]
                         /\ UNCHANGED <<wanted, result>>

\* A get that finds its object at once returns without blocking.
BMGet(th) ==
    /\ wanted[th] = Nothing
    /\ \E o \in Object :
          IF map[o] # Absent
          THEN result' = [result EXCEPT ![th] = map[o]] /\ UNCHANGED <<map, wanted>>
          ELSE wanted' = [wanted EXCEPT ![th] = o] /\ UNCHANGED <<map, result>>

BMReturn(th) ==
    /\ wanted[th] # Nothing
    /\ map[wanted[th]] # Absent
    /\ result' = [result EXCEPT ![th] = map[wanted[th]]]
    /\ wanted' = [wanted EXCEPT ![th] = Nothing]
    /\ UNCHANGED map

\* A timeout, or the failure of a get whose object was deleted under it.
BMGiveUp(th) ==
    /\ wanted[th] # Nothing
    /\ \/ result' = [result EXCEPT ![th] = Nothing]
       \/ wanted[th] \in Deletable /\ result' = [result EXCEPT ![th] = Failed]
    /\ wanted' = [wanted EXCEPT ![th] = Nothing]
    /\ UNCHANGED map

BMNext == \/ BMPut \/ BMDelete
          \/ \E th \in Thread : BMGet(th) \/ BMReturn(th) \/ BMGiveUp(th)

BMSafety == BMInit /\ [][BMNext]_bmVars

\* A thread does not stay blocked on an object that is in the map for good.
BMLive ==
    \A th \in Thread, o \in Object \ Deletable :
        (wanted[th] = o /\ map[o] # Absent) ~> (wanted[th] # o)
=============================================================================
