-------------------------- MODULE RustObjectStore --------------------------
(***************************************************************************)
(* The object store of the Rust extension                                  *)
(* (rust/nano_ray_core/src/object_store.rs), used instead of the Python    *)
(* one where it is installed: a concurrent map of objects and one of       *)
(* Notify records, a flag and a condition variable each.                   *)
(*                                                                         *)
(* Every access to one of the maps is a step: the protocol is modelled     *)
(* without the GIL, which today makes one step of what get_or_wait does    *)
(* before it waits, and of a put or a delete.                              *)
(*                                                                         *)
(* A Notify is known by where it is.  A thread holds the one in the map    *)
(* ("live") or one that a delete took out of the map, whose flag nobody    *)
(* changes any more ("set" or "unset").                                    *)
(***************************************************************************)
CONSTANTS Object, Thread, Value, Deletable, Absent, Nothing, Failed

ASSUME RustStoreAssumption ==
    /\ Deletable \subseteq Object
    /\ Absent \notin Value \cup {"unset", "set"}
    /\ Nothing \notin Object

VARIABLES
    objects,  \* objects: the value of each object, or Absent
    flag,     \* notifications: the flag of each object's Notify, or Absent
    at,       \* where each thread is in its call
    arg,      \* the object of that call
    mine,     \* get_or_wait: the Notify the thread got
    outcome   \* what the last get_or_wait of each thread returned

vars == <<objects, flag, at, arg, mine, outcome>>

Init ==
    /\ objects = [o \in Object |-> Absent]
    /\ flag = [o \in Object |-> Absent]
    /\ at = [th \in Thread |-> "idle"]
    /\ arg = [th \in Thread |-> Nothing]
    /\ mine = [th \in Thread |-> "live"]
    /\ outcome = [th \in Thread |-> Nothing]

contains(o) == objects[o] # Absent

Goto(th, label) == at' = [at EXCEPT ![th] = label]

Begin(th, o, label) ==
    /\ at[th] = "idle"
    /\ Goto(th, label)
    /\ arg' = [arg EXCEPT ![th] = o]

End(th) ==
    /\ Goto(th, "idle")
    /\ arg' = [arg EXCEPT ![th] = Nothing]

\* The call of get_or_wait of thread th returns result.
Finish(th, result) ==
    /\ End(th)
    /\ mine' = [mine EXCEPT ![th] = "live"]
    /\ outcome' = [outcome EXCEPT ![th] = result]
    /\ UNCHANGED <<objects, flag>>

(***************************************************************************)
(* put: insert the object, then look its Notify up and set the flag.       *)
(***************************************************************************)
Put(th, o, v) ==
    /\ Begin(th, o, "notify")
    /\ objects' = [objects EXCEPT ![o] = v]
    /\ UNCHANGED <<flag, mine, outcome>>

Notify(th) ==
    /\ at[th] = "notify"
    /\ flag' = [flag EXCEPT ![arg[th]] = IF @ = Absent THEN Absent ELSE "set"]
    /\ End(th)
    /\ UNCHANGED <<objects, mine, outcome>>

(***************************************************************************)
(* get_or_wait: the fast path; get or create the Notify; look again; wait  *)
(* for the flag; read.                                                     *)
(***************************************************************************)
GetNow(th, o) ==
    /\ at[th] = "idle"
    /\ contains(o)
    /\ Finish(th, objects[o])

Look(th, o) ==
    /\ ~ contains(o)
    /\ Begin(th, o, "register")
    /\ UNCHANGED <<objects, flag, mine, outcome>>

\* Mutant: no Notify is registered.
RegisterNothing(th) ==
    /\ at[th] = "register"
    /\ Goto(th, "check")
    /\ UNCHANGED <<objects, flag, arg, mine, outcome>>

Register(th) ==
    /\ at[th] = "register"
    /\ flag' = [flag EXCEPT ![arg[th]] = IF @ = Absent THEN "unset" ELSE @]
    /\ Goto(th, "check")
    /\ UNCHANGED <<objects, arg, mine, outcome>>

\* Mutant: no second look.
CheckSkipped(th) ==
    /\ at[th] = "check"
    /\ Goto(th, "wait") /\ UNCHANGED <<objects, flag, arg, mine, outcome>>

Check(th) ==
    /\ at[th] = "check"
    /\ IF contains(arg[th])
       THEN Finish(th, objects[arg[th]])
       ELSE Goto(th, "wait") /\ UNCHANGED <<objects, flag, arg, mine, outcome>>

FlagSet(th) == IF mine[th] = "live" THEN flag[arg[th]] = "set" ELSE mine[th] = "set"

\* `if *ready`, then the condition variable.
\* Mutant: `while !*ready` is forgotten around the wait.
WaitOnce(th) ==
    /\ at[th] \in {"wait", "asleep"}
    /\ Goto(th, IF at[th] = "asleep" \/ FlagSet(th) THEN "read" ELSE "asleep")
    /\ UNCHANGED <<objects, flag, arg, mine, outcome>>

Wait(th) ==
    /\ at[th] = "wait" \/ (at[th] = "asleep" /\ FlagSet(th))
    /\ Goto(th, IF FlagSet(th) THEN "read" ELSE "asleep")
    /\ UNCHANGED <<objects, flag, arg, mine, outcome>>

\* wait_for may time out although the flag has just been set.
TimeOut(th) == at[th] = "asleep" /\ Finish(th, Nothing)

Read(th) ==
    /\ at[th] = "read"
    /\ Finish(th, IF contains(arg[th]) THEN objects[arg[th]] ELSE Failed)

(***************************************************************************)
(* delete: the object first, then the Notify, which its waiters keep.      *)
(***************************************************************************)
Delete(th, o) ==
    /\ Begin(th, o, "drop")
    /\ objects' = [objects EXCEPT ![o] = Absent]
    /\ UNCHANGED <<flag, mine, outcome>>

Holds(th, o) == at[th] \in {"check", "wait", "asleep", "read"} /\ arg[th] = o

Drop(th) ==
    LET o == arg[th] IN
    /\ at[th] = "drop"
    /\ flag' = [flag EXCEPT ![o] = Absent]
    /\ mine' = [w \in Thread |->
                  IF Holds(w, o) /\ mine[w] = "live" THEN flag[o] ELSE mine[w]]
    /\ End(th)
    /\ UNCHANGED <<objects, outcome>>
-----------------------------------------------------------------------------
Continue(th) ==
    \/ Notify(th) \/ Register(th) \/ Check(th) \/ Wait(th) \/ Read(th) \/ Drop(th)

Next ==
    \E th \in Thread :
        \/ \E o \in Object : (\E v \in Value : Put(th, o, v)) \/ GetNow(th, o) \/ Look(th, o)
        \/ \E o \in Deletable : Delete(th, o)
        \/ Continue(th) \/ TimeOut(th)

Spec == Init /\ [][Next]_vars
-----------------------------------------------------------------------------
Label == {"idle", "notify", "register", "check", "wait", "asleep", "read", "drop"}

TypeOK ==
    /\ objects \in [Object -> Value \cup {Absent}]
    /\ flag \in [Object -> {"unset", "set", Absent}]
    /\ at \in [Thread -> Label]
    /\ arg \in [Thread -> Object \cup {Nothing}]
    /\ \A th \in Thread : arg[th] = Nothing <=> at[th] = "idle"
    /\ mine \in [Thread -> {"live", "unset", "set"}]
    /\ \A th \in Thread, o \in Object :
          Holds(th, o) /\ mine[th] = "live" => flag[o] # Absent

(***************************************************************************)
(* "Double-check after registering to avoid missed notification"           *)
(* (object_store.rs:95): a thread asleep for an object that is in the map  *)
(* has its flag set, or a put is about to set it; nobody deletes the       *)
(* object.                                                                 *)
(***************************************************************************)
NoMissedNotification ==
    \A th \in Thread :
        at[th] \in {"wait", "asleep"} /\ arg[th] \in Object \ Deletable /\ contains(arg[th]) =>
            FlagSet(th) \/ \E p \in Thread : at[p] = "notify" /\ arg[p] = arg[th]

(***************************************************************************)
(* "Object disappeared after notification (internal error)"                *)
(* (object_store.rs:133) is not raised for an object nobody deletes.       *)
(***************************************************************************)
AvailableWhenNotified ==
    \A th \in Thread : at[th] = "read" /\ arg[th] \notin Deletable => contains(arg[th])

(***************************************************************************)
(* The same blocking map as the Python store.                              *)
(***************************************************************************)
Getting(th) == at[th] \in {"register", "check", "wait", "asleep", "read"}

BM == INSTANCE BlockingMap
        WITH map <- objects, result <- outcome,
             wanted <- [th \in Thread |-> IF Getting(th) THEN arg[th] ELSE Nothing]

BlockingMapSafety == BM!BMSafety
=============================================================================
