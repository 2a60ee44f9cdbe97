-------------------------------- MODULE Dag --------------------------------
(***************************************************************************)
(* Task arguments (python/nano_ray/dag.py): which ObjectRefs inside nested *)
(* arguments a task depends on, and what the arguments are when these have *)
(* been replaced by values.                                                *)
(*                                                                         *)
(* A value is a record with one field: an ObjectRef, the value of one, a   *)
(* list or tuple, a dictionary (its values, in insertion order), or an     *)
(* object of another type, into which neither function looks.  The bounds  *)
(* are Width and Depth.                                                    *)
(***************************************************************************)
EXTENDS Naturals, Sequences, SequencesExt

CONSTANTS Ref,     \* the ObjectRefs in the arguments
          Width,   \* bound: the length of a list or of a dictionary
          Depth,   \* bound: how many containers deep an argument may be
          Call     \* the args and kwargs of the calls

VARIABLES spec,      \* the args and kwargs of the task being submitted, or <<>>
          dep_ids,   \* the dependencies found in them
          received   \* the args and kwargs its function gets, or <<>>

dagVars == <<spec, dep_ids, received>>

Holding(kind, s) == [k \in {kind} |-> s]
Kind(v) == CHOOSE k \in {"ref", "value", "list", "dict", "object"} : k \in DOMAIN v
Content(v) == v[Kind(v)]

Leaf == {Holding("ref", r) : r \in Ref} \cup {Holding("object", <<>>)}

Deeper(V) ==
    V \cup {Holding(k, s) : k \in {"list", "dict"}, s \in SeqOf(V, Width)}
      \cup {Holding("object", <<v>>) : v \in V}

nested[n \in 0 .. Depth] == IF n = 0 THEN Leaf ELSE Deeper(nested[n - 1])

Value == nested[Depth]

ASSUME DagAssumption ==
    /\ Depth \in Nat /\ Width \in Nat
    /\ Call \subseteq Seq(Value) \X Seq(Value)

\* _collect_refs, on one item.
collected[v \in Value] ==
    CASE Kind(v) = "ref" -> <<Content(v)>>
      [] Kind(v) \in {"list", "dict"} ->
            FlattenSeq([i \in DOMAIN Content(v) |-> collected[Content(v)[i]]])
      [] OTHER -> <<>>

Collected(s) == FlattenSeq([i \in DOMAIN s |-> collected[s[i]]])

\* Mutant: keyword arguments first.
KwargsFirst(args, kwargs) == Collected(kwargs) \o Collected(args)

extract_dependencies(args, kwargs) == Collected(args) \o Collected(kwargs)

\* _resolve.
resolved[v \in Value] ==
    CASE Kind(v) = "ref" -> Holding("value", Content(v))
      [] Kind(v) \in {"list", "dict"} ->
            Holding(Kind(v), [i \in DOMAIN Content(v) |-> resolved[Content(v)[i]]])
      [] OTHER -> v

Resolved(s) == [i \in DOMAIN s |-> resolved[s[i]]]

resolve_args(args, kwargs) == <<Resolved(args), Resolved(kwargs)>>

DagInit == spec = <<>> /\ dep_ids = <<>> /\ received = <<>>

\* submit_task: the dependencies are all the scheduler is told.
Extract(c) ==
    /\ spec = <<>>
    /\ spec' = c
    /\ dep_ids' = extract_dependencies(c[1], c[2])
    /\ UNCHANGED received

\* _flush_ready_tasks: they are there, and the task is executed.
Resolve ==
    /\ spec # <<>> /\ received = <<>>
    /\ received' = resolve_args(spec[1], spec[2])
    /\ UNCHANGED <<spec, dep_ids>>

Return == received # <<>> /\ spec' = <<>> /\ dep_ids' = <<>> /\ received' = <<>>

DagNext == (\E c \in Call : Extract(c)) \/ Resolve \/ Return

DagSpec == DagInit /\ [][DagNext]_dagVars
-----------------------------------------------------------------------------
(***************************************************************************)
(* "The task cannot execute until all its dependencies are resolved"       *)
(* (dag.py:4-5) holds only if the two functions agree on nested arguments: *)
(* what resolve_args asks get_fn for is, in order and with repetitions,    *)
(* what extract_dependencies found, so a task that was released never      *)
(* waits for an object it does not depend on, and no ObjectRef it was      *)
(* found to depend on reaches its function.                                *)
(***************************************************************************)
\* What get_fn gave, read off the resolved arguments.
given[v \in {resolved[w] : w \in Value}] ==
    CASE Kind(v) = "value" -> <<Content(v)>>
      [] Kind(v) \in {"list", "dict"} ->
            FlattenSeq([i \in DOMAIN Content(v) |-> given[Content(v)[i]]])
      [] Kind(v) = "ref" -> <<v>>
      [] OTHER -> <<>>

Given(s) == FlattenSeq([i \in DOMAIN s |-> given[s[i]]])

ResolvesWhatItExtracts ==
    received # <<>> => Given(received[1]) \o Given(received[2]) = dep_ids
=============================================================================
