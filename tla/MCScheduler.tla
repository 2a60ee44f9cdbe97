---------------------------- MODULE MCScheduler ----------------------------
(***************************************************************************)
(* TLC instance of the two schedulers and of the dependencies they are     *)
(* told.  The program imports the Rust scheduler if it is there and the    *)
(* Python one if not (head.py:56-61), so a behaviour is one of             *)
(* SchedulerCallers, one of RustScheduler, or one of Dag, in which the     *)
(* variables of the others stay as they are.  In the first two             *)
(* dependencies are lists of up to two objects, the same object twice      *)
(* included; Dag shows where such lists come from.                         *)
(***************************************************************************)
EXTENDS RustScheduler, Dag

VARIABLE part   \* "python", "rust" or "dag"

MCDeps == SeqOf(Object, 2)

\* Calls with one argument of any shape, or with several that are not containers.
MCCall == (SeqOf(Leaf, 2) \cup {<<v>> : v \in Value}) \X SeqOf(Leaf, 1)

MCInit == part \in {"python", "rust", "dag"} /\ Init /\ RustInit /\ DagInit

MCNext ==
    \/ part = "python" /\ Next /\ UNCHANGED <<rustVars, dagVars>>
    \/ part = "rust" /\ RustNext /\ UNCHANGED <<vars, dagVars>>
    \/ part = "dag" /\ DagNext /\ UNCHANGED <<vars, rustVars>>

MCSpec ==
    /\ MCInit /\ [][MCNext /\ UNCHANGED part]_<<part, vars, rustVars, dagVars>>
    /\ WF_vars(part = "python" /\ Pop)
=============================================================================
