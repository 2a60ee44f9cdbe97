------------------------------ MODULE Futures ------------------------------
(***************************************************************************)
(* What the runtime promises to a program that submits tasks and gets      *)
(* their results: every ObjectRef is a future.  It resolves once, to what  *)
(* its function makes of the values its arguments resolved to, and its     *)
(* value never changes, however often the task is executed or the object   *)
(* evicted and rebuilt.                                                    *)
(***************************************************************************)
EXTENDS TaskFunctions, Sequences, SequencesExt

CONSTANT Unresolved

VARIABLES created,   \* the tasks submitted
          inputs,    \* the futures each was given as arguments
          value      \* what each future resolved to

futVars == <<created, inputs, value>>

FutInit ==
    /\ created = {}
    /\ inputs = [t \in Task |-> <<>>]
    /\ value = [t \in Task |-> Unresolved]

Create(t) ==
    /\ t \notin created
    /\ created' = created \cup {t}
    /\ ToSet(inputs'[t]) \subseteq created
    /\ inputs' = [inputs EXCEPT ![t] = inputs'[t]]
    /\ UNCHANGED value

Resolve(t) ==
    /\ t \in created
    /\ value[t] = Unresolved
    /\ \A d \in ToSet(inputs[t]) : value[d] # Unresolved
    /\ value' = [value EXCEPT ![t] =
                    Outcome(t, [i \in DOMAIN inputs[t] |-> value[inputs[t][i]]])]
    /\ UNCHANGED <<created, inputs>>

FutNext == \E t \in Task : Create(t) \/ Resolve(t)

FutSafety == FutInit /\ [][FutNext]_futVars

\* An argument of the task, or of one of these, is a task that raises.
onFailure[t \in Task] == \E d \in ToSet(inputs[t]) : d \in Fails \/ onFailure[d]

\* Other tasks get their result without anybody asking for it: each in its
\* time, so all that are ever created in the end.
FutLive == <>[](\A t \in created : ~ onFailure[t] => value[t] # Unresolved)
=============================================================================
