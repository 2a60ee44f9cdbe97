----------------------------- MODULE MCRuntime -----------------------------
(***************************************************************************)
(* TLC instances of Runtime.  Users are interchangeable.                   *)
(***************************************************************************)
EXTENDS Runtime, TLC

\* The same object twice: more results than there are.
MCWaits == {<<<<1, 1>>, 2>>}

Symmetry == Permutations(User)

MaxQueued == 3   \* copies of tasks and results between the processes at once

\* State constraint: two users are in a call at once only while the runtime is
\* up and nobody is in wait, with the first two tasks.  The third, which raises,
\* is submitted when those have their results.
Focus ==
    /\ Len(taskQueue) + Len(resultQueue) <= MaxQueued
    /\ \/ isRunning /\ 3 \notin submitted /\ ~ \E u \in User : At(u, "wait")
       \/ /\ Cardinality({u \in User : stack[u] # <<>>}) <= 1
          /\ 3 \in submitted =>
               isRunning /\ evicts = 0 /\ Store!contains(1) /\ Store!contains(2)
=============================================================================
