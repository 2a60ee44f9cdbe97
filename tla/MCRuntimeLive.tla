--------------------------- MODULE MCRuntimeLive ---------------------------
(***************************************************************************)
(* TLC instance of RuntimeCalls.  The more threads take part, the fewer    *)
(* tasks there are: with three tasks one thread makes all the calls, and   *)
(* may shut the runtime down, or evict when every task has its result,     *)
(* with two tasks it also calls wait, and another thread evicts while it   *)
(* does, and with one task both threads call what they like.  A behaviour  *)
(* has a shutdown or an eviction.                                          *)
(***************************************************************************)
EXTENDS RuntimeCalls

VARIABLE tasks   \* how many tasks this behaviour may submit

\* Two results, and more than there are.
MCWaits == {<<<<1, 2>>, 2>>, <<<<2, 2>>, 3>>}

Caller == CHOOSE u \in User : TRUE

MCInit == CallsInit /\ tasks \in 1 .. 3

\* Which steps a behaviour with that many tasks may take.
Allowed ==
    /\ Cardinality(submitted') <= tasks
    /\ isRunning' \/ (tasks = 3 /\ evicts' = 0)
    /\ tasks # 2 => ~ (\E u \in User : At(u, "wait"))'
    /\ tasks # 1 => \A u \in User \ {Caller} : stack'[u] = <<>>
    /\ tasks = 3 /\ evicts' # evicts =>
         stack[Caller] = <<>> /\ \A t \in submitted : Store!contains(t)
    /\ UNCHANGED tasks

MCSpec == MCInit /\ [][CallsNext /\ Allowed]_<<callsVars, tasks>> /\ Fairness
=============================================================================
