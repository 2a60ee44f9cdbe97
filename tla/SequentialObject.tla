-------------------------- MODULE SequentialObject --------------------------
(***************************************************************************)
(* What an actor promises: its methods run one at a time, each on the      *)
(* state the one before left behind.  The state is the sequence of the     *)
(* calls so far.  A call takes its place while its caller is in .remote(): *)
(* calls are ordered as they were submitted, by one thread or several.     *)
(* An actor does not outlive a method that raises, nor an __init__ that    *)
(* does.                                                                   *)
(***************************************************************************)
EXTENDS Naturals, Sequences, SequencesExt

CONSTANTS Call, Raises, Unresolved, Error

VARIABLES object,  \* what __init__ made: a state without calls, or an error
          open,    \* the calls whose callers are in .remote()
          log,     \* the order the calls were put in
          answer   \* the result of each call

soVars == <<object, open, log, answer>>

SOInit == object = Unresolved /\ open = {} /\ log = <<>> /\ answer = [c \in Call |-> Unresolved]

SOCreate ==
    /\ object = Unresolved
    /\ object' \in {<<>>, Error}
    /\ UNCHANGED <<open, log, answer>>

SOBegin(c) ==
    /\ c \notin open \cup ToSet(log)
    /\ open' = open \cup {c}
    /\ UNCHANGED <<object, log, answer>>

SOOrder(c) ==
    /\ c \in open \ ToSet(log)
    /\ log' = Append(log, c)
    /\ UNCHANGED <<object, open, answer>>

SOEnd(c) ==
    /\ c \in open \cap ToSet(log)
    /\ open' = open \ {c}
    /\ UNCHANGED <<object, log, answer>>

\* The result tells the state the method ran on, and that it ran.
SOAnswer(c) ==
    \E i \in DOMAIN log :
        /\ log[i] = c /\ answer[c] = Unresolved
        /\ object # Unresolved
        /\ answer' = [answer EXCEPT ![c] =
               IF object = Error \/ \E j \in 1 .. i : log[j] \in Raises
               THEN Error ELSE SubSeq(log, 1, i)]
        /\ UNCHANGED <<object, open, log>>

SONext ==
    SOCreate \/ \E c \in Call : SOBegin(c) \/ SOOrder(c) \/ SOEnd(c) \/ SOAnswer(c)

SOSafety == SOInit /\ [][SONext]_soVars
=============================================================================
