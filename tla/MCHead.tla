------------------------------- MODULE MCHead -------------------------------
(***************************************************************************)
(* TLC instance of the head's connections and of the transport under them: *)
(* a behaviour is one of HeadService, whose peers exchange whole messages, *)
(* or one of Transport, which shows that they may, and the variables of    *)
(* the other stay as they are.  The messages of Transport start like       *)
(* headers, and one of them is larger than the limit.                      *)
(***************************************************************************)
EXTENDS HeadService, Transport

VARIABLE part   \* "head" or "transport"

MCMessage == {<<0>>, <<0, 1>>, <<1, 0>>, <<1, 1, 0>>}

MCInit == part \in {"head", "transport"} /\ Init /\ TransportInit

MCNext ==
    \/ part = "head" /\ Next /\ UNCHANGED transportVars
    \/ part = "transport" /\ TransportNext /\ UNCHANGED vars

MCSpec ==
    /\ MCInit /\ [][MCNext /\ UNCHANGED part]_<<part, vars, transportVars>>
    /\ \A p \in Peer : /\ WF_vars(part = "head" /\ Woken(p))
                       /\ WF_vars(part = "head" /\ Accept(p))
                       /\ WF_vars(part = "head" /\ Hears(p))
    /\ WF_vars(part = "head" /\ AcceptEnds)
    /\ WF_vars(part = "head" /\ (CloseWorkers \/ CloseServer))
    /\ WF_transportVars(part = "transport" /\ sendall)
    /\ WF_transportVars(part = "transport" /\ Receive)
=============================================================================
