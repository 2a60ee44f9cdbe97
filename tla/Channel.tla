------------------------------ MODULE Channel ------------------------------
(***************************************************************************)
(* What the transport promises to one end about what the other end sends:  *)
(* whole messages, each once and in order, until the connection ends; then *)
(* the last of them may be lost, and recv_msg says that it has ended.      *)
(* Cluster and HeadService use their connections this way.                 *)
(***************************************************************************)
EXTENDS Naturals, Sequences

CONSTANTS Message, Asking, Ended

VARIABLES queue,  \* the messages on their way
          open,   \* the connection
          got     \* what recv_msg last returned, or Asking while it runs

channelVars == <<queue, open, got>>

ChannelInit == queue = <<>> /\ open = TRUE /\ got = Asking

Put(m) == open /\ queue' = Append(queue, m) /\ UNCHANGED <<open, got>>

Ask == got \in Message /\ got' = Asking /\ UNCHANGED <<queue, open>>

Get ==
    /\ got = Asking /\ queue # <<>>
    /\ got' = Head(queue)
    /\ queue' = Tail(queue)
    /\ UNCHANGED open

Lose ==
    /\ open
    /\ open' = FALSE
    /\ \E k \in 0 .. Len(queue) : queue' = SubSeq(queue, 1, k)
    /\ UNCHANGED got

Notice ==
    /\ got = Asking /\ queue = <<>> /\ ~ open
    /\ got' = Ended
    /\ UNCHANGED <<queue, open>>

ChannelNext == (\E m \in Message : Put(m)) \/ Ask \/ Get \/ Lose \/ Notice

Safety == ChannelInit /\ [][ChannelNext]_channelVars

\* Who keeps asking is given every message that is not lost, and is told that
\* the connection has ended.
Live == []<>(queue = <<>> /\ (open \/ got = Ended))
=============================================================================
