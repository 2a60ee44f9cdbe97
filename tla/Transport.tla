----------------------------- MODULE Transport -----------------------------
(***************************************************************************)
(* One direction of a connection, byte by byte (python/nano_ray/transport. *)
(* py): a message is a header with its length, and its bytes.  The kernel  *)
(* takes and gives them in pieces of any size, and the sender may close    *)
(* the connection or die in the middle of a message.  cloudpickle is left  *)
(* out: a message is the bytes it is dumped to.  A byte is one of Base     *)
(* digits.  Bound: MaxSends calls of send_msg.                             *)
(***************************************************************************)
EXTENDS Integers, Sequences, SequencesExt

CONSTANTS Base, HeaderSize, MaxMessage,
          Message,        \* the byte sequences that are sent, those too large included
          MaxSends,
          Asking, Ended, Raised

Byte == 0 .. Base - 1

\* The first number that k bytes cannot hold.
places[k \in 0 .. HeaderSize] == IF k = 0 THEN 1 ELSE Base * places[k - 1]

ASSUME TransportAssumption ==
    /\ {Base, HeaderSize, MaxMessage} \subseteq Nat \ {0}
    /\ MaxMessage < places[HeaderSize]
    /\ Message \subseteq Seq(Byte) \ {<<>>}

VARIABLES
    sends,         \* the calls of send_msg so far
    unsent,        \* what sendall has yet to write
    wire,          \* the bytes between the two ends
    open,
    header, data,  \* what _recv_exact has put together so far
    got            \* what recv_msg last returned, or Asking while it runs

transportVars == <<sends, unsent, wire, open, header, data, got>>

\* struct.pack of "!I", in k bytes; then struct.unpack.
packed[k \in 0 .. HeaderSize] ==
    [n \in Nat |-> IF k = 0 THEN <<>> ELSE Append(packed[k - 1][n \div Base], n % Base)]

pack(n) == packed[HeaderSize][n]

unpacked[bytes \in SeqOf(Byte, HeaderSize)] ==
    IF bytes = <<>> THEN 0 ELSE unpacked[Front(bytes)] * Base + Last(bytes)

unpack(bytes) == unpacked[bytes]

TransportInit ==
    /\ sends = 0 /\ unsent = <<>> /\ wire = <<>> /\ open = TRUE
    /\ header = <<>> /\ data = <<>>
    /\ got = Asking

\* A message that is too large raises before anything is written.
send_msg(m) ==
    /\ open /\ unsent = <<>> /\ sends < MaxSends
    /\ sends' = sends + 1
    /\ unsent' = IF Len(m) > MaxMessage THEN <<>> ELSE pack(Len(m)) \o m
    /\ UNCHANGED <<wire, open, header, data, got>>

sendall ==
    \E k \in 1 .. Len(unsent) :
        /\ wire' = wire \o SubSeq(unsent, 1, k)
        /\ unsent' = SubSeq(unsent, k + 1, Len(unsent))
        /\ UNCHANGED <<sends, open, header, data, got>>

\* The sender closes the connection or dies; what is on the wire may be lost.
Break ==
    /\ open
    /\ open' = FALSE
    /\ unsent' = <<>>
    /\ \E k \in 0 .. Len(wire) : wire' = SubSeq(wire, 1, k)
    /\ UNCHANGED <<sends, header, data, got>>

recv_msg == got \in Message /\ got' = Asking /\ UNCHANGED <<sends, unsent, wire, open, header, data>>

HeaderRead == Len(header) = HeaderSize

\* What the loop of _recv_exact has not received yet.
Missing == IF HeaderRead THEN unpack(header) - Len(data) ELSE HeaderSize - Len(header)

\* A chunk, and what recv_msg does when it is the last.
\* Mutant: the first chunk of the message is taken for all of it.
recv_once(chunk) ==
    IF HeaderRead THEN got' = data \o chunk /\ header' = <<>> /\ data' = <<>>
                  ELSE header' = header \o chunk /\ UNCHANGED <<data, got>>

recv_exact(chunk) ==
    \/ /\ ~ HeaderRead
       /\ header' = header \o chunk
       /\ got' = IF Len(header') = HeaderSize /\ unpack(header') > MaxMessage THEN Raised ELSE got
       /\ UNCHANGED data
    \/ /\ HeaderRead /\ Len(chunk) < Missing
       /\ data' = data \o chunk
       /\ UNCHANGED <<header, got>>
    \/ /\ HeaderRead /\ Len(chunk) = Missing
       /\ got' = data \o chunk
       /\ header' = <<>> /\ data' = <<>>

Chunk ==
    /\ got = Asking
    /\ \E k \in 1 .. Missing :
          /\ k <= Len(wire)
          /\ recv_exact(SubSeq(wire, 1, k))
          /\ wire' = SubSeq(wire, k + 1, Len(wire))
    /\ UNCHANGED <<sends, unsent, open>>

\* recv returns no bytes: the message there was the start of is given up.
Eof ==
    /\ got = Asking /\ wire = <<>> /\ ~ open
    /\ got' = Ended
    /\ UNCHANGED <<sends, unsent, wire, open, header, data>>

Receive == recv_msg \/ Chunk \/ Eof

TransportNext == (\E m \in Message : send_msg(m)) \/ sendall \/ Break \/ Receive

(***************************************************************************)
(* The kernel takes and delivers bytes, and the receiver is a loop around  *)
(* recv_msg (head.py:191-192).                                             *)
(***************************************************************************)
TransportFairness == WF_transportVars(sendall) /\ WF_transportVars(Receive)

TransportSpec == TransportInit /\ [][TransportNext]_transportVars /\ TransportFairness
-----------------------------------------------------------------------------
\* The messages that a sequence of bytes holds from its start.
Whole(bytes) ==
    /\ Len(bytes) >= HeaderSize
    /\ Len(bytes) >= HeaderSize + unpack(SubSeq(bytes, 1, HeaderSize))

First(bytes) ==
    SubSeq(bytes, HeaderSize + 1, HeaderSize + unpack(SubSeq(bytes, 1, HeaderSize)))

AfterFirst(bytes) ==
    SubSeq(bytes, HeaderSize + unpack(SubSeq(bytes, 1, HeaderSize)) + 1, Len(bytes))

Messages[bytes \in Seq(Byte)] ==
    IF Whole(bytes) THEN <<First(bytes)>> \o Messages[AfterFirst(bytes)] ELSE <<>>

InFlight == header \o data \o wire \o unsent

Chan == INSTANCE Channel WITH queue <- Messages[InFlight]

(***************************************************************************)
(* However the bytes are cut into pieces and wherever the connection ends, *)
(* they are received as the messages that were sent: never a piece of one, *)
(* two run together, or one whose length is refused (transport.py:35-75).  *)
(* Every message whose bytes arrive is received, and the end of the        *)
(* connection is noticed, in the middle of a message too (transport.py:71).*)
(***************************************************************************)
ChannelSafety == Chan!Safety

ImplementsChannel == ChannelSafety /\ Chan!Live
=============================================================================
