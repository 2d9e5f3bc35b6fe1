----------------------------- MODULE PacketFraming -----------------------------
(***************************************************************************)
(* The framing of packets on a judge's connection.  A packet is deflated   *)
(* and sent after four bytes that hold its length; TCP cuts the bytes      *)
(* anywhere, and the 'data' handler puts the frames together again.  What  *)
(* is sent in one direction is written the same way in the other, so one   *)
(* direction is modelled.                                                  *)
(***************************************************************************)
EXTENDS Naturals, Sequences

CONSTANTS
    Payloads,   \* what packets deflate to, as sequences of bytes
    Garbled,    \* payloads that do not inflate, or not to JSON
    MaxSent     \* packets that may be sent

Bytes == 0..255
HeaderLength == 4

ASSUME FramingAssumption ==
    Payloads \subseteq Seq(Bytes) /\ Garbled \subseteq Payloads /\ MaxSent \in Nat

VARIABLES
    open,       \* whether the socket is open
    sent,       \* history: the payloads that were written
    wire,       \* bytes written and not yet received
    buffer,     \* the handler's buffer
    received    \* the payloads of the packets that handlePacket was called with

vars == <<open, sent, wire, buffer, received>>

Init ==
    /\ open = TRUE
    /\ sent = <<>> /\ wire = <<>> /\ buffer = <<>> /\ received = <<>>

-------------------------------------------------------------------------------
(* Frames. *)

WriteUInt32BE(n) == <<n \div 256 ^ 3, (n \div 256 ^ 2) % 256, (n \div 256) % 256, n % 256>>
ReadUInt32BE(b) == b[1] * 256 ^ 3 + b[2] * 256 ^ 2 + b[3] * 256 + b[4]

\* It throws, and nothing is sent, if the length does not fit the header.
ASSUME HeaderAssumption == \A p \in Payloads : WriteUInt32BE(Len(p)) \in Seq(Bytes)

Frame(p) == WriteUInt32BE(Len(p)) \o p

\* Mutated form of HoldsFrame: one byte too many is waited for.
HoldsFrameAndMore(b) ==
    Len(b) >= HeaderLength /\ Len(b) > ReadUInt32BE(b) + HeaderLength

HoldsFrame(b) ==
    Len(b) >= HeaderLength /\ Len(b) >= ReadUInt32BE(b) + HeaderLength

FirstPayload(b) == SubSeq(b, HeaderLength + 1, HeaderLength + ReadUInt32BE(b))
AfterFrame(b) == SubSeq(b, HeaderLength + ReadUInt32BE(b) + 1, Len(b))

\* handlePacket is called with the packet, unless inflateSync or JSON.parse
\* throws, which is logged.
Handle(handled, p) == IF p \in Garbled THEN handled ELSE Append(handled, p)

\* How far the handler's loop has come: the payloads handlePacket was called
\* with, and the buffer.
Progress == [payloads : Seq(Seq(Bytes)), rest : Seq(Bytes)]

Begin(b) == [payloads |-> <<>>, rest |-> b]

\* Mutated form of Turn: a garbled packet takes with it what follows it.
TurnUntilGarbled(st) ==
    IF ~HoldsFrame(st.rest) THEN st
    ELSE IF FirstPayload(st.rest) \in Garbled THEN [st EXCEPT !.rest = <<>>]
    ELSE [payloads |-> Append(st.payloads, FirstPayload(st.rest)), rest |-> AfterFrame(st.rest)]

\* One turn of the loop: a frame is cut off and its packet handled.
Turn(st) ==
    IF ~HoldsFrame(st.rest) THEN st
    ELSE [payloads |-> Handle(st.payloads, FirstPayload(st.rest)), rest |-> AfterFrame(st.rest)]

\* Mutated form of Consume: one frame a call.
ConsumeOne(b) == Turn(Begin(b))

\* One call of the 'data' handler with this buffer.  The loop ends when no frame
\* is left: every frame has bytes, so it takes no more turns than there are bytes.
Consume(b) ==
    LET turn == [st \in Progress |-> Turn(st)]
        upTo[n \in 0..Len(b)] == IF n = 0 THEN Begin(b) ELSE turn[upTo[n - 1]]
    IN  upTo[Len(b)]

-------------------------------------------------------------------------------

Send(p) ==
    /\ open /\ Len(sent) < MaxSent
    /\ sent' = Append(sent, p)
    /\ wire' = wire \o Frame(p)
    /\ UNCHANGED <<open, buffer, received>>

\* The next n bytes arrive.
Data(n) ==
    /\ open
    /\ LET consumed == Consume(buffer \o SubSeq(wire, 1, n))
       IN  /\ buffer' = consumed.rest
           /\ received' = received \o consumed.payloads
    /\ wire' = SubSeq(wire, n + 1, Len(wire))
    /\ UNCHANGED <<open, sent>>

\* The connection ends, maybe inside a frame.
Close ==
    /\ open
    /\ open' = FALSE
    /\ UNCHANGED <<sent, wire, buffer, received>>

DataArrives == \E n \in 1..Len(wire) : Data(n)

Next == (\E p \in Payloads : Send(p)) \/ DataArrives \/ Close

Spec == Init /\ [][Next]_vars

\* TCP delivers what was written as long as the connection is open.
FairSpec == Spec /\ WF_vars(DataArrives)

-------------------------------------------------------------------------------
\* The packets among payloads.
Parsed(payloads) ==
    LET upTo[k \in 0..Len(payloads)] ==
            IF k = 0 THEN <<>> ELSE Handle(upTo[k - 1], payloads[k])
    IN  upTo[Len(payloads)]

(***************************************************************************)
(* However the bytes are cut, handlePacket sees the packets that can be    *)
(* parsed, whole, in order, none twice and none left out; a packet that    *)
(* cannot be parsed costs no other packet.                                 *)
(***************************************************************************)
Channel == INSTANCE PacketChannel WITH
    Packets <- Payloads \ Garbled, sent <- Parsed(sent)

ChannelIsImplemented == Channel!Spec

\* The bytes of packets, and how many of those of what was sent have been received.
Stream(payloads) ==
    LET upTo[k \in 0..Len(payloads)] ==
            IF k = 0 THEN <<>> ELSE upTo[k - 1] \o Frame(payloads[k])
    IN  upTo[Len(payloads)]

Arrived == Len(Stream(sent)) - Len(wire)

\* The packets of the first k frames have been handled, and the buffer and the
\* wire hold the frames after them.
First(k) == SubSeq(sent, 1, k)

HandledUpTo(k) ==
    /\ received = Parsed(First(k))
    /\ Stream(sent) = Stream(First(k)) \o (buffer \o wire)

FramingTypeOK ==
    /\ open \in BOOLEAN
    /\ sent \in Seq(Payloads) /\ received \in Seq(Payloads)
    /\ wire \in Seq(Bytes) /\ buffer \in Seq(Bytes)

\* The inductive invariant: the handler stands between two frames, and has
\* handled every frame that is there as a whole.
FramingInv ==
    /\ FramingTypeOK
    /\ ~HoldsFrame(buffer)
    /\ \E k \in 0..Len(sent) : HandledUpTo(k)

(***************************************************************************)
(* A packet is handled by the call that receives its last byte: none waits *)
(* in the buffer for the bytes of another, as a judge that has sent        *)
(* grading-end and waits for work would never send them.                   *)
(***************************************************************************)
HandledOnArrival ==
    \A k \in 1..Len(sent) :
        sent[k] \notin Garbled =>
            (Len(Stream(First(k))) <= Arrived <=> Len(Parsed(First(k))) <= Len(received))

(***************************************************************************)
(* Every packet that is sent and can be parsed is handled, unless the      *)
(* connection ends.                                                        *)
(***************************************************************************)
EverythingArrives ==
    \A k \in 1..MaxSent :
        Len(Parsed(sent)) >= k ~> ~open \/ Len(received) >= k

===============================================================================
