----------------------------- MODULE PacketChannel -----------------------------
(***************************************************************************)
(* What the handlers of packets rely on, and DMOJBridge and Grading assume *)
(* of a connection: packets come out whole, in order, none twice and none  *)
(* left out.                                                               *)
(***************************************************************************)
EXTENDS Naturals, Sequences

CONSTANT Packets

VARIABLES sent, received

vars == <<sent, received>>

Init == sent = <<>> /\ received = <<>>

Send(p) ==
    /\ sent' = Append(sent, p)
    /\ UNCHANGED received

\* Some more packets have come out.
Receive(n) ==
    /\ received' = SubSeq(sent, 1, n)
    /\ UNCHANGED sent

Next ==
    \/ \E p \in Packets : Send(p)
    \/ \E n \in Len(received)..Len(sent) : Receive(n)

Spec == Init /\ [][Next]_vars

===============================================================================
