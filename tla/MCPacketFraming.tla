---------------------------- MODULE MCPacketFraming ----------------------------
(* An instance of PacketFraming for TLC. *)
EXTENDS PacketFraming

\* One that fits a header, one that looks like one, an empty one and a garbled one.
FourPayloads == {<<7>>, <<0, 0, 0, 1>>, <<>>, <<1, 0>>}
OneGarbled == {<<1, 0>>}

===============================================================================
