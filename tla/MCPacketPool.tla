---------------------------- MODULE MCPacketPool ----------------------------
(* A small instance of PacketPool for TLC. *)
EXTENDS PacketPool

OneOfEach == [w \in Workers |-> w]
=============================================================================
