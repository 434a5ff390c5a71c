---------------------------- MODULE MCPacketStream ----------------------------
(* Instances of PacketStream for TLC: the packets the sender submits. *)
EXTENDS PacketStream

\* A long packet before shorter ones, for a reused Packet; an empty one; and the last one
\* over a receive limit of 2.
MixedPackets == <<2, 0, 1, 3>>
================================================================================
