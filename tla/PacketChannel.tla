----------------------------- MODULE PacketChannel -----------------------------
(***************************************************************************)
(* What fr::Packet promises over a stream socket: a FIFO channel of whole  *)
(* messages.  A message is accepted (Socket::send returned Success), is    *)
(* then delivered once, intact and in order (Socket::receive returned      *)
(* Success), and the receiving end may fail, after which nothing more is   *)
(* ever delivered.                                                         *)
(***************************************************************************)
EXTENDS Naturals, Sequences

CONSTANT Messages          \* the messages the sending application submits, in order

VARIABLES
    accepted,              \* how many messages the sending end has accepted
    delivered,             \* the messages the receiving end has delivered
    open                   \* FALSE once the receiving end has failed or left

vars == <<accepted, delivered, open>>

Init ==
    /\ accepted = 0
    /\ delivered = <<>>
    /\ open = TRUE

Accept ==
    /\ accepted < Len(Messages)
    /\ accepted' = accepted + 1
    /\ UNCHANGED <<delivered, open>>

Deliver ==
    /\ open
    /\ Len(delivered) < accepted
    /\ delivered' = Append(delivered, Messages[Len(delivered) + 1])
    /\ UNCHANGED <<accepted, open>>

Fail ==
    /\ open
    /\ open' = FALSE
    /\ UNCHANGED <<accepted, delivered>>

Next == Accept \/ Deliver \/ Fail

Spec == Init /\ [][Next]_vars
================================================================================
