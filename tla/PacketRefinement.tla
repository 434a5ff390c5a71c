---------------------------- MODULE PacketRefinement ----------------------------
(***************************************************************************)
(* Careful applications get a FIFO channel of whole messages:              *)
(* PacketStream implements PacketChannel.                                  *)
(*                                                                         *)
(* A message is accepted by the ::send that takes the last byte of its     *)
(* frame, delivered by the step that completes its receive, and the        *)
(* channel fails when a receive returns a fatal status or the receiver     *)
(* leaves.  Every other step of the code is a stutter of the channel.      *)
(***************************************************************************)
EXTENDS PacketStreamProofs

\* What PacketChannel's variables stand for here.
Submitted == [m \in Packets |-> Message(m)]
ChannelState == <<tx_msg - 1, Received, Healthy>>

LEMMA SubmittedType ==
    /\ Len(Submitted) = Len(Payload)
    /\ \A m \in Packets : Submitted[m] = Message(m)
<1>1. Len(Payload) \in Nat
  BY PayloadType
<1> QED BY <1>1 DEF Submitted, Packets

\* A careful receiver that stands in the middle of a receive is healthy.
LEMMA ReceivingIsHealthy ==
    ASSUME FramingInv, Careful, Receiving
    PROVE  Healthy
  BY DEF FramingInv, ReceiverHolds

LEMMA ChannelInit == Init => Channel!Init
<1> SUFFICES ASSUME Init PROVE Channel!Init
  OBVIOUS
<1>1. tx_msg - 1 = 0 /\ Received = <<>>
  BY DEF Init, Received
<1>2. Healthy = TRUE
  BY DEF Init, Healthy, Fatal
<1> QED BY <1>1, <1>2 DEF Channel!Init

\* What a step must do for the channel to accept a message.
LEMMA Accepting ==
    ASSUME FramingInv, tx_msg \in Packets, tx_msg' = tx_msg + 1, UNCHANGED receiver
    PROVE  Channel!Accept
<1>1. tx_msg \in Nat /\ tx_msg <= Len(Payload) /\ Len(Payload) \in Nat
  BY PayloadType DEF Packets
<1>2. tx_msg - 1 < Len(Submitted) /\ tx_msg' - 1 = (tx_msg - 1) + 1
  BY <1>1, SubmittedType
<1>3. Received' = Received /\ (Healthy <=> Healthy')
  BY DEF receiver, Received, Healthy
<1>4. Healthy' = Healthy
  BY Zenon, <1>3 DEF Healthy
<1> QED BY <1>2, <1>3, <1>4 DEF Channel!Accept, Submitted

\* What was delivered is the message, whole, and at most an old tail behind it.
LEMMA DeliveredIsMessage ==
    ASSUME FramingInv', Careful, Expected \in Packets,
           NEW packet \in Seq(Byte), delivered \in Seq(Seq(Byte)),
           delivered' = Append(delivered, packet)
    PROVE  Received' = Append(Received, Message(Expected))
<1>1. /\ Len(delivered) \in Nat /\ Len(delivered') = Expected /\ delivered'[Expected] = packet
      /\ \A k \in 1..Len(delivered) : delivered'[k] = delivered[k]
  BY AppendProperties DEF Expected
<1>2. Expected \in 1..Len(delivered')
  BY <1>1 DEF Expected
<1>3. /\ Len(packet) >= Payload[Expected] /\ Payload[Expected] \in Nat
      /\ \A i \in 1..Payload[Expected] : packet[i] = <<Expected, HeaderLength + i>>
  BY <1>1, <1>2, PayloadType DEF FramingInv, DeliveredIntact
<1>4. 1..Payload[Expected] \cap DOMAIN packet = 1..Payload[Expected]
  <2>1. Len(packet) \in Nat /\ DOMAIN packet = 1..Len(packet)
    OBVIOUS
  <2> QED BY <1>3, <2>1
<1>5. [i \in 1..Payload[Expected] \cap DOMAIN packet |-> packet[i]] = Message(Expected)
  BY <1>3, <1>4 DEF Message
<1> DEFINE cut(k, p) == [i \in 1..Payload[k] \cap DOMAIN p |-> p[i]]
<1>6. /\ Received = [k \in 1..Len(delivered) |-> cut(k, delivered[k])]
      /\ Received' = [k \in 1..Expected |-> cut(k, delivered'[k])]
      /\ cut(Expected, packet) = Message(Expected)
  BY <1>1, <1>5 DEF Received
<1> HIDE DEF cut
<1>7. Received' = [k \in 1..Expected |->
                     IF k = Expected THEN Message(Expected) ELSE Received[k]]
  <2> SUFFICES ASSUME NEW k \in 1..Expected
               PROVE  cut(k, delivered'[k]) =
                         (IF k = Expected THEN Message(Expected) ELSE Received[k])
    BY <1>6
  <2>1. CASE k = Expected
    BY <1>1, <1>6, <2>1
  <2>2. CASE k # Expected
    <3>1. k \in 1..Len(delivered)
      BY <1>1, <2>2 DEF Expected
    <3> QED BY <1>1, <1>6, <2>2, <3>1
  <2> QED BY <2>1, <2>2
<1>8. DOMAIN Received = 1..Len(delivered) /\ Len(Received) = Len(delivered)
  BY <1>1, <1>6
<1> QED BY <1>1, <1>7, <1>8 DEF Expected

\* A step that appends a packet and leaves the receiver healthy delivers a message.
LEMMA Delivering ==
    ASSUME FramingInv, FramingInv', Careful, Healthy, Healthy',
           UNCHANGED sender,
           NEW packet \in Seq(Byte), delivered' = Append(delivered, packet)
    PROVE  Channel!Deliver
<1>1. /\ delivered \in Seq(Seq(Byte)) /\ Len(delivered) \in Nat
      /\ tx_msg \in 1..Len(Payload) + 1 /\ Len(Payload) \in Nat
  BY PayloadType, LenProperties DEF FramingInv, SafeInv, TypeOK
<1>2. Expected' = Expected + 1 /\ tx_msg' = tx_msg
  BY <1>1, AppendProperties DEF Expected, sender
<1>3. Expected + 1 <= tx_msg
  BY <1>2 DEF FramingInv, ReceiverAligned
<1>4. Expected \in Nat /\ Expected > 0 /\ tx_msg \in Nat /\ tx_msg <= Len(Payload) + 1
  BY <1>1 DEF Expected
<1>5. Expected \in Packets /\ Len(delivered) < tx_msg - 1
  BY <1>1, <1>3, <1>4 DEF Packets, Expected
<1>6. Received' = Append(Received, Submitted[Len(Received) + 1]) /\ Len(Received) < tx_msg - 1
  <2>1. Len(Received) = Len(delivered)
    BY <1>1 DEF Received
  <2> QED BY <1>1, <1>5, <2>1, DeliveredIsMessage, SubmittedType DEF Expected
<1>7. Healthy' = Healthy /\ tx_msg' - 1 = tx_msg - 1
  BY <1>2
<1> QED BY <1>5, <1>6, <1>7 DEF Channel!Deliver, Submitted

\* A step that ends the receiver's health, or leaves it, and does nothing else.
LEMMA FailingOrNot ==
    ASSUME UNCHANGED <<tx_msg, delivered>>, Healthy' => Healthy
    PROVE  Channel!Fail \/ UNCHANGED ChannelState
<1>0. Received' = Received
  BY DEF Received
<1>1. CASE Healthy /\ ~Healthy'
  <2>1. Healthy' = FALSE
    BY <1>1
  <2> QED BY <1>0, <1>1, <2>1 DEF Channel!Fail
<1>2. CASE Healthy <=> Healthy'
  <2>1. Healthy' = Healthy
    BY Zenon, <1>2 DEF Healthy
  <2> QED BY <1>0, <2>1 DEF ChannelState
<1> QED BY <1>1, <1>2

LEMMA SenderImplements ==
    ASSUME FramingInv, Sender \/ SenderSetBlocking \/ Network
    PROVE  Channel!Next \/ UNCHANGED ChannelState
<1>1. UNCHANGED receiver
  BY DEF Sender, Send, SenderSetBlocking, Network, ConnectionReset, Shutdown, SendBegin, SendAccepted,
         SendWouldBlock, SendRetry, SendTimesOut, SendFails, SenderDisconnects
<1>2. delivered' = delivered /\ (Healthy' => Healthy)
  BY <1>1 DEF receiver, Healthy
<1>3. CASE tx_msg' = tx_msg
  BY <1>2, <1>3, FailingOrNot DEF Channel!Next
<1>4. CASE SendAccepted
  <2>1. tx_msg \in Packets
    BY <1>4 DEF SendAccepted, FramingInv, SafeInv, TypeOK
  <2>2. tx_msg' = tx_msg \/ tx_msg' = tx_msg + 1
    BY <1>4 DEF SendAccepted, Accept
  <2> QED BY <1>1, <1>3, <2>1, <2>2, Accepting DEF Channel!Next
<1>5. CASE ~SendAccepted
  <2>1. tx_msg' = tx_msg
    BY <1>5 DEF Sender, Send, SenderSetBlocking, Network, ConnectionReset, Shutdown, SendBegin, SendWouldBlock,
                SendRetry, SendTimesOut, SendFails, SenderDisconnects, sender
  <2> QED BY <1>3, <2>1
<1> QED BY <1>4, <1>5

LEMMA ReceiverImplements ==
    ASSUME FramingInv, FramingInv', Careful, Receiver \/ ReceiverSetBlocking
    PROVE  Channel!Next \/ UNCHANGED ChannelState
<1>1. UNCHANGED sender /\ tx_msg' = tx_msg
  BY DEF Receiver, Receive, ReceiverSetBlocking, ReceiveBegin, ReceivePart, ReceiveHeader,
         ReceivePayload, ReceiveNothing, ReceiveEof, ReceiveError, ReceiveRawFails,
         ReceiverDisconnects, sender
<1>2. buffer' \in Seq(Byte)
  BY DEF FramingInv, SafeInv, TypeOK
<1>3. CASE ReceiveBegin
  <2>1. Healthy /\ delivered' = delivered
    BY <1>3 DEF ReceiveBegin, Healthy
  <2> QED BY <1>1, <2>1, FailingOrNot DEF Channel!Next
<1>4. CASE ReceivePart
  <2>1. Healthy /\ delivered' = delivered
    BY <1>4, ReceivingIsHealthy DEF ReceivePart
  <2> QED BY <1>1, <2>1, FailingOrNot DEF Channel!Next
<1>5. CASE ReceiveHeader
  <2>1. Healthy
    BY <1>5, ReceivingIsHealthy DEF ReceiveHeader, Receiving
  <2>2. \/ delivered' = delivered
        \/ ReceiveReturns("Success") /\ delivered' = Append(delivered, buffer')
    BY <1>5 DEF ReceiveHeader
  <2>3. CASE delivered' = delivered
    BY <1>1, <2>1, <2>3, FailingOrNot DEF Channel!Next
  <2>4. CASE ReceiveReturns("Success") /\ delivered' = Append(delivered, buffer')
    <3>1. Healthy'
      BY <2>4 DEF ReceiveReturns, Healthy, Fatal
    <3> QED BY <1>1, <1>2, <2>1, <2>4, <3>1, Delivering DEF Channel!Next
  <2> QED BY <2>2, <2>3, <2>4
<1>6. CASE ReceivePayload
  <2>1. Healthy
    BY <1>6, ReceivingIsHealthy DEF ReceivePayload, Receiving
  <2>2. Healthy' /\ delivered' = Append(delivered, buffer')
    BY <1>6 DEF ReceivePayload, ReceiveReturns, Healthy, Fatal
  <2> QED BY <1>1, <1>2, <2>1, <2>2, Delivering DEF Channel!Next
<1>7. CASE ReceiveNothing \/ ReceiveEof \/ ReceiveError
  <2>1. Receiving /\ delivered' = delivered
    BY <1>7 DEF ReceiveNothing, ReceiveEof, ReceiveError, ReceiveRawFails
  <2>2. Healthy
    BY <2>1, ReceivingIsHealthy
  <2> QED BY <1>1, <2>1, <2>2, FailingOrNot DEF Channel!Next
<1>8. CASE ReceiverDisconnects \/ ReceiverSetBlocking
  <2>1. delivered' = delivered /\ (Healthy' => Healthy)
    BY <1>8 DEF ReceiverDisconnects, ReceiverSetBlocking, Healthy
  <2> QED BY <1>1, <2>1, FailingOrNot DEF Channel!Next
<1> QED BY <1>3, <1>4, <1>5, <1>6, <1>7, <1>8 DEF Receiver, Receive

LEMMA ChannelStep ==
    ASSUME FramingInv, FramingInv', Careful, [Next]_vars
    PROVE  Channel!Next \/ UNCHANGED ChannelState
<1>1. CASE Sender \/ SenderSetBlocking \/ Network
  BY <1>1, SenderImplements
<1>2. CASE Receiver \/ ReceiverSetBlocking
  BY <1>2, ReceiverImplements
<1>3. CASE Over \/ UNCHANGED vars
  <2>1. UNCHANGED <<tx_msg, delivered, rx_pc, rx_status>>
    BY <1>3 DEF Over, vars, sender, receiver
  <2>2. Healthy' => Healthy
    BY <2>1 DEF Healthy
  <2> QED BY <2>1, <2>2, FailingOrNot DEF Channel!Next
<1> QED BY <1>1, <1>2, <1>3 DEF Next

\* Packet::send and Packet::receive over a TcpSocket, used carefully, implement a FIFO
\* channel of whole messages: for all packets, pipe sizes, timeouts, limits, blocking
\* modes and faults, each step of the code is a step of PacketChannel or none.
THEOREM ImplementsChannel ==
    ASSUME Careful
    PROVE  Spec => ChannelSpec
<1>1. Init => Channel!Init
  BY ChannelInit
<1>2. FramingInv /\ FramingInv' /\ [Next]_vars => [Channel!Next]_(Channel!vars)
  <2>1. UNCHANGED ChannelState => UNCHANGED Channel!vars
    BY DEF ChannelState, Channel!vars
  <2> QED BY <2>1, ChannelStep
<1> QED BY <1>1, <1>2, FramingInvariant, PTL DEF Spec, ChannelSpec, Channel!Spec
================================================================================
