------------------------------ MODULE PacketStream ------------------------------
(***************************************************************************)
(* One direction of an fr::Packet conversation over fr::TcpSocket:         *)
(*                                                                         *)
(*   Packet::send -> TcpSocket::send_raw -> kernel byte pipe ->            *)
(*       TcpSocket::receive_raw -> Socket::receive_all -> Packet::receive  *)
(*                                                                         *)
(* A packet on the wire is a header (its payload length) and the payload.  *)
(* TCP keeps the bytes in order and cuts them anywhere, so both ends loop. *)
(* A byte is the pair <<packet, offset in its frame>>: two bytes are equal *)
(* only when they are the same byte of the same packet.                    *)
(***************************************************************************)
EXTENDS Naturals, Sequences

CONSTANTS
    Payload,          \* Payload[m] is the payload length of the m-th packet sent
    HeaderLength,     \* PACKET_HEADER_LENGTH (4 in the code)
    PipeCapacity,     \* bytes the two kernels buffer between the sockets
    MaxReceiveSize,   \* set_max_receive_size of the receiver, 0 for no limit
    SendTimeout,      \* is a send timeout configured (socket_write_timeout # 0)?
    ReceiveTimeout,   \* is a receive timeout configured (socket_read_timeout # 0)?
    ReusePacket,      \* may the receiver pass a Packet to receive more than once?
    Careful,          \* do the applications disconnect after a fatal status?
    Faults,           \* may processes die, connections be reset, sockets be shut down?
    MaxDecoded,       \* bound: largest length that bytes which are no header decode to
    MaxStream         \* bound: stream length beyond which no failed packet is resent

ASSUME ParametersAssumption ==
    /\ Payload \in Seq(Nat)
    /\ HeaderLength \in Nat \ {0}
    /\ PipeCapacity \in Nat \ {0}
    /\ MaxReceiveSize \in Nat
    /\ MaxDecoded \in Nat
    /\ MaxStream \in Nat

ASSUME FlagsAssumption ==
    {SendTimeout, ReceiveTimeout, ReusePacket, Careful, Faults} \subseteq BOOLEAN

VARIABLES
    stream,           \* every byte the sending kernel accepted
    consumed,         \* how many of them the receiver has read
    reset,            \* the connection was reset
    shut,             \* the ends whose socket was shut down
    tx_pc,            \* sender: idle, sending (in send_raw), retry (WouldBlock), closed
    tx_blocking,      \* is_blocking of the sending socket
    tx_msg,           \* the packet being sent, or the next one
    tx_sent,          \* Packet::send's `sent`
    tx_status,        \* what the last completed send returned
    rx_pc,            \* receiver: idle, header, payload (in receive_all), closed
    rx_blocking,      \* is_blocking of the receiving socket
    rx_header,        \* Packet::receive's packet_length, as the bytes read into it
    rx_length,        \* packet_length, decoded
    rx_got,           \* receive_all's buffer_size - bytes_remaining
    buffer,           \* the receiver's Packet::buffer, without its header area
    rx_status,        \* what the last completed receive returned
    frame_at,         \* history: where in the stream each packet starts
    rx_base,          \* history: `consumed` when the receive began
    delivered         \* history: the packets receives returned with Success

kernel == <<stream, consumed, reset, shut>>
sender == <<tx_pc, tx_blocking, tx_msg, tx_sent, tx_status, frame_at>>
receiver == <<rx_pc, rx_blocking, rx_header, rx_length, rx_got, buffer,
              rx_status, rx_base, delivered>>
vars == <<kernel, sender, receiver>>

Packets == 1..Len(Payload)
FrameLength(m) == HeaderLength + Payload[m]
Frame(m) == [i \in 1..FrameLength(m) |-> <<m, i>>]
Message(m) == [i \in 1..Payload[m] |-> <<m, HeaderLength + i>>]
HeaderOf(m) == [i \in 1..HeaderLength |-> <<m, i>>]

Byte == Nat \X Nat
ZeroByte == <<0, 0>>
Zeros(n) == [i \in 1..n |-> ZeroByte]

Fatal == {"Disconnected", "MaxPacketSizeExceeded", "ReceiveError"}
Quiet == {"WouldBlock", "Timeout"}

Init ==
    /\ stream = <<>> /\ consumed = 0 /\ reset = FALSE /\ shut = {}
    /\ tx_pc = "idle" /\ tx_blocking \in BOOLEAN
    /\ tx_msg = 1 /\ tx_sent = 0 /\ tx_status = "Unknown"
    /\ rx_pc = "idle" /\ rx_blocking \in BOOLEAN
    /\ rx_header = Zeros(HeaderLength) /\ rx_length = 0 /\ rx_got = 0
    /\ buffer = <<>> /\ rx_status = "Unknown"
    /\ frame_at = [m \in 1..Len(Payload) + 1 |-> 0]
    /\ rx_base = 0 /\ delivered = <<>>

--------------------------------------------------------------------------------
(* The kernel's side of the connection.                                        *)

Available == Len(stream) - consumed
Full == Available >= PipeCapacity

\* The peer vanished without closing, or closed with unread data: an RST arrives.
ConnectionReset ==
    /\ Faults /\ ~reset
    /\ reset' = TRUE
    /\ UNCHANGED <<stream, consumed, shut, sender, receiver>>

End == {"sender", "receiver"}

\* Socket::shutdown, from any thread and at any time: both directions end.  The
\* descriptor stays open, bytes the kernel accepted are still delivered.
Shutdown(end) ==
    /\ Faults /\ end \notin shut
    /\ end = "sender" => tx_pc # "closed"
    /\ end = "receiver" => rx_pc # "closed"
    /\ shut' = shut \cup {end}
    /\ UNCHANGED <<stream, consumed, reset, sender, receiver>>

Network == ConnectionReset \/ \E end \in End : Shutdown(end)

--------------------------------------------------------------------------------
(* The sending thread: Socket::send, Packet::send and TcpSocket::send_raw.     *)

TxFailed == tx_status \in {"Timeout", "SendError"}

\* Packet::send writes the length into the header and starts with sent = 0.  An
\* application that ignores the failed status sends the same packet again.
SendBegin ==
    /\ tx_pc = "idle" /\ tx_msg \in Packets
    /\ TxFailed => ~Careful /\ Len(stream) < MaxStream
    /\ tx_pc' = "sending"
    /\ tx_sent' = 0
    /\ UNCHANGED <<kernel, tx_blocking, tx_msg, tx_status, frame_at, receiver>>

SendReturns(status) ==
    /\ tx_pc' = "idle"
    /\ tx_status' = status

\* ::send accepts n of the bytes from data + sent on; the loop ends at `size`.
\* An interrupted ::send (EINTR) changes nothing and is tried again.
Accept(n) ==
    /\ Available + n <= PipeCapacity
    /\ stream' = stream \o SubSeq(Frame(tx_msg), tx_sent + 1, tx_sent + n)
    /\ \/ /\ tx_sent + n < FrameLength(tx_msg)
          /\ tx_sent' = tx_sent + n
          /\ UNCHANGED <<tx_pc, tx_msg, tx_status, frame_at>>
       \/ /\ tx_sent + n = FrameLength(tx_msg)
          /\ tx_sent' = 0
          /\ tx_msg' = tx_msg + 1
          /\ frame_at' = [frame_at EXCEPT ![tx_msg + 1] = Len(stream')]
          /\ SendReturns("Success")

SendAccepted ==
    /\ tx_pc = "sending" /\ ~reset /\ "sender" \notin shut
    /\ \E n \in 1..(FrameLength(tx_msg) - tx_sent) : Accept(n)
    /\ UNCHANGED <<consumed, reset, shut, tx_blocking, receiver>>

\* EWOULDBLOCK on a non-blocking socket: send_raw returns WouldBlock with `sent`
\* as it is, and Packet::send calls send_raw again.
SendWouldBlock ==
    /\ tx_pc = "sending" /\ ~tx_blocking /\ Full /\ "sender" \notin shut
    /\ tx_pc' = "retry"
    /\ UNCHANGED <<kernel, tx_blocking, tx_msg, tx_sent, tx_status, frame_at, receiver>>

\* Slip: send_raw begins with `sent = 0;`.
SentForgotten(sent) == 0

\* What `sent` is when send_raw is entered again.
SentOnEntry(sent) == sent

SendRetry ==
    /\ tx_pc = "retry"
    /\ tx_pc' = "sending"
    /\ tx_sent' = SentOnEntry(tx_sent)
    /\ UNCHANGED <<kernel, tx_blocking, tx_msg, tx_status, frame_at, receiver>>

\* EWOULDBLOCK on a blocking socket: SO_SNDTIMEO expired.  The frame may be partly
\* written, and nothing records how much of it.
SendTimesOut ==
    /\ tx_pc = "sending" /\ tx_blocking /\ SendTimeout /\ Full /\ "sender" \notin shut
    /\ SendReturns("Timeout")
    /\ UNCHANGED <<kernel, tx_blocking, tx_msg, tx_sent, frame_at, receiver>>

\* Any other errno: the connection was reset, the peer has closed its socket, or this
\* one was shut down.
SendFails ==
    /\ tx_pc = "sending"
    /\ reset \/ rx_pc = "closed" \/ "sender" \in shut
    /\ SendReturns("SendError")
    /\ UNCHANGED <<kernel, tx_blocking, tx_msg, tx_sent, frame_at, receiver>>

\* TcpSocket::set_blocking between two sends.
SenderSetBlocking ==
    /\ tx_pc = "idle"
    /\ tx_blocking' = ~tx_blocking
    /\ UNCHANGED <<kernel, tx_pc, tx_msg, tx_sent, tx_status, frame_at, receiver>>

\* The application disconnects; with Faults it may also do so early, or die, in
\* which case the kernel closes its sockets whatever the thread was doing.
SenderDisconnects ==
    /\ tx_pc # "closed"
    /\ Faults \/ (tx_pc = "idle" /\ (tx_msg \notin Packets \/ TxFailed))
    /\ tx_pc' = "closed"
    /\ UNCHANGED <<kernel, tx_blocking, tx_msg, tx_sent, tx_status, frame_at, receiver>>

Send ==
    \/ SendBegin \/ SendAccepted \/ SendWouldBlock \/ SendRetry
    \/ SendTimesOut \/ SendFails

Sender == Send \/ SenderDisconnects

--------------------------------------------------------------------------------
(* The receiving thread: Packet::receive, Socket::receive_all and              *)
(* TcpSocket::receive_raw.                                                     *)

ReceiveBegin ==
    /\ rx_pc = "idle"
    /\ Careful => rx_status \notin Fatal
    /\ rx_pc' = "header"
    /\ rx_header' = Zeros(HeaderLength)
    /\ rx_got' = 0
    /\ rx_base' = consumed
    /\ buffer' = <<>> \/ (ReusePacket /\ buffer' = buffer)
    /\ UNCHANGED <<kernel, sender, rx_blocking, rx_length, rx_status, delivered>>

Receiving == rx_pc \in {"header", "payload"}
Wanted == IF rx_pc = "header" THEN HeaderLength ELSE rx_length

ReceiveReturns(status) ==
    /\ rx_pc' = "idle"
    /\ rx_status' = status

\* Slip: ::recv is given dest instead of dest + (buffer_size - bytes_remaining).
FilledFromStart(dest, n) ==
    [i \in 1..Len(dest) |-> IF i \in 1..n THEN stream[consumed + i] ELSE dest[i]]

\* `dest` after ::recv has put n bytes at dest + (buffer_size - bytes_remaining).
Filled(dest, n) ==
    [i \in 1..Len(dest) |->
        IF i \in (rx_got + 1)..(rx_got + n) THEN stream[consumed + (i - rx_got)] ELSE dest[i]]

\* The length the header bytes decode to; bytes that are no header, which a
\* receiver that lost the framing reads, decode to anything.
Decoded(header) ==
    IF \E m \in Packets : header = HeaderOf(m)
    THEN {Payload[m] : m \in {p \in Packets : header = HeaderOf(p)}}
    ELSE 0..MaxDecoded

TooLarge(length) == MaxReceiveSize # 0 /\ length > MaxReceiveSize

\* Slip: the comparison with buffer.size() leaves the header area out.
GrownShort(length) ==
    IF length > Len(buffer) + HeaderLength THEN buffer \o Zeros(length - Len(buffer)) ELSE buffer

\* The Packet's buffer grows to hold the payload and never shrinks.
Grown(length) ==
    IF length > Len(buffer) THEN buffer \o Zeros(length - Len(buffer)) ELSE buffer

\* receive_raw returned some of the bytes receive_all still wants.
ReceivePart ==
    /\ Receiving
    /\ \E n \in 1..Available :
          /\ rx_got + n < Wanted
          /\ rx_got' = rx_got + n
          /\ consumed' = consumed + n
          /\ \/ /\ rx_pc = "header" /\ rx_header' = Filled(rx_header, n)
                /\ UNCHANGED buffer
             \/ /\ rx_pc = "payload" /\ buffer' = Filled(buffer, n)
                /\ UNCHANGED rx_header
    /\ UNCHANGED <<stream, reset, shut, sender, rx_pc, rx_blocking, rx_length, rx_status,
                   rx_base, delivered>>

\* The header is complete: check the limit, make room, read the payload.  An empty
\* payload needs no receive_raw.
ReceiveHeader ==
    /\ rx_pc = "header"
    /\ HeaderLength - rx_got <= Available
    /\ rx_header' = Filled(rx_header, HeaderLength - rx_got)
    /\ consumed' = consumed + (HeaderLength - rx_got)
    /\ \E length \in Decoded(rx_header') :
          \/ /\ TooLarge(length)
             /\ ReceiveReturns("MaxPacketSizeExceeded")
             /\ UNCHANGED <<rx_length, rx_got, buffer, delivered>>
          \/ /\ ~TooLarge(length)
             /\ rx_length' = length
             /\ rx_got' = 0
             /\ buffer' = Grown(length)
             /\ \/ /\ length > 0 /\ rx_pc' = "payload"
                   /\ UNCHANGED <<rx_status, delivered>>
                \/ /\ length = 0 /\ ReceiveReturns("Success")
                   /\ delivered' = Append(delivered, buffer')
    /\ UNCHANGED <<stream, reset, shut, sender, rx_blocking, rx_base>>

\* The payload is complete: the application gets Packet::size() bytes of it.
ReceivePayload ==
    /\ rx_pc = "payload"
    /\ rx_length - rx_got <= Available
    /\ buffer' = Filled(buffer, rx_length - rx_got)
    /\ consumed' = consumed + (rx_length - rx_got)
    /\ delivered' = Append(delivered, buffer')
    /\ ReceiveReturns("Success")
    /\ UNCHANGED <<stream, reset, shut, sender, rx_blocking, rx_header, rx_length, rx_got, rx_base>>

\* Slips: receive_all returns any status at once; it takes a timeout for a
\* WouldBlock; it takes a WouldBlock for a lost connection.
ReceiveAllPlain(got, status) == status
ReceiveAllPatient(got, status) ==
    IF got = 0 THEN status
    ELSE IF status \in {"WouldBlock", "Timeout"} THEN "again" ELSE "Disconnected"
ReceiveAllHasty(got, status) == IF got = 0 THEN status ELSE "Disconnected"

\* What receive_all makes of a failed receive_raw, got bytes into its buffer.
ReceiveAllResult(got, status) ==
    IF got = 0 THEN status
    ELSE IF status = "WouldBlock" THEN "again" ELSE "Disconnected"

\* Slip: Packet::receive lets a timeout through after the header.
PayloadTimeout(status) == IF status = "WouldBlock" THEN "again" ELSE status

\* What Packet::receive makes of a failed receive_all of the payload.
PayloadResult(status) ==
    CASE status = "WouldBlock" -> "again"
      [] status = "Timeout" -> "Disconnected"
      [] OTHER -> status

PacketResult(status) ==
    IF rx_pc = "header" THEN ReceiveAllResult(rx_got, status)
    ELSE PayloadResult(ReceiveAllResult(rx_got, status))

\* Slip: a loop's `continue` becomes a `break`.
ReceiveRawFailsAnyway(status) ==
    /\ Receiving
    /\ ReceiveReturns(PacketResult(status))
    /\ UNCHANGED <<kernel, sender, rx_blocking, rx_header, rx_length, rx_got, buffer,
                   rx_base, delivered>>

\* receive_raw failed with `status`: the loops go round again or the receive returns.
ReceiveRawFails(status) ==
    /\ Receiving
    /\ PacketResult(status) # "again"
    /\ ReceiveReturns(PacketResult(status))
    /\ UNCHANGED <<kernel, sender, rx_blocking, rx_header, rx_length, rx_got, buffer,
                   rx_base, delivered>>

\* ::recv failed with EWOULDBLOCK.
ReceiveNothing ==
    /\ Available = 0 /\ ~reset /\ tx_pc # "closed" /\ shut = {}
    /\ \/ ~rx_blocking /\ ReceiveRawFails("WouldBlock")
       \/ rx_blocking /\ ReceiveTimeout /\ ReceiveRawFails("Timeout")

\* ::recv returned 0: the peer closed, either end was shut down, or a reset was
\* reported earlier.
ReceiveEof ==
    /\ Available = 0 /\ (tx_pc = "closed" \/ reset \/ shut # {})
    /\ ReceiveRawFails("Disconnected")

\* ::recv failed with another errno; unread bytes may be lost with it.
ReceiveError ==
    /\ reset
    /\ ReceiveRawFails("ReceiveError")

ReceiverSetBlocking ==
    /\ rx_pc = "idle"
    /\ rx_blocking' = ~rx_blocking
    /\ UNCHANGED <<kernel, sender, rx_pc, rx_header, rx_length, rx_got, buffer,
                   rx_status, rx_base, delivered>>

ReceiverDisconnects ==
    /\ rx_pc # "closed"
    /\ Faults \/ (rx_pc = "idle" /\ rx_status \in Fatal)
    /\ rx_pc' = "closed"
    /\ UNCHANGED <<kernel, sender, rx_blocking, rx_header, rx_length, rx_got, buffer,
                   rx_status, rx_base, delivered>>

Receive ==
    \/ ReceiveBegin \/ ReceivePart \/ ReceiveHeader \/ ReceivePayload
    \/ ReceiveNothing \/ ReceiveEof \/ ReceiveError

Receiver == Receive \/ ReceiverDisconnects

--------------------------------------------------------------------------------
\* Both ends have closed: the conversation is over.
Over == tx_pc = "closed" /\ rx_pc = "closed" /\ UNCHANGED vars

Next ==
    \/ Sender \/ SenderSetBlocking
    \/ Receiver \/ ReceiverSetBlocking
    \/ Network \/ Over

Spec == Init /\ [][Next]_vars

\* Only the receiving thread is known to run: the peer may stall for ever.
ReceiverFairSpec == Spec /\ WF_vars(Receive)

--------------------------------------------------------------------------------
(* Properties.                                                                 *)

TypeOK ==
    /\ stream \in Seq(Byte)
    /\ consumed \in 0..Len(stream)
    /\ reset \in BOOLEAN
    /\ shut \subseteq End
    /\ tx_pc \in {"idle", "sending", "retry", "closed"}
    /\ tx_blocking \in BOOLEAN
    /\ tx_msg \in 1..Len(Payload) + 1
    /\ tx_pc \in {"sending", "retry"} => tx_msg \in Packets
    /\ tx_sent \in Nat
    /\ tx_sent < (IF tx_msg \in Packets THEN FrameLength(tx_msg) ELSE 1)
    /\ tx_status \in {"Unknown", "Success", "Timeout", "SendError"}
    /\ rx_pc \in {"idle", "header", "payload", "closed"}
    /\ rx_blocking \in BOOLEAN
    /\ rx_header \in Seq(Byte) /\ Len(rx_header) = HeaderLength
    /\ rx_length \in Nat
    /\ rx_got \in Nat
    /\ buffer \in Seq(Byte)
    /\ rx_status \in Fatal \cup Quiet \cup {"Unknown", "Success"}
    /\ frame_at \in [1..Len(Payload) + 1 -> Nat]
    /\ rx_base \in 0..consumed
    /\ delivered \in Seq(Seq(Byte))

\* A receive that reports WouldBlock or Timeout has taken nothing off the stream,
\* whatever the peer, the network and the applications did: the promise of
\* Packet::receive and receive_all that the object is "still valid".
QuietMeansUntouched ==
    rx_pc = "idle" /\ rx_status \in Quiet => consumed = rx_base

\* receive_all never writes past the end of the packet's buffer, not even when the
\* length it trusts was decoded from the middle of another packet, and a receive
\* limit bounds the buffer.
BufferSafe ==
    /\ rx_pc = "header" => rx_got < HeaderLength
    /\ rx_pc = "payload" => rx_got < rx_length /\ rx_length <= Len(buffer)
    /\ MaxReceiveSize # 0 => Len(buffer) <= MaxReceiveSize

\* The stream is the frames of the packets sent so far, each starting where the one
\* before it ends, the last one possibly cut short: no WouldBlock or partial ::send
\* makes send_raw skip or repeat a byte.
StreamFramed ==
    Careful =>
        /\ \A m \in Packets : m < tx_msg =>
              /\ frame_at[m + 1] = frame_at[m] + FrameLength(m)
              /\ frame_at[m + 1] <= Len(stream)
        /\ Len(stream) = frame_at[tx_msg] + tx_sent
        /\ \A m \in Packets : m <= tx_msg =>
              \A i \in 1..FrameLength(m) :
                  frame_at[m] + i <= Len(stream) => stream[frame_at[m] + i] = <<m, i>>

\* While the receiver has not reported a fatal status, it stands at the start of the
\* next undelivered packet between two receives, and inside that packet during one.
Healthy == rx_pc # "closed" /\ rx_status \notin Fatal
Expected == Len(delivered) + 1
Within ==
    CASE rx_pc = "header" -> rx_got
      [] rx_pc = "payload" -> HeaderLength + rx_got
      [] OTHER -> 0

ReceiverAligned ==
    Careful /\ Healthy =>
        /\ Expected <= tx_msg
        /\ consumed = frame_at[Expected] + Within
        /\ rx_pc = "payload" => Expected \in Packets /\ rx_length = Payload[Expected]

\* What a receive delivers begins with the payload that was sent; with a Packet that
\* is not reused it is exactly that payload.  (A reused Packet keeps the tail of a
\* longer packet received before.)
DeliveredIntact ==
    Careful => \A k \in 1..Len(delivered) :
        /\ Len(delivered[k]) >= Payload[k]
        /\ \A i \in 1..Payload[k] : delivered[k][i] = <<k, HeaderLength + i>>
        /\ ~ReusePacket => Len(delivered[k]) = Payload[k]

\* A careful conversation is a FIFO channel of whole messages.  A Packet that was used
\* before may be longer than the message it received: what follows is not part of it.
Received ==
    [k \in 1..Len(delivered) |->
        [i \in 1..Payload[k] \cap DOMAIN delivered[k] |-> delivered[k][i]]]

Channel == INSTANCE PacketChannel WITH
    Messages <- [m \in Packets |-> Message(m)],
    accepted <- tx_msg - 1,
    delivered <- Received,
    open <- Healthy

ChannelSpec == Channel!Spec

\* On a blocking socket with a receive timeout a receive always returns, even if the
\* peer stalls for ever in the middle of a packet; and on any socket it returns once
\* the socket was shut down, which is what Socket::shutdown is for.
ReceiveTerminates ==
    Receiving /\ (rx_blocking \/ "receiver" \in shut) ~> ~Receiving

\* The next packet is refused because it is over the receive limit.
Refused ==
    rx_status = "MaxPacketSizeExceeded" /\ Expected \in Packets /\ TooLarge(Payload[Expected])

\* What may keep packets from arriving: the connection was reset or shut down, a send
\* failed or timed out, an application left early, or a receive timed out within a packet.
Excused ==
    \/ reset \/ shut # {} \/ TxFailed
    \/ tx_pc = "closed" /\ tx_msg \in Packets
    \/ rx_pc = "closed"
    \/ rx_status = "Disconnected" /\ rx_blocking /\ ReceiveTimeout

\* If the sending thread runs too, every packet up to the first one over the limit is
\* delivered, or there was a reason not to: a pipe smaller than a frame, partial sends
\* and receives and the blocking modes of the two sockets are none.
AllDelivered ==
    WF_vars(Send) => <>(Len(delivered) = Len(Payload) \/ Refused \/ Excused)
================================================================================
