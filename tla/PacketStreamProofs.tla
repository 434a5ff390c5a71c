-------------------------- MODULE PacketStreamProofs --------------------------
(* Proofs about PacketStream for every value of its constants. *)
EXTENDS PacketStream, TLAPS, SequenceTheorems

\* The pieces of the data path keep their types and lengths.
LEMMA PayloadType ==
    /\ Payload \in Seq(Nat) /\ Len(Payload) \in Nat
    /\ \A m \in Packets : Payload[m] \in Nat /\ FrameLength(m) \in Nat /\ FrameLength(m) > 0
  BY ParametersAssumption DEF Packets, FrameLength

\* The history of frame starts covers every packet and the one after the last.
LEMMA FrameAtType ==
    ASSUME frame_at \in [1..Len(Payload) + 1 -> Nat], NEW m \in Packets
    PROVE  /\ m \in Nat \ {0} /\ m + 1 \in 1..Len(Payload) + 1
           /\ frame_at[m] \in Nat /\ frame_at[m + 1] \in Nat /\ FrameLength(m) \in Nat
<1>1. Len(Payload) \in Nat /\ FrameLength(m) \in Nat
  BY PayloadType
<1>2. m \in 1..Len(Payload)
  BY DEF Packets
<1> QED BY <1>1, <1>2

LEMMA FrameType ==
    ASSUME NEW m \in Packets
    PROVE  /\ Frame(m) \in Seq(Byte)
           /\ Len(Frame(m)) = FrameLength(m)
           /\ \A i \in 1..FrameLength(m) : Frame(m)[i] = <<m, i>>
<1>1. FrameLength(m) \in Nat
  BY PayloadType
<1>2. \A i \in 1..FrameLength(m) : <<m, i>> \in Byte
  BY <1>1 DEF Byte, Packets
<1> QED BY <1>1, <1>2 DEF Frame

LEMMA ZerosType ==
    ASSUME NEW n \in Nat
    PROVE  Zeros(n) \in Seq(Byte) /\ Len(Zeros(n)) = n
  BY DEF Zeros, ZeroByte, Byte

\* Appending to the stream the bytes ::send accepted: length and contents.
\* Where a stream position lies in the bytes just appended.
LEMMA Position ==
    ASSUME NEW f \in Nat, NEW len \in Nat, NEW sent \in Nat, NEW n \in Nat, NEW i \in Nat,
           len = f + sent, f + i <= len + n, f + i > len
    PROVE  i - sent \in 1..n /\ sent + (i - sent) = i /\ len + (i - sent) = f + i
  OBVIOUS

Extended(s, m, from, n) == s \o SubSeq(Frame(m), from + 1, from + n)

LEMMA AppendPart ==
    ASSUME NEW m \in Packets, NEW from \in Nat, NEW n \in Nat,
           from + n <= FrameLength(m), NEW s \in Seq(Byte)
    PROVE  /\ Extended(s, m, from, n) \in Seq(Byte)
           /\ Len(Extended(s, m, from, n)) = Len(s) + n
           /\ \A i \in 1..Len(s) : Extended(s, m, from, n)[i] = s[i]
           /\ \A i \in 1..n : Extended(s, m, from, n)[Len(s) + i] = <<m, from + i>>
<1> DEFINE part == SubSeq(Frame(m), from + 1, from + n)
<1>1. /\ Frame(m) \in Seq(Byte) /\ Len(Frame(m)) = FrameLength(m)
      /\ \A i \in 1..FrameLength(m) : Frame(m)[i] = <<m, i>>
  BY FrameType
<1>2. FrameLength(m) \in Nat
  BY PayloadType
<1>3. /\ part \in Seq(Byte) /\ Len(part) = n
      /\ \A i \in 1..n : part[i] = Frame(m)[from + i]
  BY <1>1, <1>2
<1> HIDE DEF part
<1>4. \A i \in 1..n : part[i] = <<m, from + i>>
  <2> SUFFICES ASSUME NEW i \in 1..n
               PROVE  part[i] = <<m, from + i>>
    OBVIOUS
  <2>1. from + i \in 1..FrameLength(m)
    BY <1>2
  <2> QED BY <1>1, <1>3, <2>1
<1>5. s \o part \in Seq(Byte) /\ Len(s \o part) = Len(s) + n
  BY <1>3, ConcatProperties
<1>6. \A i \in 1..Len(s) : (s \o part)[i] = s[i]
  BY <1>3
<1>7. \A i \in 1..n : (s \o part)[Len(s) + i] = part[i]
  BY <1>3
<1>8. Extended(s, m, from, n) = s \o part
  BY DEF Extended, part
<1> QED BY <1>4, <1>5, <1>6, <1>7, <1>8

\* ::recv fills n bytes of its destination and touches no other.
LEMMA FilledType ==
    ASSUME NEW dest \in Seq(Byte), NEW n \in Nat, stream \in Seq(Byte),
           consumed \in Nat, rx_got \in Nat, consumed + n <= Len(stream)
    PROVE  /\ Filled(dest, n) \in Seq(Byte)
           /\ Len(Filled(dest, n)) = Len(dest)
           /\ \A i \in 1..Len(dest) : Filled(dest, n)[i] =
                IF i \in (rx_got + 1)..(rx_got + n)
                THEN stream[consumed + (i - rx_got)] ELSE dest[i]
<1>1. \A i \in 1..Len(dest) : dest[i] \in Byte
  OBVIOUS
<1>2. \A i \in (rx_got + 1)..(rx_got + n) : stream[consumed + (i - rx_got)] \in Byte
  OBVIOUS
<1>3. \A i \in 1..Len(dest) :
         (IF i \in (rx_got + 1)..(rx_got + n)
          THEN stream[consumed + (i - rx_got)] ELSE dest[i]) \in Byte
  BY <1>1, <1>2
<1>4. Len(dest) \in Nat
  OBVIOUS
<1> QED BY <1>3, <1>4 DEF Filled

\* Making room for a payload keeps the buffer a buffer and at least that long.
LEMMA GrownType ==
    ASSUME NEW n \in Nat, buffer \in Seq(Byte)
    PROVE  /\ Grown(n) \in Seq(Byte)
           /\ Len(Grown(n)) = IF n > Len(buffer) THEN n ELSE Len(buffer)
<1>1. CASE n > Len(buffer)
  <2>1. n - Len(buffer) \in Nat
    BY <1>1
  <2>2. Zeros(n - Len(buffer)) \in Seq(Byte) /\ Len(Zeros(n - Len(buffer))) = n - Len(buffer)
    BY <2>1, ZerosType
  <2> QED BY <1>1, <2>2 DEF Grown
<1>2. CASE ~(n > Len(buffer))
  BY <1>2 DEF Grown
<1> QED BY <1>1, <1>2

--------------------------------------------------------------------------------
(* Safety of any conversation, careful or not.                                 *)

\* While the header is read, nothing else has been taken off the stream.
HeaderProgress == rx_pc = "header" => consumed = rx_base + rx_got

SafeInv == TypeOK /\ BufferSafe /\ HeaderProgress /\ QuietMeansUntouched

LEMMA SafeInit == Init => SafeInv
<1> SUFFICES ASSUME Init PROVE SafeInv
  OBVIOUS
<1>1. /\ Zeros(HeaderLength) \in Seq(Byte) /\ Len(Zeros(HeaderLength)) = HeaderLength
  BY ZerosType, ParametersAssumption
<1>2. /\ stream \in Seq(Byte) /\ buffer \in Seq(Byte) /\ delivered \in Seq(Seq(Byte))
      /\ Len(stream) = 0
  BY EmptySeq DEF Init
<1>3. /\ tx_msg \in 1..Len(Payload) + 1 /\ tx_sent \in Nat
      /\ tx_sent < (IF tx_msg \in Packets THEN FrameLength(tx_msg) ELSE 1)
      /\ frame_at \in [1..Len(Payload) + 1 -> Nat]
  BY PayloadType DEF Init
<1>4. /\ consumed \in 0..Len(stream) /\ rx_base \in 0..consumed
      /\ rx_length \in Nat /\ rx_got \in Nat /\ rx_header = Zeros(HeaderLength)
  BY <1>2 DEF Init
<1>5. TypeOK
  BY <1>1, <1>2, <1>3, <1>4 DEF Init, TypeOK, Fatal, Quiet
<1>6. BufferSafe /\ HeaderProgress /\ QuietMeansUntouched
  BY ParametersAssumption, <1>2 DEF Init, BufferSafe, HeaderProgress, QuietMeansUntouched, Quiet
<1> QED BY <1>5, <1>6 DEF SafeInv

\* The steps of the sender and the network leave the receiver alone and only extend the stream.
LEMMA SafeSender ==
    ASSUME SafeInv, Sender \/ SenderSetBlocking \/ Network
    PROVE  SafeInv'
<1> USE DEF SafeInv
<1>1. TypeOK
  OBVIOUS
<1>2. UNCHANGED <<receiver, consumed>>
  BY DEF Sender, Send, SenderSetBlocking, Network, ConnectionReset, Shutdown, SendBegin, SendAccepted,
         SendWouldBlock, SendRetry, SendTimesOut, SendFails, SenderDisconnects, kernel
<1>3. BufferSafe' /\ HeaderProgress' /\ QuietMeansUntouched'
  BY <1>2 DEF receiver, BufferSafe, HeaderProgress, QuietMeansUntouched
<1>4. ASSUME stream' = stream, UNCHANGED <<receiver, consumed>>,
             reset' \in BOOLEAN, shut' \subseteq End, tx_pc' \in {"idle", "sending", "retry", "closed"},
             tx_blocking' \in BOOLEAN, tx_msg' = tx_msg, tx_sent' \in {0, tx_sent},
             tx_pc' \in {"sending", "retry"} => tx_msg \in Packets,
             tx_status' \in {"Unknown", "Success", "Timeout", "SendError"},
             frame_at' = frame_at
      PROVE  TypeOK'
  BY <1>1, <1>4, PayloadType DEF TypeOK, receiver
<1>5. CASE SendBegin
  BY <1>1, <1>3, <1>4, <1>5 DEF SendBegin, TypeOK, kernel, sender
<1>6. CASE SendAccepted
  <2>1. PICK n \in 1..(FrameLength(tx_msg) - tx_sent) :
          /\ stream' = stream \o SubSeq(Frame(tx_msg), tx_sent + 1, tx_sent + n)
          /\ \/ /\ tx_sent + n < FrameLength(tx_msg)
                /\ tx_sent' = tx_sent + n
                /\ UNCHANGED <<tx_pc, tx_msg, tx_status, frame_at>>
             \/ /\ tx_sent + n = FrameLength(tx_msg)
                /\ tx_sent' = 0
                /\ tx_msg' = tx_msg + 1
                /\ frame_at' = [frame_at EXCEPT ![tx_msg + 1] = Len(stream')]
                /\ SendReturns("Success")
    BY <1>6 DEF SendAccepted, Accept
  <2>2. tx_pc = "sending" /\ UNCHANGED <<consumed, reset, shut, tx_blocking, receiver>>
    BY <1>6 DEF SendAccepted
  <2>3. tx_msg \in Packets /\ FrameLength(tx_msg) \in Nat /\ tx_sent \in Nat
    BY <1>1, <2>2, PayloadType DEF TypeOK
  <2>4. stream' \in Seq(Byte) /\ Len(stream') = Len(stream) + n /\ Len(stream') \in Nat
    <3>1. stream \in Seq(Byte) /\ n \in Nat /\ tx_sent + n <= FrameLength(tx_msg)
      BY <1>1, <2>3 DEF TypeOK
    <3>2. stream' = Extended(stream, tx_msg, tx_sent, n)
      BY <2>1 DEF Extended
    <3>3. stream' \in Seq(Byte) /\ Len(stream') = Len(stream) + n
      BY <2>3, <3>1, <3>2, AppendPart
    <3> QED BY <3>1, <3>3, LenProperties
  <2>5. consumed' \in 0..Len(stream')
    BY <1>1, <2>2, <2>4 DEF TypeOK
  <2>6. CASE tx_sent' = 0
    <3>1. /\ tx_msg' = tx_msg + 1 /\ SendReturns("Success")
          /\ frame_at' = [frame_at EXCEPT ![tx_msg + 1] = Len(stream')]
      BY <2>1, <2>3, <2>6
    <3>2. tx_msg' \in 1..Len(Payload) + 1
      BY <2>3, <3>1, PayloadType DEF Packets
    <3>3. tx_msg' \in Packets => 0 < FrameLength(tx_msg')
      BY PayloadType
    <3>4. frame_at' \in [1..Len(Payload) + 1 -> Nat]
      BY <1>1, <2>4, <3>1, PayloadType DEF TypeOK
    <3> QED BY <1>1, <1>3, <2>2, <2>4, <2>5, <2>6, <3>1, <3>2, <3>3, <3>4
            DEF TypeOK, SendReturns, receiver
  <2>7. CASE tx_sent' # 0
    <3>1. tx_sent' = tx_sent + n /\ UNCHANGED <<tx_pc, tx_msg, tx_status, frame_at>>
          /\ tx_sent + n < FrameLength(tx_msg)
      BY <2>1, <2>7
    <3> QED BY <1>1, <1>3, <2>2, <2>3, <2>4, <2>5, <3>1 DEF TypeOK, receiver
  <2> QED BY <2>6, <2>7
<1>7. CASE SendWouldBlock
  BY <1>1, <1>3, <1>4, <1>7 DEF SendWouldBlock, TypeOK, kernel
<1>8. CASE SendRetry
  BY <1>1, <1>3, <1>4, <1>8 DEF SendRetry, SentOnEntry, TypeOK, kernel
<1>9. CASE SendTimesOut \/ SendFails
  BY <1>1, <1>3, <1>4, <1>9 DEF SendTimesOut, SendFails, SendReturns, TypeOK, kernel
<1>10. CASE SenderSetBlocking \/ SenderDisconnects \/ Network
  BY <1>1, <1>3, <1>4, <1>10
     DEF SenderSetBlocking, SenderDisconnects, Network, ConnectionReset, Shutdown, TypeOK, kernel, sender
<1> QED BY <1>5, <1>6, <1>7, <1>8, <1>9, <1>10 DEF Sender, Send

\* A length is a length, whether a header or other bytes were decoded.
LEMMA DecodedType ==
    ASSUME NEW header, NEW length \in Decoded(header)
    PROVE  length \in Nat
  BY PayloadType, ParametersAssumption DEF Decoded

\* receive_raw failing: the quiet statuses come back only from an untouched stream.
LEMMA RawFailure ==
    ASSUME SafeInv, NEW status \in {"WouldBlock", "Timeout", "Disconnected", "ReceiveError"},
           ReceiveRawFails(status)
    PROVE  SafeInv'
<1>1. /\ UNCHANGED <<kernel, sender, rx_blocking, rx_header, rx_length, rx_got, buffer,
                     rx_base, delivered>>
      /\ rx_pc' = "idle" /\ Receiving
      /\ rx_status' = PacketResult(status) /\ PacketResult(status) # "again"
  BY DEF ReceiveRawFails, ReceiveReturns
<1>2. PacketResult(status) \in {"WouldBlock", "Timeout", "Disconnected", "ReceiveError"}
  BY <1>1 DEF PacketResult, PayloadResult, ReceiveAllResult
<1>3. PacketResult(status) \in Quiet => rx_pc = "header" /\ rx_got = 0
  BY <1>1 DEF PacketResult, PayloadResult, ReceiveAllResult, Quiet, Receiving
<1>4. TypeOK'
  BY <1>1, <1>2 DEF SafeInv, TypeOK, kernel, sender, Fatal, Quiet
<1>5. BufferSafe' /\ HeaderProgress'
  BY <1>1 DEF SafeInv, BufferSafe, HeaderProgress
<1>6. QuietMeansUntouched'
  BY <1>1, <1>3 DEF SafeInv, TypeOK, HeaderProgress, QuietMeansUntouched, Quiet, kernel
<1> QED BY <1>4, <1>5, <1>6 DEF SafeInv

LEMMA SafeReceiver ==
    ASSUME SafeInv, Receiver \/ ReceiverSetBlocking
    PROVE  SafeInv'
<1>1. /\ TypeOK /\ BufferSafe /\ HeaderProgress /\ QuietMeansUntouched
      /\ HeaderLength \in Nat /\ HeaderLength > 0
  BY ParametersAssumption DEF SafeInv
<1>2. Len(stream) \in Nat /\ Len(buffer) \in Nat /\ consumed \in Nat /\ rx_got \in Nat
  BY <1>1, LenProperties DEF TypeOK
<1>3. CASE ReceiveBegin
  <2>1. buffer' \in Seq(Byte) /\ Len(buffer') \in {0, Len(buffer)}
    BY <1>1, <1>3, EmptySeq DEF ReceiveBegin, TypeOK
  <2>2. rx_header' \in Seq(Byte) /\ Len(rx_header') = HeaderLength
    BY <1>1, <1>3, ZerosType DEF ReceiveBegin
  <2>3. TypeOK'
    BY <1>1, <1>2, <1>3, <2>1, <2>2 DEF ReceiveBegin, TypeOK, kernel, sender
  <2>4. BufferSafe' /\ HeaderProgress' /\ QuietMeansUntouched'
    BY <1>1, <1>2, <1>3, <2>1, ParametersAssumption
       DEF ReceiveBegin, BufferSafe, HeaderProgress, QuietMeansUntouched, kernel
  <2> QED BY <2>3, <2>4 DEF SafeInv
<1>4. CASE ReceivePart
  <2>1. PICK n \in 1..Available :
          /\ rx_got + n < Wanted
          /\ rx_got' = rx_got + n
          /\ consumed' = consumed + n
          /\ \/ /\ rx_pc = "header" /\ rx_header' = Filled(rx_header, n)
                /\ UNCHANGED buffer
             \/ /\ rx_pc = "payload" /\ buffer' = Filled(buffer, n)
                /\ UNCHANGED rx_header
    BY <1>4 DEF ReceivePart
  <2>2. Receiving /\ UNCHANGED <<stream, reset, shut, sender, rx_pc, rx_blocking, rx_length,
                                 rx_status, rx_base, delivered>>
    BY <1>4 DEF ReceivePart
  <2>3. n \in Nat /\ consumed + n <= Len(stream)
    BY <1>2 DEF Available
  <2>4. /\ rx_header' \in Seq(Byte) /\ Len(rx_header') = HeaderLength
        /\ buffer' \in Seq(Byte) /\ Len(buffer') = Len(buffer)
    <3>1. /\ rx_header \in Seq(Byte) /\ Len(rx_header) = HeaderLength
          /\ buffer \in Seq(Byte) /\ stream \in Seq(Byte)
      BY <1>1 DEF TypeOK
    <3>2. /\ Filled(rx_header, n) \in Seq(Byte) /\ Len(Filled(rx_header, n)) = HeaderLength
          /\ Filled(buffer, n) \in Seq(Byte) /\ Len(Filled(buffer, n)) = Len(buffer)
      BY <1>2, <2>3, <3>1, FilledType
    <3> QED BY <2>1, <3>1, <3>2
  <2>5. TypeOK'
    BY <1>1, <1>2, <2>1, <2>2, <2>3, <2>4 DEF TypeOK, sender
  <2>6. BufferSafe' /\ HeaderProgress' /\ QuietMeansUntouched'
    BY <1>1, <1>2, <2>1, <2>2, <2>3, <2>4
       DEF BufferSafe, HeaderProgress, QuietMeansUntouched, Wanted, Receiving, TypeOK
  <2> QED BY <2>5, <2>6 DEF SafeInv
<1>5. CASE ReceiveHeader
  <2>1. rx_pc = "header" /\ HeaderLength - rx_got \in Nat /\ rx_got < HeaderLength
    BY <1>1, <1>2, <1>5 DEF ReceiveHeader, BufferSafe
  <2>2. /\ consumed' = consumed + (HeaderLength - rx_got)
        /\ consumed + (HeaderLength - rx_got) <= Len(stream)
        /\ rx_header' = Filled(rx_header, HeaderLength - rx_got)
        /\ UNCHANGED <<stream, reset, shut, sender, rx_blocking, rx_base>>
    BY <1>2, <1>5, <2>1 DEF ReceiveHeader, Available
  <2>3. rx_header' \in Seq(Byte) /\ Len(rx_header') = HeaderLength
    BY <1>1, <1>2, <2>1, <2>2, FilledType DEF TypeOK
  <2>4. PICK length \in Decoded(rx_header') :
          \/ /\ TooLarge(length)
             /\ ReceiveReturns("MaxPacketSizeExceeded")
             /\ UNCHANGED <<rx_length, rx_got, buffer, delivered>>
          \/ /\ ~TooLarge(length)
             /\ rx_length' = length
             /\ rx_got' = 0
             /\ buffer' = Grown(length)
             /\ \/ /\ length > 0 /\ rx_pc' = "payload"
                   /\ UNCHANGED <<rx_status, delivered>>
                \/ /\ length = 0 /\ ReceiveReturns("Success")
                   /\ delivered' = Append(delivered, buffer')
    BY <1>5 DEF ReceiveHeader
  <2>5. length \in Nat
    BY <2>4, DecodedType
  <2>6. consumed' \in 0..Len(stream') /\ rx_base' \in 0..consumed'
    BY <1>1, <1>2, <2>1, <2>2 DEF TypeOK
  <2>7. CASE TooLarge(length)
    <3>1. ReceiveReturns("MaxPacketSizeExceeded") /\ UNCHANGED <<rx_length, rx_got, buffer, delivered>>
      BY <2>4, <2>7
    <3>2. TypeOK'
      BY <1>1, <2>2, <2>3, <2>6, <3>1 DEF TypeOK, sender, ReceiveReturns, Fatal
    <3>3. BufferSafe' /\ HeaderProgress' /\ QuietMeansUntouched'
      BY <1>1, <3>1 DEF BufferSafe, HeaderProgress, QuietMeansUntouched, ReceiveReturns, Quiet
    <3> QED BY <3>2, <3>3 DEF SafeInv
  <2>8. CASE ~TooLarge(length)
    <3>1. /\ rx_length' = length /\ rx_got' = 0 /\ buffer' = Grown(length)
          /\ \/ /\ length > 0 /\ rx_pc' = "payload"
                /\ UNCHANGED <<rx_status, delivered>>
             \/ /\ length = 0 /\ ReceiveReturns("Success")
                /\ delivered' = Append(delivered, buffer')
      BY <2>4, <2>8
    <3>2. /\ buffer' \in Seq(Byte)
          /\ Len(buffer') = IF length > Len(buffer) THEN length ELSE Len(buffer)
      BY <1>1, <2>5, <3>1, GrownType DEF TypeOK
    <3>3. delivered' \in Seq(Seq(Byte))
      <4>1. Append(delivered, buffer') \in Seq(Seq(Byte))
        BY <1>1, <3>2, AppendProperties DEF TypeOK
      <4>2. delivered' \in {delivered, Append(delivered, buffer')}
        BY <3>1
      <4> QED BY <1>1, <4>1, <4>2 DEF TypeOK
    <3>4. rx_pc' \in {"idle", "payload"} /\ rx_status' \in {rx_status, "Success"}
          /\ (rx_pc' = "idle" => rx_status' = "Success")
          /\ (rx_pc' = "payload" => length > 0)
      BY <3>1 DEF ReceiveReturns
    <3>5. TypeOK'
      BY <1>1, <2>2, <2>3, <2>5, <2>6, <3>1, <3>2, <3>3, <3>4 DEF TypeOK, sender
    <3>6. MaxReceiveSize # 0 => Len(buffer') <= MaxReceiveSize
      BY <1>1, <2>5, <2>8, <3>2, ParametersAssumption DEF BufferSafe, TooLarge
    <3>7. BufferSafe' /\ HeaderProgress' /\ QuietMeansUntouched'
      BY <1>2, <2>5, <3>1, <3>2, <3>4, <3>6
         DEF BufferSafe, HeaderProgress, QuietMeansUntouched, Quiet
    <3> QED BY <3>5, <3>7 DEF SafeInv
  <2> QED BY <2>7, <2>8
<1>6. CASE ReceivePayload
  <2>1. rx_pc = "payload" /\ rx_length - rx_got \in Nat
    BY <1>1, <1>2, <1>6 DEF ReceivePayload, BufferSafe, TypeOK
  <2>2. /\ consumed' = consumed + (rx_length - rx_got)
        /\ consumed + (rx_length - rx_got) <= Len(stream)
        /\ buffer' = Filled(buffer, rx_length - rx_got)
        /\ delivered' = Append(delivered, buffer')
        /\ rx_pc' = "idle" /\ rx_status' = "Success"
        /\ UNCHANGED <<stream, reset, shut, sender, rx_blocking, rx_header, rx_length, rx_got, rx_base>>
    BY <1>1, <1>2, <1>6, <2>1 DEF ReceivePayload, ReceiveReturns, Available, TypeOK
  <2>3. buffer' \in Seq(Byte) /\ Len(buffer') = Len(buffer)
    BY <1>1, <1>2, <2>1, <2>2, FilledType DEF TypeOK
  <2>4. delivered' \in Seq(Seq(Byte))
    BY <1>1, <2>2, <2>3, AppendProperties DEF TypeOK
  <2>5. consumed' \in 0..Len(stream') /\ rx_base' \in 0..consumed'
    BY <1>1, <1>2, <2>1, <2>2 DEF TypeOK
  <2>6. TypeOK'
    BY <1>1, <2>2, <2>3, <2>4, <2>5 DEF TypeOK, sender
  <2>7. BufferSafe' /\ HeaderProgress' /\ QuietMeansUntouched'
    BY <1>1, <2>2, <2>3 DEF BufferSafe, HeaderProgress, QuietMeansUntouched, Quiet
  <2> QED BY <2>6, <2>7 DEF SafeInv
<1>7. CASE ReceiveNothing \/ ReceiveEof \/ ReceiveError
  BY <1>7, RawFailure DEF ReceiveNothing, ReceiveEof, ReceiveError
<1>8. CASE ReceiverDisconnects \/ ReceiverSetBlocking
  <2>1. /\ rx_pc' \in {rx_pc, "closed"} /\ rx_blocking' \in BOOLEAN
        /\ UNCHANGED <<kernel, sender, rx_header, rx_length, rx_got, buffer,
                       rx_status, rx_base, delivered>>
    BY <1>1, <1>8 DEF ReceiverDisconnects, ReceiverSetBlocking, TypeOK
  <2>2. TypeOK'
    BY <1>1, <2>1 DEF TypeOK, kernel, sender
  <2>3. BufferSafe' /\ HeaderProgress' /\ QuietMeansUntouched'
    BY <1>1, <2>1 DEF BufferSafe, HeaderProgress, QuietMeansUntouched, kernel
  <2> QED BY <2>2, <2>3 DEF SafeInv
<1> QED BY <1>3, <1>4, <1>5, <1>6, <1>7, <1>8 DEF Receiver, Receive

LEMMA SafeStep == SafeInv /\ [Next]_vars => SafeInv'
<1> SUFFICES ASSUME SafeInv, [Next]_vars PROVE SafeInv'
  OBVIOUS
<1>1. CASE Sender \/ SenderSetBlocking \/ Network
  BY <1>1, SafeSender
<1>2. CASE Receiver \/ ReceiverSetBlocking
  BY <1>2, SafeReceiver
<1>3. CASE Over \/ UNCHANGED vars
  <2>1. UNCHANGED <<stream, consumed, reset, shut, tx_pc, tx_blocking, tx_msg, tx_sent, tx_status,
                    rx_pc, rx_blocking, rx_header, rx_length, rx_got, buffer, rx_status,
                    frame_at, rx_base, delivered>>
    BY <1>3 DEF Over, vars, kernel, sender, receiver
  <2> QED BY <2>1 DEF SafeInv, TypeOK, BufferSafe, HeaderProgress, QuietMeansUntouched
<1> QED BY <1>1, <1>2, <1>3 DEF Next

LEMMA SafeInvariant == Spec => []SafeInv
  BY SafeInit, SafeStep, PTL DEF Spec

\* Every variable keeps its type, whatever the peers, the network and the
\* applications do.
THEOREM TypeCorrect == Spec => []TypeOK
  BY SafeInvariant, PTL DEF SafeInv

\* A receive that reports WouldBlock or Timeout has consumed nothing, for every
\* header length, pipe, limit and message sequence, and even if the framing is lost.
THEOREM QuietReceives == Spec => []QuietMeansUntouched
  BY SafeInvariant, PTL DEF SafeInv

\* No receive writes past its buffer or grows it over the receive limit, even if the
\* framing is lost and the length is read from the middle of a packet.
THEOREM BuffersSafe == Spec => []BufferSafe
  BY SafeInvariant, PTL DEF SafeInv

--------------------------------------------------------------------------------
(* Framing of a careful conversation.                                          *)

\* A receive in progress is of a healthy connection, and the bytes it has read so far
\* are those of the packet it expects.
ReceiverHolds ==
    Careful /\ Receiving =>
        /\ Healthy
        /\ rx_pc = "header" =>
              /\ \A i \in 1..rx_got : rx_header[i] = <<Expected, i>>
              /\ ~ReusePacket => Len(buffer) = 0
        /\ rx_pc = "payload" =>
              /\ \A i \in 1..rx_got : buffer[i] = <<Expected, HeaderLength + i>>
              /\ ~ReusePacket => Len(buffer) = rx_length

\* Between two sends a careful sender stands at the end of a frame.
SenderRests == Careful /\ tx_pc = "idle" /\ ~TxFailed => tx_sent = 0

FramingInv ==
    /\ SafeInv /\ SenderRests /\ StreamFramed
    /\ ReceiverAligned /\ ReceiverHolds /\ DeliveredIntact

LEMMA FramingInit == Init => FramingInv
<1> SUFFICES ASSUME Init PROVE FramingInv
  OBVIOUS
<1>1. /\ stream = <<>> /\ delivered = <<>> /\ tx_msg = 1 /\ tx_sent = 0 /\ consumed = 0
      /\ rx_pc = "idle" /\ Len(stream) = 0 /\ Len(delivered) = 0
      /\ frame_at[1] = 0 /\ HeaderLength \in Nat
  BY EmptySeq, PayloadType, ParametersAssumption DEF Init
<1>2. StreamFramed
  BY <1>1, PayloadType DEF StreamFramed, Packets
<1>3. ReceiverAligned
  BY <1>1 DEF ReceiverAligned, Expected, Within
<1>4. ReceiverHolds
  BY <1>1 DEF ReceiverHolds, Receiving
<1>5. DeliveredIntact
  BY <1>1 DEF DeliveredIntact
<1>6. SenderRests
  BY <1>1 DEF SenderRests
<1> QED BY <1>2, <1>3, <1>4, <1>5, <1>6, SafeInit DEF FramingInv

\* The sender's steps extend the stream by the next bytes of the packet being sent.
LEMMA FramingSender ==
    ASSUME FramingInv, Sender \/ SenderSetBlocking \/ Network
    PROVE  FramingInv'
<1>1. /\ SafeInv /\ SenderRests /\ StreamFramed /\ ReceiverAligned /\ ReceiverHolds
      /\ DeliveredIntact /\ TypeOK
  BY DEF FramingInv, SafeInv
<1>2. SafeInv' /\ TypeOK'
  BY <1>1, SafeSender DEF SafeInv
<1>3. UNCHANGED <<receiver, consumed>>
  BY DEF Sender, Send, SenderSetBlocking, Network, ConnectionReset, Shutdown, SendBegin, SendAccepted,
         SendWouldBlock, SendRetry, SendTimesOut, SendFails, SenderDisconnects, kernel
<1>4. /\ rx_pc' = rx_pc /\ rx_status' = rx_status /\ delivered' = delivered
      /\ rx_got' = rx_got /\ rx_length' = rx_length /\ buffer' = buffer
      /\ rx_header' = rx_header /\ consumed' = consumed
  BY <1>3 DEF receiver
<1>5. ReceiverHolds' /\ DeliveredIntact'
  BY <1>1, <1>4 DEF ReceiverHolds, DeliveredIntact, Receiving, Healthy, Expected
<1>6. CASE ~Careful
  BY <1>2, <1>5, <1>6 DEF FramingInv, SenderRests, StreamFramed, ReceiverAligned
<1>7. CASE Careful /\ ~SendAccepted
  <2>1. UNCHANGED <<stream, tx_msg, tx_sent, frame_at>>
    BY <1>1, <1>7 DEF Sender, Send, SenderSetBlocking, Network, ConnectionReset, Shutdown, SendBegin, SenderRests,
       SendWouldBlock, SendRetry, SentOnEntry, SendTimesOut, SendFails, SenderDisconnects,
       kernel, sender
  <2>0. SenderRests'
    BY <1>1, <1>7 DEF Sender, Send, SenderSetBlocking, Network, ConnectionReset, Shutdown, SendBegin, SenderRests,
       SendWouldBlock, SendRetry, SendTimesOut, SendFails, SenderDisconnects,
       SendReturns, TxFailed, sender
  <2>3. StreamFramed'
    BY <1>1, <2>1 DEF StreamFramed
  <2>4. ReceiverAligned'
    BY <1>1, <1>4, <2>1 DEF ReceiverAligned, Healthy, Expected, Within
  <2> QED BY <1>2, <1>5, <2>0, <2>3, <2>4 DEF FramingInv
<1>8. CASE Careful /\ SendAccepted
  <2>0. /\ tx_pc = "sending" /\ Len(Payload) \in Nat
        /\ frame_at \in [1..Len(Payload) + 1 -> Nat] /\ tx_msg \in Packets /\ tx_msg \in Nat
        /\ FrameLength(tx_msg) \in Nat /\ frame_at[tx_msg] \in Nat /\ tx_sent \in Nat
        /\ stream \in Seq(Byte) /\ Len(stream) \in Nat
    BY <1>1, <1>8, FrameAtType, PayloadType, LenProperties DEF TypeOK, SendAccepted
  <2>1. PICK n \in Nat : n > 0 /\ tx_sent + n <= FrameLength(tx_msg) /\ Accept(n)
    BY <1>8, <2>0 DEF SendAccepted
  <2>3. /\ Len(stream') = Len(stream) + n
        /\ \A i \in 1..Len(stream) : stream'[i] = stream[i]
        /\ \A i \in 1..n : stream'[Len(stream) + i] = <<tx_msg, tx_sent + i>>
    <3>1. stream' = Extended(stream, tx_msg, tx_sent, n)
      BY <2>1 DEF Accept, Extended
    <3>2. /\ Len(Extended(stream, tx_msg, tx_sent, n)) = Len(stream) + n
          /\ \A i \in 1..Len(stream) : Extended(stream, tx_msg, tx_sent, n)[i] = stream[i]
          /\ \A i \in 1..n :
                Extended(stream, tx_msg, tx_sent, n)[Len(stream) + i] = <<tx_msg, tx_sent + i>>
      <4>1. /\ tx_msg \in Packets /\ tx_sent \in Nat /\ stream \in Seq(Byte)
            /\ tx_sent + n <= FrameLength(tx_msg)
        BY <2>0, <2>1
      <4> QED BY <4>1, AppendPart, ZenonT(40)
    <3> QED BY <3>1, <3>2
  <2>4. /\ \A m \in Packets : m < tx_msg =>
              /\ frame_at[m + 1] = frame_at[m] + FrameLength(m)
              /\ frame_at[m + 1] <= Len(stream)
        /\ Len(stream) = frame_at[tx_msg] + tx_sent
        /\ \A m \in Packets : m <= tx_msg =>
              \A i \in 1..FrameLength(m) :
                  frame_at[m] + i <= Len(stream) => stream[frame_at[m] + i] = <<m, i>>
    BY <1>1, <1>8 DEF StreamFramed
  <2>a. /\ frame_at[tx_msg] \in Nat /\ FrameLength(tx_msg) \in Nat /\ Len(stream) \in Nat
        /\ tx_sent \in Nat /\ n \in Nat /\ n > 0
        /\ Len(stream) = frame_at[tx_msg] + tx_sent
        /\ Len(stream') = Len(stream) + n
        /\ tx_sent + n <= FrameLength(tx_msg)
    BY <2>0, <2>1, <2>3, <2>4
  <2>5. \A m \in Packets : m <= tx_msg => frame_at'[m] = frame_at[m]
    BY <2>1, <2>0 DEF Accept, Packets
  <2>6. SenderRests'
    BY <2>1, <2>0 DEF Accept, SendReturns, SenderRests
  <2>7. ASSUME NEW m \in Packets, m <= tx_msg,
               m \in Nat, frame_at[m] \in Nat, FrameLength(m) \in Nat,
               NEW i \in Nat, i > 0, i <= FrameLength(m), frame_at[m] + i <= Len(stream')
        PROVE  stream'[frame_at[m] + i] = <<m, i>>
    <3>1. m \in Nat /\ frame_at[m] \in Nat /\ FrameLength(m) \in Nat /\ i \in 1..FrameLength(m)
      BY <2>7
    <3>2. CASE frame_at[m] + i <= Len(stream)
      <4>1. stream[frame_at[m] + i] = <<m, i>>
        BY <2>4, <2>7, <3>1, <3>2
      <4>2. frame_at[m] + i \in 1..Len(stream)
        BY SMTT(30), <2>7, <2>a, <3>2
      <4> QED BY <2>3, <4>1, <4>2
    <3>3. CASE frame_at[m] + i > Len(stream)
      <4>1. m = tx_msg
        <5>1. SUFFICES ASSUME m < tx_msg PROVE FALSE
          BY <2>0, <2>7, <3>1 DEF Packets
        <5>2. frame_at[m] + FrameLength(m) <= Len(stream)
          BY <2>4, <5>1
        <5> QED BY <2>0, <3>1, <3>3, <5>2
      <4>2. /\ frame_at[m] \in Nat /\ Len(stream) \in Nat /\ tx_sent \in Nat
            /\ Len(stream) = frame_at[m] + tx_sent
            /\ frame_at[m] + i > Len(stream) /\ frame_at[m] + i <= Len(stream) + n
        BY <2>7, <2>a, <3>3, <4>1
      <4>3. /\ i - tx_sent \in 1..n /\ tx_sent + (i - tx_sent) = i
            /\ Len(stream) + (i - tx_sent) = frame_at[m] + i
        BY <4>2, Position
      <4> QED BY <2>3, <4>1, <4>3
    <3> QED BY <2>0, <3>1, <3>2, <3>3
  <2>8. CASE tx_sent + n < FrameLength(tx_msg)
    <3>1. tx_sent' = tx_sent + n /\ tx_msg' = tx_msg /\ frame_at' = frame_at
      BY <2>1, <2>0, <2>8 DEF Accept
    <3>2. \A m \in Packets : m < tx_msg' =>
             /\ frame_at'[m + 1] = frame_at'[m] + FrameLength(m)
             /\ frame_at'[m + 1] <= Len(stream')
      <4> SUFFICES ASSUME NEW m \in Packets, m < tx_msg,
                          m \in Nat, frame_at[m + 1] \in Nat
                   PROVE  /\ frame_at[m + 1] = frame_at[m] + FrameLength(m)
                          /\ frame_at[m + 1] <= Len(stream')
        BY <2>0, <3>1, FrameAtType
      <4> QED BY SMTT(30), <2>4, <2>a
    <3>3. Len(stream') = frame_at'[tx_msg'] + tx_sent'
      BY <2>a, <3>1
    <3>4. \A m \in Packets : m <= tx_msg' => \A i \in 1..FrameLength(m) :
             frame_at'[m] + i <= Len(stream') => stream'[frame_at'[m] + i] = <<m, i>>
      BY SMTT(30), <2>0, <2>7, <3>1, FrameAtType
    <3>5. StreamFramed'
      BY <3>2, <3>3, <3>4 DEF StreamFramed
    <3>6. ReceiverAligned'
      BY <1>1, <1>4, <3>1 DEF ReceiverAligned, Healthy, Expected, Within
    <3> QED BY <1>2, <1>5, <2>6, <3>5, <3>6 DEF FramingInv
  <2>9. CASE tx_sent + n = FrameLength(tx_msg)
    <3>1. /\ tx_sent' = 0 /\ tx_msg' = tx_msg + 1
          /\ frame_at' = [frame_at EXCEPT ![tx_msg + 1] = Len(stream')]
      BY <2>1, <2>0, <2>9 DEF Accept
    <3>2. frame_at'[tx_msg + 1] = Len(stream')
      BY <2>0, <3>1, PayloadType DEF Packets
    <3>3. Len(stream') = frame_at[tx_msg] + FrameLength(tx_msg)
      BY <2>0, <2>9, <2>a
    <3>4. \A m \in Packets : m < tx_msg + 1 =>
             /\ frame_at'[m + 1] = frame_at'[m] + FrameLength(m)
             /\ frame_at'[m + 1] <= Len(stream')
      <4> SUFFICES ASSUME NEW m \in Packets, m < tx_msg + 1
                   PROVE  /\ frame_at'[m + 1] = frame_at'[m] + FrameLength(m)
                          /\ frame_at'[m + 1] <= Len(stream')
        OBVIOUS
      <4>0. /\ m \in Nat /\ frame_at[m] \in Nat /\ frame_at[m + 1] \in Nat
            /\ FrameLength(m) \in Nat
        BY <2>0, FrameAtType
      <4>1. CASE m = tx_msg
        <5>1. m <= tx_msg
          BY <4>0, <4>1
        <5>2. frame_at'[m] = frame_at[m]
          BY <2>5, <5>1
        <5>3. frame_at'[m + 1] = Len(stream')
          BY <3>2, <4>1
        <5>4. Len(stream') = frame_at[m] + FrameLength(m) /\ Len(stream') \in Nat
          BY <2>a, <3>3, <4>1
        <5> QED BY <5>2, <5>3, <5>4
      <4>2. CASE m < tx_msg
        <5>1. m + 1 <= tx_msg /\ m + 1 \in Packets
          BY <2>0, <4>2 DEF Packets
        <5>2. frame_at'[m + 1] = frame_at[m + 1] /\ frame_at'[m] = frame_at[m]
          BY <2>0, <2>5, <4>2, <5>1 DEF Packets
        <5>3. frame_at[m + 1] \in Nat /\ frame_at[m + 1] <= Len(stream)
          BY <2>0, <2>4, <4>2, FrameAtType
        <5>4. frame_at[m + 1] = frame_at[m] + FrameLength(m)
          BY <2>4, <4>2
        <5>5. frame_at[m + 1] <= Len(stream')
          BY <2>a, <5>3
        <5> QED BY <5>2, <5>4, <5>5
      <4> QED BY <2>0, <4>0, <4>1, <4>2
    <3>5. ASSUME NEW m \in Packets, m \in Nat, FrameLength(m) \in Nat, m <= tx_msg + 1,
                 NEW i \in Nat, i > 0, i <= FrameLength(m), frame_at'[m] + i <= Len(stream')
          PROVE  stream'[frame_at'[m] + i] = <<m, i>>
      <4>1. CASE m <= tx_msg
        <5>1. frame_at'[m] = frame_at[m] /\ frame_at[m] \in Nat
          BY <2>0, <2>5, <4>1, FrameAtType
        <5> QED BY <2>7, <3>5, <4>1, <5>1
      <4>2. CASE m = tx_msg + 1
        BY <2>a, <3>2, <3>5, <4>2
      <4> QED BY <2>0, <3>5, <4>1, <4>2
    <3>6. Len(stream') = frame_at'[tx_msg'] + tx_sent'
      BY <2>0, <2>3, <3>1, <3>2
    <3>7. StreamFramed'
      <4>1. \A m \in Packets : m <= tx_msg' => \A i \in 1..FrameLength(m) :
               frame_at'[m] + i <= Len(stream') => stream'[frame_at'[m] + i] = <<m, i>>
        <5> SUFFICES ASSUME NEW m \in Packets, m <= tx_msg', NEW i \in 1..FrameLength(m),
                            frame_at'[m] + i <= Len(stream')
                     PROVE  stream'[frame_at'[m] + i] = <<m, i>>
          OBVIOUS
        <5>1. m \in Nat /\ FrameLength(m) \in Nat
          BY <2>0, FrameAtType
        <5>2. m <= tx_msg + 1 /\ i \in Nat /\ i > 0 /\ i <= FrameLength(m)
          BY <3>1, <5>1
        <5> QED BY <3>5, <5>1, <5>2
      <4> QED BY <3>1, <3>4, <3>6, <4>1 DEF StreamFramed
    <3>8. Healthy => Expected <= tx_msg /\ frame_at'[Expected] = frame_at[Expected]
      <4> SUFFICES ASSUME Healthy
                   PROVE  Expected <= tx_msg /\ frame_at'[Expected] = frame_at[Expected]
        OBVIOUS
      <4>1. Expected <= tx_msg /\ Expected \in Nat \ {0}
        BY <1>1, <1>8, LenProperties DEF ReceiverAligned, Expected, TypeOK
      <4> QED BY <2>0, <2>5, <4>1 DEF Packets
    <3>9. ReceiverAligned'
      BY SMTT(30), <1>1, <1>4, <1>8, <2>0, <3>1, <3>8
         DEF ReceiverAligned, Healthy, Expected, Within, Packets, TypeOK
    <3> QED BY <1>2, <1>5, <2>6, <3>7, <3>9 DEF FramingInv
  <2> QED BY <2>0, <2>1, <2>8, <2>9
<1> QED BY <1>6, <1>7, <1>8

\* What the receiver knows about where it stands.
LEMMA Standing ==
    ASSUME FramingInv, Careful, Healthy
    PROVE  /\ Expected \in Nat /\ Expected > 0 /\ tx_msg \in Nat /\ Expected <= tx_msg
           /\ frame_at[Expected] \in Nat /\ Within \in Nat /\ HeaderLength \in Nat
           /\ rx_got \in Nat /\ Len(stream) \in Nat /\ consumed \in Nat /\ tx_sent \in Nat
           /\ consumed = frame_at[Expected] + Within
           /\ Expected \in 1..Len(Payload) + 1 /\ Len(Payload) \in Nat
<1>1. TypeOK /\ ReceiverAligned
  BY DEF FramingInv, SafeInv
<1>2. Expected \in Nat /\ Expected > 0
  BY <1>1, LenProperties DEF TypeOK, Expected
<1>3. Expected <= tx_msg /\ consumed = frame_at[Expected] + Within
  BY <1>1 DEF ReceiverAligned
<1>4. Len(Payload) \in Nat /\ tx_msg \in 1..Len(Payload) + 1
  BY <1>1, PayloadType DEF TypeOK
<1>5. Expected \in 1..Len(Payload) + 1
  BY <1>2, <1>3, <1>4
<1>6. frame_at[Expected] \in Nat
  BY <1>1, <1>4, <1>5 DEF TypeOK
<1>7. Within \in Nat /\ HeaderLength \in Nat
  <2>1. rx_got \in Nat /\ HeaderLength \in Nat
    BY <1>1, ParametersAssumption DEF TypeOK
  <2> QED BY <2>1 DEF Within
<1>8. /\ rx_got \in Nat /\ Len(stream) \in Nat /\ consumed \in Nat /\ tx_sent \in Nat
      /\ tx_msg \in Nat
  BY <1>1, <1>4, LenProperties DEF TypeOK
<1> QED BY <1>2, <1>3, <1>4, <1>5, <1>6, <1>7, <1>8

\* There is a byte to read only if the expected packet exists.
LEMMA ExpectedExists ==
    ASSUME FramingInv, Careful, Healthy, consumed < Len(stream)
    PROVE  Expected \in Packets /\ FrameLength(Expected) \in Nat
<1>1. SUFFICES ASSUME Expected \notin Packets PROVE FALSE
  BY PayloadType
<1>2. Expected = Len(Payload) + 1 /\ tx_msg = Expected
  BY <1>1, Standing DEF Packets, FramingInv, SafeInv, TypeOK
<1>3. tx_sent = 0
  BY <1>1, <1>2, Standing DEF FramingInv, SafeInv, TypeOK
<1>4. Len(stream) = frame_at[tx_msg] + tx_sent
  BY DEF FramingInv, StreamFramed
<1> QED BY <1>2, <1>3, <1>4, Standing

\* The bytes ahead of the receiver are the next ones of the packet it expects.
LEMMA NextBytes ==
    ASSUME FramingInv, Careful, Healthy, NEW n \in Nat, n > 0, consumed + n <= Len(stream),
           Expected \in Packets => Within + n <= FrameLength(Expected)
    PROVE  /\ Expected \in Packets /\ FrameLength(Expected) \in Nat
           /\ \A j \in 1..n : stream[consumed + j] = <<Expected, Within + j>>
<1>1. Expected \in Packets /\ FrameLength(Expected) \in Nat
  BY Standing, ExpectedExists
<1>2. SUFFICES ASSUME NEW j \in Nat, j > 0, j <= n
               PROVE  stream[consumed + j] = <<Expected, Within + j>>
  BY <1>1
<1>a. /\ frame_at[Expected] \in Nat /\ Within \in Nat /\ Len(stream) \in Nat /\ consumed \in Nat
      /\ FrameLength(Expected) \in Nat
      /\ consumed = frame_at[Expected] + Within /\ Within + n <= FrameLength(Expected)
  BY <1>1, Standing
<1>3. Within + j \in 1..FrameLength(Expected)
  BY <1>2, <1>a
<1>4. consumed + j = frame_at[Expected] + (Within + j) /\ consumed + j <= Len(stream)
  BY SMTT(30), <1>2, <1>a
<1>5. \A i \in 1..FrameLength(Expected) :
         frame_at[Expected] + i <= Len(stream) => stream[frame_at[Expected] + i] = <<Expected, i>>
  BY <1>1, Standing DEF FramingInv, StreamFramed
<1> QED BY <1>3, <1>4, <1>5

\* A packet whose frame is completely in the stream is not the one being sent.
LEMMA Completed ==
    ASSUME FramingInv, Careful, Healthy, Expected \in Packets,
           frame_at[Expected] + FrameLength(Expected) <= Len(stream)
    PROVE  /\ Expected + 1 <= tx_msg
           /\ frame_at[Expected + 1] = frame_at[Expected] + FrameLength(Expected)
<1>1. FrameLength(Expected) \in Nat
  BY PayloadType
<1>2. Len(stream) = frame_at[tx_msg] + tx_sent
  BY DEF FramingInv, StreamFramed
<1>3. Expected # tx_msg
  <2>1. SUFFICES ASSUME Expected = tx_msg PROVE FALSE
    OBVIOUS
  <2>2. tx_sent < FrameLength(Expected)
    BY <2>1 DEF FramingInv, SafeInv, TypeOK
  <2> QED BY SMTT(30), <1>1, <1>2, <2>1, <2>2, Standing
<1>4. Expected < tx_msg
  BY <1>3, Standing
<1>5. frame_at[Expected + 1] = frame_at[Expected] + FrameLength(Expected)
  BY <1>4 DEF FramingInv, StreamFramed
<1> QED BY <1>4, <1>5, Standing

\* A genuine header decodes to the length of its own packet.
LEMMA HeaderDecodes ==
    ASSUME NEW m \in Packets
    PROVE  Decoded(HeaderOf(m)) = {Payload[m]}
<1>1. 1 \in 1..HeaderLength
  BY ParametersAssumption
<1>2. ASSUME NEW p \in Packets, HeaderOf(m) = HeaderOf(p) PROVE p = m
  <2>1. HeaderOf(m)[1] = <<m, 1>> /\ HeaderOf(p)[1] = <<p, 1>>
    BY <1>1 DEF HeaderOf
  <2> QED BY <1>2, <2>1
<1> QED BY <1>2 DEF Decoded

\* One recv of a receive in progress that leaves it in progress.
LEMMA FramingPart ==
    ASSUME FramingInv, Careful, ReceivePart, SafeInv'
    PROVE  ReceiverAligned' /\ ReceiverHolds'
<1>1. PICK n \in 1..Available :
        /\ rx_got + n < Wanted
        /\ rx_got' = rx_got + n
        /\ consumed' = consumed + n
        /\ \/ /\ rx_pc = "header" /\ rx_header' = Filled(rx_header, n)
              /\ UNCHANGED buffer
           \/ /\ rx_pc = "payload" /\ buffer' = Filled(buffer, n)
              /\ UNCHANGED rx_header
  BY DEF ReceivePart
<1>2. Receiving /\ UNCHANGED <<stream, reset, shut, sender, rx_pc, rx_blocking, rx_length,
                               rx_status, rx_base, delivered>>
  BY DEF ReceivePart
<1>3. Healthy /\ TypeOK /\ BufferSafe /\ ReceiverAligned /\ ReceiverHolds
  BY <1>2 DEF FramingInv, SafeInv, ReceiverHolds
<1>4. /\ n \in Nat /\ n > 0 /\ consumed + n <= Len(stream)
      /\ Within \in Nat /\ rx_got \in Nat /\ HeaderLength \in Nat /\ consumed \in Nat
  <2>1. Len(stream) \in Nat /\ consumed \in Nat
    BY <1>3, Standing
  <2> QED BY <1>3, <2>1, Standing DEF Available
<1>5. Expected \in Packets => Within + n <= FrameLength(Expected)
  <2>1. SUFFICES ASSUME Expected \in Packets, FrameLength(Expected) \in Nat,
                        Payload[Expected] \in Nat
                 PROVE  Within + n <= FrameLength(Expected)
    BY PayloadType
  <2>2. CASE rx_pc = "header"
    BY <1>1, <1>4, <2>1, <2>2 DEF Wanted, Within, FrameLength
  <2>3. CASE rx_pc = "payload"
    <3>1. rx_length = Payload[Expected]
      BY <1>3, <2>3 DEF ReceiverAligned
    <3> QED BY <1>1, <1>4, <2>1, <2>3, <3>1 DEF Wanted, Within, FrameLength
  <2> QED BY <1>2, <2>2, <2>3 DEF Receiving
<1>6. \A j \in 1..n : stream[consumed + j] = <<Expected, Within + j>>
  BY <1>3, <1>4, <1>5, NextBytes
<1>7. Expected' = Expected /\ Healthy' /\ Receiving'
  BY <1>2, <1>3 DEF Expected, Healthy, Receiving
<1>8. Within' = Within + n
  BY <1>1, <1>2, <1>4 DEF Within, Receiving
<1>9. frame_at' = frame_at /\ tx_msg' = tx_msg
  BY <1>2 DEF sender
<1>10. ReceiverAligned'
  <2>1. consumed' = frame_at'[Expected'] + Within'
    BY SMTT(30), <1>1, <1>3, <1>4, <1>7, <1>8, <1>9, Standing
  <2> QED BY <1>2, <1>3, <1>7, <1>9, <2>1 DEF ReceiverAligned
<1>11. CASE rx_pc = "header"
  <2>1. Len(rx_header) = HeaderLength /\ rx_got + n < HeaderLength /\ Within = rx_got
        /\ rx_header' = Filled(rx_header, n) /\ buffer' = buffer
    BY <1>1, <1>3, <1>11 DEF TypeOK, Wanted, Within
  <2>2. \A i \in 1..rx_got + n : rx_header'[i] = <<Expected, i>>
    <3> SUFFICES ASSUME NEW i \in Nat, i > 0, i <= rx_got + n
                 PROVE  Filled(rx_header, n)[i] = <<Expected, i>>
      BY <1>4, <2>1
    <3>1. i \in 1..Len(rx_header)
      BY <1>4, <2>1
    <3>2. CASE i <= rx_got
      BY <1>3, <1>4, <1>11, <3>1, <3>2, <1>2 DEF Filled, ReceiverHolds, Receiving
    <3>3. CASE i > rx_got
      <4>1. i - rx_got \in 1..n /\ rx_got + (i - rx_got) = i /\ i \in (rx_got + 1)..(rx_got + n)
        BY <1>4, <3>3
      <4> QED BY <1>6, <2>1, <3>1, <4>1 DEF Filled
    <3> QED BY <1>4, <3>2, <3>3
  <2> QED BY <1>1, <1>2, <1>3, <1>7, <1>10, <1>11, <2>1, <2>2 DEF ReceiverHolds
<1>12. CASE rx_pc = "payload"
  <2>1. rx_length <= Len(buffer) /\ rx_got + n < rx_length /\ Within = HeaderLength + rx_got
        /\ buffer' = Filled(buffer, n) /\ rx_length \in Nat /\ Len(buffer) \in Nat
    BY <1>1, <1>3, <1>12, LenProperties DEF TypeOK, Wanted, Within, BufferSafe
  <2>2. \A i \in 1..rx_got + n : buffer'[i] = <<Expected, HeaderLength + i>>
    <3> SUFFICES ASSUME NEW i \in Nat, i > 0, i <= rx_got + n
                 PROVE  Filled(buffer, n)[i] = <<Expected, HeaderLength + i>>
      BY <1>4, <2>1
    <3>1. i \in 1..Len(buffer)
      BY <1>4, <2>1
    <3>2. CASE i <= rx_got
      BY <1>3, <1>4, <1>12, <3>1, <3>2, <1>2 DEF Filled, ReceiverHolds, Receiving
    <3>3. CASE i > rx_got
      <4>1. i - rx_got \in 1..n /\ i \in (rx_got + 1)..(rx_got + n)
            /\ HeaderLength + rx_got + (i - rx_got) = HeaderLength + i
        BY <1>4, <3>3
      <4> QED BY <1>6, <2>1, <3>1, <4>1 DEF Filled
    <3> QED BY <1>4, <3>2, <3>3
  <2>3. Len(buffer') = Len(buffer)
    <3>1. buffer \in Seq(Byte) /\ stream \in Seq(Byte)
      BY <1>3 DEF TypeOK
    <3> QED BY <1>4, <2>1, <3>1, FilledType
  <2> QED BY <1>1, <1>2, <1>3, <1>7, <1>10, <1>12, <2>1, <2>2, <2>3 DEF ReceiverHolds
<1> QED BY <1>2, <1>10, <1>11, <1>12 DEF Receiving

\* Delivering one more packet: the receiver moves to the start of the next frame.
LEMMA FramingDeliver ==
    ASSUME FramingInv, Careful, Healthy, Expected \in Packets, SafeInv',
           UNCHANGED <<stream, sender>>,
           consumed' = frame_at[Expected] + FrameLength(Expected),
           consumed' <= Len(stream),
           rx_pc' = "idle", buffer' \in Seq(Byte), delivered' = Append(delivered, buffer'),
           Len(buffer') >= Payload[Expected],
           \A i \in 1..Payload[Expected] : buffer'[i] = <<Expected, HeaderLength + i>>,
           ~ReusePacket => Len(buffer') = Payload[Expected]
    PROVE  ReceiverAligned' /\ ReceiverHolds' /\ DeliveredIntact'
<1>1. TypeOK /\ DeliveredIntact /\ ReceiverAligned
  BY DEF FramingInv, SafeInv
<1>2. /\ Len(delivered) \in Nat /\ Len(delivered') = Len(delivered) + 1
      /\ \A k \in 1..Len(delivered) : delivered'[k] = delivered[k]
      /\ delivered'[Len(delivered) + 1] = buffer'
  <2>1. delivered \in Seq(Seq(Byte))
    BY <1>1 DEF TypeOK
  <2> QED BY <2>1, AppendProperties, LenProperties
<1>3. Expected = Len(delivered) + 1 /\ Expected' = Expected + 1
  BY <1>2 DEF Expected
<1>4. Expected + 1 <= tx_msg /\ frame_at[Expected + 1] = frame_at[Expected] + FrameLength(Expected)
  BY Completed
<1>5. frame_at' = frame_at /\ tx_msg' = tx_msg
  BY DEF sender
<1>6. Within' = 0 /\ frame_at[Expected] + FrameLength(Expected) \in Nat
  <2>1. frame_at[Expected] \in Nat
    BY Standing
  <2>2. FrameLength(Expected) \in Nat
    BY PayloadType
  <2> QED BY <2>1, <2>2 DEF Within
<1>7. ReceiverAligned'
  <2>1. frame_at'[Expected'] + Within' = frame_at[Expected + 1] + 0
    BY <1>3, <1>5, <1>6
  <2>2. consumed' = frame_at'[Expected'] + Within'
    BY <1>4, <1>6, <2>1
  <2> QED BY <1>3, <1>4, <1>5, <2>2 DEF ReceiverAligned
<1>8. ReceiverHolds'
  BY DEF ReceiverHolds, Receiving
<1>9. DeliveredIntact'
  <2> SUFFICES ASSUME NEW k \in 1..Len(delivered')
               PROVE  /\ Len(delivered'[k]) >= Payload[k]
                      /\ \A i \in 1..Payload[k] : delivered'[k][i] = <<k, HeaderLength + i>>
                      /\ ~ReusePacket => Len(delivered'[k]) = Payload[k]
    BY DEF DeliveredIntact
  <2>1. CASE k \in 1..Len(delivered)
    BY <1>1, <1>2, <2>1 DEF DeliveredIntact
  <2>2. CASE k = Len(delivered) + 1
    BY <1>2, <1>3, <2>2
  <2> QED BY <1>2, <2>1, <2>2
<1> QED BY <1>7, <1>8, <1>9

LEMMA FramingHeader ==
    ASSUME FramingInv, Careful, ReceiveHeader, SafeInv'
    PROVE  ReceiverAligned' /\ ReceiverHolds' /\ DeliveredIntact'
<1> DEFINE n == HeaderLength - rx_got
<1>1. /\ rx_pc = "header" /\ n <= Available
      /\ rx_header' = Filled(rx_header, n) /\ consumed' = consumed + n
      /\ UNCHANGED <<stream, reset, shut, sender, rx_blocking, rx_base>>
  BY DEF ReceiveHeader
<1>2. Healthy /\ TypeOK /\ BufferSafe /\ ReceiverAligned /\ ReceiverHolds /\ DeliveredIntact
  BY <1>1 DEF FramingInv, SafeInv, ReceiverHolds, Receiving
<1>3. /\ rx_got \in Nat /\ HeaderLength \in Nat /\ rx_got < HeaderLength
      /\ Len(stream) \in Nat /\ consumed \in Nat /\ frame_at[Expected] \in Nat
      /\ consumed = frame_at[Expected] + Within /\ Within = rx_got
  BY <1>1, <1>2, Standing DEF BufferSafe, Within
<1>4. n \in Nat /\ n > 0 /\ rx_got + n = HeaderLength /\ consumed + n <= Len(stream)
  BY <1>1, <1>3 DEF Available
<1>5. Expected \in Packets => Within + n <= FrameLength(Expected)
  <2> SUFFICES ASSUME Payload[Expected] \in Nat
               PROVE  Within + n <= HeaderLength + Payload[Expected]
    BY PayloadType DEF FrameLength
  <2> QED BY <1>3, <1>4
<1> HIDE DEF n
<1>6. /\ Expected \in Packets
      /\ \A j \in 1..n : stream[consumed + j] = <<Expected, rx_got + j>>
  BY <1>2, <1>3, <1>4, <1>5, NextBytes
<1>7. consumed' = frame_at[Expected] + HeaderLength
  BY SMTT(30), <1>1, <1>3, <1>4
<1>8. rx_header' = HeaderOf(Expected)
  <2>1. Len(rx_header) = HeaderLength
    BY <1>2 DEF TypeOK
  <2>2. \A i \in 1..HeaderLength : Filled(rx_header, n)[i] = <<Expected, i>>
    <3> SUFFICES ASSUME NEW i \in Nat, i > 0, i <= HeaderLength
                 PROVE  Filled(rx_header, n)[i] = <<Expected, i>>
      BY <1>3
    <3>1. i \in 1..Len(rx_header)
      BY <1>3, <2>1
    <3>2. CASE i <= rx_got
      BY <1>1, <1>2, <1>3, <3>1, <3>2 DEF Filled, ReceiverHolds, Receiving
    <3>3. CASE i > rx_got
      <4>1. i - rx_got \in 1..n /\ rx_got + (i - rx_got) = i /\ i \in (rx_got + 1)..(rx_got + n)
        BY <1>3, <1>4, <3>3
      <4> QED BY <1>6, <3>1, <4>1 DEF Filled
    <3> QED BY <1>3, <3>2, <3>3
  <2>3. rx_header' = [i \in 1..HeaderLength |-> Filled(rx_header, n)[i]]
    BY <1>1, <2>1 DEF Filled
  <2> QED BY <2>2, <2>3 DEF HeaderOf
<1>9. Decoded(rx_header') = {Payload[Expected]}
  BY <1>6, <1>8, HeaderDecodes
<1>10. \/ ReceiveReturns("MaxPacketSizeExceeded") /\ UNCHANGED <<rx_length, rx_got, buffer, delivered>>
       \/ /\ rx_length' = Payload[Expected] /\ rx_got' = 0
          /\ buffer' = Grown(Payload[Expected])
          /\ Payload[Expected] > 0 /\ rx_pc' = "payload"
          /\ UNCHANGED <<rx_status, delivered>>
       \/ /\ rx_length' = Payload[Expected] /\ rx_got' = 0
          /\ buffer' = Grown(Payload[Expected])
          /\ Payload[Expected] = 0 /\ ReceiveReturns("Success")
          /\ delivered' = Append(delivered, buffer')
  BY <1>9 DEF ReceiveHeader
<1>11. /\ Payload[Expected] \in Nat /\ FrameLength(Expected) = HeaderLength + Payload[Expected]
       /\ buffer \in Seq(Byte) /\ Len(buffer) \in Nat
       /\ Grown(Payload[Expected]) \in Seq(Byte)
       /\ Len(Grown(Payload[Expected])) =
            IF Payload[Expected] > Len(buffer) THEN Payload[Expected] ELSE Len(buffer)
       /\ ~ReusePacket => Len(buffer) = 0
  <2>1. buffer \in Seq(Byte) /\ Payload[Expected] \in Nat
    BY <1>2, <1>6, PayloadType DEF TypeOK
  <2> QED BY <1>1, <1>2, <2>1, GrownType, LenProperties DEF FrameLength, ReceiverHolds, Receiving
<1>12. CASE ReceiveReturns("MaxPacketSizeExceeded") /\ UNCHANGED <<rx_length, rx_got, buffer, delivered>>
  BY <1>2, <1>12 DEF ReceiveReturns, ReceiverAligned, ReceiverHolds, Receiving, Healthy, Fatal,
                     DeliveredIntact
<1>13. CASE /\ rx_length' = Payload[Expected] /\ rx_got' = 0
            /\ buffer' = Grown(Payload[Expected])
            /\ Payload[Expected] > 0 /\ rx_pc' = "payload"
            /\ UNCHANGED <<rx_status, delivered>>
  <2>1. Healthy' /\ Expected' = Expected /\ Within' = HeaderLength
    BY <1>2, <1>3, <1>13 DEF Healthy, Expected, Within
  <2>2. ReceiverAligned'
    BY <1>1, <1>2, <1>6, <1>7, <1>13, <2>1, Standing DEF ReceiverAligned, sender
  <2>3. ReceiverHolds'
    BY <1>11, <1>13, <2>1 DEF ReceiverHolds
  <2> QED BY <1>2, <1>13, <2>2, <2>3 DEF DeliveredIntact
<1>14. CASE /\ rx_length' = Payload[Expected] /\ rx_got' = 0
            /\ buffer' = Grown(Payload[Expected])
            /\ Payload[Expected] = 0 /\ ReceiveReturns("Success")
            /\ delivered' = Append(delivered, buffer')
  <2>1. /\ consumed' = frame_at[Expected] + FrameLength(Expected) /\ consumed' <= Len(stream)
        /\ rx_pc' = "idle" /\ buffer' \in Seq(Byte)
    BY <1>1, <1>3, <1>4, <1>7, <1>11, <1>14 DEF ReceiveReturns
  <2>2. /\ Len(buffer') >= Payload[Expected]
        /\ ~ReusePacket => Len(buffer') = Payload[Expected]
        /\ \A i \in 1..Payload[Expected] : buffer'[i] = <<Expected, HeaderLength + i>>
    BY <1>11, <1>14
  <2> QED BY <1>1, <1>2, <1>6, <1>14, <2>1, <2>2, FramingDeliver
<1> QED BY <1>10, <1>12, <1>13, <1>14

LEMMA FramingPayload ==
    ASSUME FramingInv, Careful, ReceivePayload, SafeInv'
    PROVE  ReceiverAligned' /\ ReceiverHolds' /\ DeliveredIntact'
<1> DEFINE n == rx_length - rx_got
<1>1. /\ rx_pc = "payload" /\ n <= Available
      /\ buffer' = Filled(buffer, n) /\ consumed' = consumed + n
      /\ delivered' = Append(delivered, buffer') /\ rx_pc' = "idle"
      /\ UNCHANGED <<stream, reset, shut, sender, rx_blocking, rx_header, rx_length, rx_got, rx_base>>
  BY DEF ReceivePayload, ReceiveReturns
<1>2. Healthy /\ TypeOK /\ BufferSafe /\ ReceiverAligned /\ ReceiverHolds
  BY <1>1 DEF FramingInv, SafeInv, ReceiverHolds, Receiving
<1>3. /\ rx_got \in Nat /\ rx_length \in Nat /\ rx_got < rx_length /\ HeaderLength \in Nat
      /\ Len(buffer) \in Nat /\ rx_length <= Len(buffer) /\ buffer \in Seq(Byte)
      /\ Len(stream) \in Nat /\ consumed \in Nat /\ frame_at[Expected] \in Nat
      /\ consumed = frame_at[Expected] + Within /\ Within = HeaderLength + rx_got
  BY <1>1, <1>2, Standing, LenProperties DEF BufferSafe, Within, TypeOK
<1>4. /\ Expected \in Packets /\ rx_length = Payload[Expected]
      /\ FrameLength(Expected) = HeaderLength + rx_length
  BY <1>1, <1>2 DEF ReceiverAligned, FrameLength
<1>5. n \in Nat /\ n > 0 /\ rx_got + n = rx_length /\ consumed + n <= Len(stream)
  BY <1>1, <1>3 DEF Available
<1> HIDE DEF n
<1>6. \A j \in 1..n : stream[consumed + j] = <<Expected, HeaderLength + rx_got + j>>
  <2>1. Within + n <= FrameLength(Expected)
    BY <1>3, <1>4, <1>5
  <2> QED BY <1>2, <1>3, <1>5, <2>1, NextBytes
<1>7. consumed' = frame_at[Expected] + FrameLength(Expected) /\ consumed' <= Len(stream)
  <2>1. consumed + n = frame_at[Expected] + (HeaderLength + rx_length)
    BY SMTT(30), <1>3, <1>5
  <2> QED BY <1>1, <1>4, <1>5, <2>1
<1>8. \A i \in 1..rx_length : buffer'[i] = <<Expected, HeaderLength + i>>
  <2> SUFFICES ASSUME NEW i \in Nat, i > 0, i <= rx_length
               PROVE  Filled(buffer, n)[i] = <<Expected, HeaderLength + i>>
    BY <1>1, <1>3
  <2>1. i \in 1..Len(buffer)
    BY <1>3
  <2>2. CASE i <= rx_got
    BY <1>1, <1>2, <1>3, <2>1, <2>2 DEF Filled, ReceiverHolds, Receiving
  <2>3. CASE i > rx_got
    <3>1. i - rx_got \in 1..n /\ i \in (rx_got + 1)..(rx_got + n)
          /\ HeaderLength + rx_got + (i - rx_got) = HeaderLength + i
      BY <1>3, <1>5, <2>3
    <3> QED BY <1>6, <2>1, <3>1 DEF Filled
  <2> QED BY <1>3, <2>2, <2>3
<1>9. buffer' \in Seq(Byte) /\ Len(buffer') = Len(buffer)
  <2>1. stream \in Seq(Byte)
    BY <1>2 DEF TypeOK
  <2> QED BY <1>1, <1>3, <1>5, <2>1, FilledType
<1>10. ~ReusePacket => Len(buffer') = Payload[Expected]
  BY <1>1, <1>2, <1>4, <1>9 DEF ReceiverHolds, Receiving
<1> QED BY <1>1, <1>2, <1>3, <1>4, <1>7, <1>8, <1>9, <1>10, FramingDeliver

LEMMA FramingReceiver ==
    ASSUME FramingInv, Receiver \/ ReceiverSetBlocking
    PROVE  FramingInv'
<1>1. /\ SafeInv /\ SenderRests /\ StreamFramed /\ ReceiverAligned /\ ReceiverHolds
      /\ DeliveredIntact /\ TypeOK
  BY DEF FramingInv, SafeInv
<1>2. SafeInv'
  BY <1>1, SafeReceiver
<1>3. UNCHANGED <<stream, sender>>
  BY DEF Receiver, Receive, ReceiverSetBlocking, ReceiveBegin, ReceivePart, ReceiveHeader,
         ReceivePayload, ReceiveNothing, ReceiveEof, ReceiveError, ReceiveRawFails,
         ReceiverDisconnects, kernel
<1>4. SenderRests' /\ StreamFramed'
  BY <1>1, <1>3 DEF SenderRests, StreamFramed, TxFailed, sender
<1>5. CASE ~Careful
  BY <1>2, <1>4, <1>5 DEF FramingInv, ReceiverAligned, ReceiverHolds, DeliveredIntact
<1>6. CASE Careful /\ ReceiveBegin
  <2>1. /\ rx_pc = "idle" /\ rx_pc' = "header" /\ rx_got' = 0 /\ Healthy /\ Healthy'
        /\ Expected' = Expected /\ consumed' = consumed /\ delivered' = delivered
        /\ (~ReusePacket => buffer' = <<>>)
    BY <1>6 DEF ReceiveBegin, Healthy, Expected, kernel
  <2>2. Within = 0 /\ Within' = 0
    BY <2>1 DEF Within
  <2>3. ReceiverAligned'
    BY <1>1, <1>3, <1>6, <2>1, <2>2 DEF ReceiverAligned, sender
  <2>4. ReceiverHolds'
    BY <2>1, EmptySeq DEF ReceiverHolds
  <2> QED BY <1>1, <1>2, <1>4, <2>1, <2>3, <2>4 DEF FramingInv, DeliveredIntact
<1>7. CASE Careful /\ ReceivePart
  <2>1. DeliveredIntact'
    BY <1>1, <1>7 DEF ReceivePart, DeliveredIntact
  <2> QED BY <1>2, <1>4, <1>7, <2>1, FramingPart DEF FramingInv
<1>8. CASE Careful /\ ReceiveHeader
  BY <1>2, <1>4, <1>8, FramingHeader DEF FramingInv
<1>9. CASE Careful /\ ReceivePayload
  BY <1>2, <1>4, <1>9, FramingPayload DEF FramingInv
<1>10. CASE Careful /\ (ReceiveNothing \/ ReceiveEof \/ ReceiveError)
  <2>1. PICK status \in {"WouldBlock", "Timeout", "Disconnected", "ReceiveError"} :
           ReceiveRawFails(status)
    BY <1>10 DEF ReceiveNothing, ReceiveEof, ReceiveError
  <2>2. /\ Receiving /\ rx_pc' = "idle" /\ rx_status' = PacketResult(status)
        /\ PacketResult(status) # "again"
        /\ UNCHANGED <<consumed, rx_got, delivered>>
    BY <2>1 DEF ReceiveRawFails, ReceiveReturns, kernel
  <2>3. Healthy /\ DeliveredIntact'
    BY <1>1, <1>10, <2>2 DEF ReceiverHolds, DeliveredIntact
  <2>4. Healthy' => rx_pc = "header" /\ rx_got = 0
    BY <2>1, <2>2 DEF Healthy, Fatal, PacketResult, PayloadResult, ReceiveAllResult, Receiving
  <2>5. ReceiverAligned'
    <3> SUFFICES ASSUME Healthy' PROVE ReceiverAligned'
      BY DEF ReceiverAligned
    <3>1. Within = 0 /\ Within' = 0 /\ Expected' = Expected
      BY <2>2, <2>4 DEF Within, Expected
    <3> QED BY <1>1, <1>3, <1>10, <2>2, <2>3, <3>1 DEF ReceiverAligned, sender
  <2>6. ReceiverHolds'
    BY <2>2 DEF ReceiverHolds, Receiving
  <2> QED BY <1>2, <1>4, <2>3, <2>5, <2>6 DEF FramingInv
<1>11. CASE Careful /\ (ReceiverDisconnects \/ ReceiverSetBlocking)
  <2>1. /\ UNCHANGED <<consumed, rx_header, rx_length, rx_got, buffer, rx_status, delivered>>
        /\ rx_pc' = "closed" \/ (rx_pc' = "idle" /\ rx_pc = "idle")
    BY <1>11 DEF ReceiverDisconnects, ReceiverSetBlocking, kernel
  <2>2. ReceiverHolds' /\ DeliveredIntact'
    BY <1>1, <2>1 DEF ReceiverHolds, Receiving, DeliveredIntact
  <2>3. ReceiverAligned'
    <3> SUFFICES ASSUME Healthy' PROVE ReceiverAligned'
      BY DEF ReceiverAligned
    <3>1. Healthy /\ Within' = Within /\ Expected' = Expected /\ rx_pc' = rx_pc
      BY <2>1 DEF Healthy, Within, Expected
    <3> QED BY <1>1, <1>3, <1>11, <2>1, <3>1 DEF ReceiverAligned, sender
  <2> QED BY <1>2, <1>4, <2>2, <2>3 DEF FramingInv
<1> QED BY <1>5, <1>6, <1>7, <1>8, <1>9, <1>10, <1>11 DEF Receiver, Receive

LEMMA FramingStep == FramingInv /\ [Next]_vars => FramingInv'
<1> SUFFICES ASSUME FramingInv, [Next]_vars PROVE FramingInv'
  OBVIOUS
<1>1. CASE Sender \/ SenderSetBlocking \/ Network
  BY <1>1, FramingSender
<1>2. CASE Receiver \/ ReceiverSetBlocking
  BY <1>2, FramingReceiver
<1>3. CASE Over \/ UNCHANGED vars
  <2>1. UNCHANGED <<stream, consumed, reset, shut, tx_pc, tx_blocking, tx_msg, tx_sent, tx_status,
                    rx_pc, rx_blocking, rx_header, rx_length, rx_got, buffer, rx_status,
                    frame_at, rx_base, delivered>>
    BY <1>3 DEF Over, vars, kernel, sender, receiver
  <2>2. SafeInv'
    BY <1>3, SafeStep DEF FramingInv, Next
  <2> QED BY <2>1, <2>2 DEF FramingInv, SenderRests, TxFailed, StreamFramed, ReceiverAligned,
             ReceiverHolds, Receiving, Healthy, Expected, Within, DeliveredIntact
<1> QED BY <1>1, <1>2, <1>3 DEF Next

LEMMA FramingInvariant == Spec => []FramingInv
  BY FramingInit, FramingStep, PTL DEF Spec

\* The stream of a careful sender is exactly the frames of its packets, for all packet
\* lengths, pipe sizes and ways ::send cuts and refuses the bytes.
THEOREM StreamIsFrames == Spec => []StreamFramed
  BY FramingInvariant, PTL DEF FramingInv

\* A healthy receiver never loses the framing, however ::recv cuts the stream.
THEOREM ReceiverKeepsFraming == Spec => []ReceiverAligned
  BY FramingInvariant, PTL DEF FramingInv

\* Every packet delivered is the one sent, in order, whole and unaltered.
THEOREM PacketsDeliveredIntact == Spec => []DeliveredIntact
  BY FramingInvariant, PTL DEF FramingInv
================================================================================
