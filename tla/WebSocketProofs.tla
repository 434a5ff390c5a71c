----------------------------- MODULE WebSocketProofs -----------------------------
(* Proofs about WebSocket, for all scripts, sizes, limits and masking keys. *)
EXTENDS WebSocket, TLAPS, SequenceTheorems, WellFoundedInduction

\* What travels on a wire: the parts of frames, and the handshake's messages.
Origins == (Ends \X Nat \X Nat)
    \cup ({"head", "length", "key", "request", "response"} \X {0} \X {0})
Byte == [part : {"data"}, of : Origins, keys : SUBSET Keys]
HeadUnits == [part : {"head"}, op : Opcodes, final : BOOLEAN, masked : BOOLEAN,
              code : {7, 16, 64}, size : Nat]
LengthUnits == [part : {"length"}, size : Nat]
KeyUnits == [part : {"key"}, keys : SUBSET Keys]
AnyUnit == [part : {"request", "response"}] \cup HeadUnits \cup LengthUnits \cup KeyUnits \cup Byte
Frames == [op : Opcodes, final : BOOLEAN, data : Seq(Byte)]

\* The types that TypeOK leaves out, of what TLC would take long to look through.
DataTyped ==
    /\ wire \in [Ends -> Seq(AnyUnit)]
    /\ frame \in [Ends -> Frames]

--------------------------------------------------------------------------------
(* Frames and their units.                                                     *)

LEMMA ByteIsUnit == \A s \in Seq(Byte) : s \in Seq(AnyUnit)
<1>1. Byte \subseteq AnyUnit
  BY DEF AnyUnit
<1> QED  BY <1>1

\* The pieces of a sequence are sequences.
LEMMA PieceType ==
    ASSUME NEW S, NEW s \in Seq(S), NEW n \in 0..Len(s)
    PROVE  /\ SubSeq(s, 1, n) \in Seq(S)
           /\ SubSeq(s, n + 1, Len(s)) \in Seq(S)
<1>1. Len(s) \in Nat /\ \A i \in 1..Len(s) : s[i] \in S
  BY LenProperties, ElementOfSeq
<1>2. SubSeq(s, 1, n) \in Seq(S)
  BY <1>1, SubSeqProperties
<1>3. SubSeq(s, n + 1, Len(s)) \in Seq(S)
  BY <1>1, SubSeqProperties
<1> QED  BY <1>2, <1>3

LEMMA MaskedType ==
    ASSUME NEW data \in Seq(Byte), NEW keys \in SUBSET Keys
    PROVE  Masked(data, keys) \in Seq(Byte)
<1>1. Len(data) \in Nat /\ DOMAIN data = 1..Len(data)
  BY LenProperties
<1>2. ASSUME NEW i \in 1..Len(data)
      PROVE  [data[i] EXCEPT !.keys = (@ \ keys) \cup (keys \ @)] \in Byte
  <2>1. data[i] \in Byte
    BY <1>1, ElementOfSeq
  <2> QED  BY <2>1 DEF Byte
<1>3. Masked(data, keys) \in [1..Len(data) -> Byte]
  BY <1>1, <1>2 DEF Masked
<1> QED  BY <1>1, <1>3, SeqDef

LEMMA UnitsType ==
    ASSUME NEW f \in Frames, NEW keys \in SUBSET Keys
    PROVE  Units(f, keys) \in Seq(AnyUnit)
<1>1. Len(f.data) \in Nat /\ f.data \in Seq(Byte) /\ f.op \in Opcodes /\ f.final \in BOOLEAN
  BY LenProperties DEF Frames
<1> DEFINE code == LengthCode(Len(f.data))
           first == [part |-> "head", op |-> f.op, final |-> f.final, masked |-> keys # {},
                     code |-> code, size |-> IF code = 7 THEN Len(f.data) ELSE 0]
           long == IF code = 7 THEN <<>> ELSE <<[part |-> "length", size |-> Len(f.data)]>>
           mask == IF keys = {} THEN <<>> ELSE <<[part |-> "key", keys |-> keys]>>
<1>2. code \in {7, 16, 64}
  BY DEF LengthCode
<1>3. first \in AnyUnit
  <2>1. first \in HeadUnits
    BY <1>1, <1>2 DEF HeadUnits
  <2> QED  BY <2>1 DEF AnyUnit
<1>4. long \in Seq(AnyUnit)
  <2>1. [part |-> "length", size |-> Len(f.data)] \in AnyUnit
    BY <1>1 DEF AnyUnit, LengthUnits
  <2> QED  BY <2>1
<1>5. mask \in Seq(AnyUnit)
  <2>1. [part |-> "key", keys |-> keys] \in AnyUnit
    BY DEF AnyUnit, KeyUnits
  <2> QED  BY <2>1
<1>6. Masked(f.data, keys) \in Seq(AnyUnit)
  BY <1>1, MaskedType, ByteIsUnit
<1>7. Units(f, keys) = <<first>> \o long \o mask \o Masked(f.data, keys)
  BY DEF Units
<1> HIDE DEF code, first, long, mask
<1>8. <<first>> \in Seq(AnyUnit)
  BY <1>3
<1>9. <<first>> \o long \o mask \in Seq(AnyUnit)
  BY <1>4, <1>5, <1>8, ConcatProperties
<1> QED  BY <1>6, <1>7, <1>9, ConcatProperties

\* The fields of a header, whatever unit was read in its place.
LEMMA HeaderType ==
    ASSUME NEW u \in AnyUnit, NEW h \in Header(u)
    PROVE  h \in Heads
<1>2. CASE u.part = "head"
  <2>1. u \in HeadUnits
    BY <1>2 DEF AnyUnit, HeadUnits, LengthUnits, KeyUnits, Byte
  <2>2. h = [op |-> u.op, final |-> u.final, masked |-> u.masked, code |-> u.code,
             size |-> u.size, keys |-> {}]
    BY <1>2 DEF Header
  <2> QED  BY <2>1, <2>2 DEF HeadUnits, Heads
<1>3. CASE u.part # "head"
  <2>1. h \in [op : Opcodes, final : BOOLEAN, masked : BOOLEAN, code : {7, 16, 64},
               size : Nat, keys : {{}}]
    BY <1>3, WebSocketAssumption DEF Header
  <2>2. {{}} \subseteq SUBSET Keys
    OBVIOUS
  <2> QED  BY ONLY <2>1, <2>2 DEF Heads
<1> QED  BY <1>2, <1>3

LEMMA LengthType ==
    ASSUME NEW u \in AnyUnit, NEW size \in LengthIn(u)
    PROVE  size \in Nat
<1>1. MaxMedium \in Nat /\ MaxReceiveSize \in Nat
  BY WebSocketAssumption
<1>2. u.part = "length" => u.size \in Nat
  BY DEF AnyUnit, HeadUnits, LengthUnits, KeyUnits, Byte
<1> QED  BY <1>1, <1>2 DEF LengthIn

LEMMA KeyType ==
    ASSUME NEW u \in AnyUnit
    PROVE  KeyIn(u) \in SUBSET Keys
<1>1. u.part = "key" => u.keys \in SUBSET Keys
  BY DEF AnyUnit, HeadUnits, LengthUnits, KeyUnits, Byte
<1>2. {<<"garbage", 0>>} \in SUBSET Keys
  BY DEF Keys
<1> QED  BY <1>1, <1>2 DEF KeyIn

LEMMA DataType ==
    ASSUME NEW u \in AnyUnit
    PROVE  AsData(u) \in Byte
<1>1. u.part = "data" => u \in Byte
  BY DEF AnyUnit, HeadUnits, LengthUnits, KeyUnits, Byte
<1>2. u.part # "data" => u.part \in {"head", "length", "key", "request", "response"}
  BY DEF AnyUnit, HeadUnits, LengthUnits, KeyUnits, Byte
<1>3. CASE u.part = "data"
  BY <1>1, <1>3 DEF AsData
<1>4. CASE u.part # "data"
  <2>1. <<u.part, 0, 0>> \in Origins
    BY <1>2, <1>4 DEF Origins
  <2> QED  BY <1>4, <2>1 DEF AsData, Byte
<1> QED  BY <1>3, <1>4

--------------------------------------------------------------------------------
(* What goes onto a wire and comes off it.                                     *)

LEMMA TransmitType ==
    ASSUME DataTyped, NEW e \in Ends, NEW units \in Seq(AnyUnit), Transmit(e, units)
    PROVE  wire' \in [Ends -> Seq(AnyUnit)]
<1>1. Other(e) \in Ends
  BY DEF Other, Ends
<1>2. wire[Other(e)] \in Seq(AnyUnit)
  BY <1>1 DEF DataTyped
<1>3. wire[Other(e)] \o units \in Seq(AnyUnit) /\ <<>> \in Seq(AnyUnit)
  BY <1>2, ConcatProperties
<1>4. wire' = [wire EXCEPT ![Other(e)] = IF socket[Other(e)] = "closed" THEN <<>>
                                         ELSE wire[Other(e)] \o units]
  BY DEF Transmit
<1> QED  BY <1>1, <1>3, <1>4 DEF DataTyped

LEMMA ReadsType ==
    ASSUME DataTyped, NEW e \in Ends, NEW n \in Nat, Reads(e, n)
    PROVE  /\ wire' \in [Ends -> Seq(AnyUnit)]
           /\ \A i \in 1..n : wire[e][i] \in AnyUnit
<1>1. wire[e] \in Seq(AnyUnit) /\ Len(wire[e]) \in Nat /\ n \in 0..Len(wire[e])
  BY LenProperties DEF DataTyped, Reads
<1>2. SubSeq(wire[e], n + 1, Len(wire[e])) \in Seq(AnyUnit)
  BY <1>1, PieceType
<1>3. wire' = [wire EXCEPT ![e] = SubSeq(wire[e], n + 1, Len(wire[e]))]
  BY DEF Reads
<1>4. \A i \in 1..n : wire[e][i] \in AnyUnit
  BY <1>1, ElementOfSeq
<1> QED  BY <1>2, <1>3, <1>4 DEF DataTyped

LEMMA KeysType ==
    ASSUME NEW e \in Ends
    PROVE  NextKeys(e) \subseteq SUBSET Keys /\ FrameKeys(e) \subseteq SUBSET Keys
<1>1. MaskKeys \subseteq Nat
  BY WebSocketAssumption
<1>2. \A k \in MaskKeys : {<<e, k>>} \in SUBSET Keys
  BY <1>1 DEF Keys
<1>3. NextKeys(e) \subseteq SUBSET Keys
  BY <1>2 DEF NextKeys
<1> QED  BY <1>3 DEF FrameKeys, NoKeys

LEMMA SendsType ==
    ASSUME TypeOK, DataTyped, NEW e \in Ends, NEW f \in Frames,
           NEW choices \in SUBSET SUBSET Keys, NEW next \in {"loop", "answer", "leave"},
           Sends(e, f, choices, next)
    PROVE  /\ wire' \in [Ends -> Seq(AnyUnit)]
           /\ at' \in [Ends -> {"loop", "answer", "leave"}]
           /\ cut' \in [Ends -> BOOLEAN]
<1>1. PICK keys \in choices :
        \/ /\ Transmit(e, Units(f, keys))
           /\ at' = [at EXCEPT ![e] = next]
           /\ UNCHANGED cut
        \/ /\ \E n \in 0..Len(Units(f, keys)) - 1 : Transmit(e, SubSeq(Units(f, keys), 1, n))
           /\ \E to \in {"leave", next} : at' = [at EXCEPT ![e] = to]
           /\ cut' = [cut EXCEPT ![e] = TRUE]
  BY DEF Sends
<1>2. Units(f, keys) \in Seq(AnyUnit)
  BY UnitsType
<1>3. Len(Units(f, keys)) \in Nat
  BY <1>2, LenProperties
<1>4. wire' \in [Ends -> Seq(AnyUnit)]
  <2>1. CASE Transmit(e, Units(f, keys))
    BY <1>2, <2>1, TransmitType
  <2>2. ASSUME NEW n \in 0..Len(Units(f, keys)) - 1, Transmit(e, SubSeq(Units(f, keys), 1, n))
        PROVE  wire' \in [Ends -> Seq(AnyUnit)]
    <3>1. n \in 0..Len(Units(f, keys))
      BY <1>3
    <3>2. SubSeq(Units(f, keys), 1, n) \in Seq(AnyUnit)
      BY <1>2, <3>1, PieceType
    <3> QED  BY <2>2, <3>2, TransmitType
  <2> QED  BY <1>1, <2>1, <2>2
<1>5. at \in [Ends -> {"loop", "answer", "leave"}] /\ cut \in [Ends -> BOOLEAN]
  BY DEF TypeOK
<1> QED  BY <1>1, <1>4, <1>5

\* A frame of a script.
LEMMA ScriptFrame ==
    ASSUME NEW e \in Ends, NEW n \in 1..Len(Script[e])
    PROVE  [op |-> Script[e][n].op, final |-> Script[e][n].final,
            data |-> Payload(e, n, Script[e][n].size)] \in Frames
<1>1. Script[e][n] \in [op : Opcodes, final : BOOLEAN, size : Nat] /\ n \in Nat
  <2>1. Script[e] \in Seq([op : Opcodes, final : BOOLEAN, size : Nat])
    BY WebSocketAssumption
  <2>2. n \in Nat
    BY <2>1, LenProperties
  <2> QED  BY <2>1, <2>2, ElementOfSeq
<1>2. Payload(e, n, Script[e][n].size) \in Seq(Byte)
  <2> DEFINE size == Script[e][n].size
  <2>1. size \in Nat
    BY <1>1
  <2>2. \A i \in 1..size : [part |-> "data", of |-> <<e, n, i>>, keys |-> {}] \in Byte
    BY <1>1, <2>1 DEF Byte, Origins
  <2>3. Payload(e, n, size) \in [1..size -> Byte]
    BY <2>2 DEF Payload
  <2> QED  BY <2>1, <2>3, SeqDef
<1> QED  BY <1>1, <1>2 DEF Frames

\* Whatever an application sends is a frame, with keys of its end.
LEMMA SentFrame ==
    ASSUME TypeOK, DataTyped, NEW e \in Ends, Speaks(e) \/ Answers(e) \/ disconnect(e)
    PROVE  \E f \in Frames, choices \in SUBSET SUBSET Keys, next \in {"loop", "answer", "leave"} :
              Sends(e, f, choices, next)
<1>1. CASE Speaks(e)
  <2> DEFINE n == spoken[e] + 1
             f == [op |-> Script[e][n].op, final |-> Script[e][n].final,
                   data |-> Payload(e, n, Script[e][n].size)]
  <2>1. Sends(e, f, FrameKeys(e), at[e]) /\ at[e] \in {"loop", "answer", "leave"}
    BY <1>1 DEF Speaks, TypeOK
  <2>2. n \in 1..Len(Script[e])
    BY <1>1, WebSocketAssumption, LenProperties DEF Speaks, TypeOK
  <2>3. f \in Frames
    BY <2>2, ScriptFrame
  <2> QED  BY <2>1, <2>3, KeysType
<1>2. CASE Answers(e)
  <2>1. Sends(e, [frame[e] EXCEPT !.op = "Pong"], FrameKeys(e), "loop")
    BY <1>2 DEF Answers
  <2>2. [frame[e] EXCEPT !.op = "Pong"] \in Frames
    BY DEF DataTyped, Frames, Opcodes
  <2> QED  BY <2>1, <2>2, KeysType
<1>3. CASE disconnect(e)
  <2>1. Sends(e, [NoFrame EXCEPT !.op = "Disconnect"], NextKeys(e), "leave")
    BY <1>3 DEF disconnect
  <2>2. NoFrame \in Frames /\ "Disconnect" \in Opcodes
    BY DEF NoFrame, Frames, Opcodes
  <2>3. [NoFrame EXCEPT !.op = "Disconnect"] \in Frames
    BY <2>2 DEF Frames
  <2> QED  BY <2>1, <2>3, KeysType
<1> QED  BY <1>1, <1>2, <1>3

--------------------------------------------------------------------------------
(* The inductive invariant.                                                    *)

WebInv == TypeOK /\ DataTyped /\ WithinLimit

LEMMA WebInit == Init => WebInv
<1> SUFFICES ASSUME Init PROVE WebInv
  OBVIOUS
<1>1. NoHead \in Heads
  BY DEF NoHead, Heads, Opcodes
<1>2. NoFrame \in Frames /\ <<>> \in Seq(AnyUnit)
  BY DEF NoFrame, Frames, Opcodes
<1>3. \A e \in Ends : Len(Script[e]) \in Nat
  BY WebSocketAssumption, LenProperties
<1>4. TypeOK
  BY <1>1, <1>3 DEF Init, TypeOK
<1>5. DataTyped
  BY <1>2 DEF Init, DataTyped
<1>6. WithinLimit
  BY DEF Init, WithinLimit
<1> QED  BY <1>4, <1>5, <1>6 DEF WebInv

\* The handshake does not touch frames.
LEMMA HandshakeKeeps ==
    ASSUME WebInv, Handshake
    PROVE  WebInv'
<1>1. TypeOK /\ DataTyped /\ WithinLimit
  BY DEF WebInv
<1>2. Request \in Seq(AnyUnit) /\ Response \in Seq(AnyUnit) /\ <<>> \in Seq(AnyUnit)
  <2>1. [part |-> "request"] \in AnyUnit /\ [part |-> "response"] \in AnyUnit
    BY DEF AnyUnit
  <2> QED  BY <2>1 DEF Request, Response
<1>3. {"client", "server"} = Ends
  BY DEF Ends
<1>4. UNCHANGED <<reading, spoken, told, cut>>
  BY DEF Handshake, ClientConnects, ServerAccepts, ServerThrows, ClientOpens, ConnectFails,
         endpoint
<1>5. /\ socket' \in [Ends -> {"down", "handshaking", "open", "closed"}]
      /\ at' \in [Ends -> {"loop", "answer", "leave"}]
      /\ swallowed' \in [Ends -> BOOLEAN]
  <2>1. /\ socket \in [Ends -> {"down", "handshaking", "open", "closed"}]
        /\ at \in [Ends -> {"loop", "answer", "leave"}]
        /\ swallowed \in [Ends -> BOOLEAN]
    BY <1>1 DEF TypeOK
  <2>2. socket' \in [Ends -> {"down", "handshaking", "open", "closed"}]
    BY <2>1 DEF Handshake, ClientConnects, ServerAccepts, ServerThrows, ClientOpens, ConnectFails
  <2>3. at' \in [Ends -> {"loop", "answer", "leave"}]
    BY <2>1 DEF Handshake, ClientConnects, ServerAccepts, ServerThrows, ClientOpens,
                ConnectFails, endpoint
  <2>4. swallowed' \in [Ends -> BOOLEAN]
    <3>1. CASE ServerAccepts
      <4>1. PICK n \in 1..Len(wire["server"]) : Takes("server", n)
        BY <3>1 DEF ServerAccepts
      <4>2. swallowed' = [swallowed EXCEPT !["server"] = n > 1]
        BY <4>1 DEF Takes
      <4>3. (n > 1) \in BOOLEAN
        OBVIOUS
      <4> QED  BY <2>1, <4>2, <4>3, Zenon
    <3>2. CASE ClientOpens
      <4>1. PICK n \in 1..Len(wire["client"]) : Takes("client", n)
        BY <3>2 DEF ClientOpens
      <4>2. swallowed' = [swallowed EXCEPT !["client"] = n > 1]
        BY <4>1 DEF Takes
      <4>3. (n > 1) \in BOOLEAN
        OBVIOUS
      <4> QED  BY <2>1, <4>2, <4>3, Zenon
    <3>3. CASE ClientConnects \/ ServerThrows \/ ConnectFails
      BY <2>1, <3>3 DEF ClientConnects, ServerThrows, ConnectFails
    <3> QED  BY <3>1, <3>2, <3>3 DEF Handshake
  <2> QED  BY <2>2, <2>3, <2>4
<1>6. wire' \in [Ends -> Seq(AnyUnit)]
  <2>1. CASE ClientConnects
    BY <1>1, <1>2, <1>3, <2>1, TransmitType DEF ClientConnects
  <2>2. CASE ServerAccepts
    <3>1. PICK n \in 1..Len(wire["server"]) :
            wire' = [wire EXCEPT !["server"] = SubSeq(@, n + 1, Len(@)),
                                 !["client"] = IF socket["client"] = "closed" THEN <<>>
                                               ELSE @ \o Response]
      BY <2>2 DEF ServerAccepts
    <3>2. wire["server"] \in Seq(AnyUnit) /\ wire["client"] \in Seq(AnyUnit)
      BY <1>1, <1>3 DEF DataTyped
    <3>3. SubSeq(wire["server"], n + 1, Len(wire["server"])) \in Seq(AnyUnit)
      BY <3>2, LenProperties, PieceType
    <3>4. wire["client"] \o Response \in Seq(AnyUnit)
      BY <1>2, <3>2, ConcatProperties
    <3> QED  BY <1>1, <1>2, <1>3, <3>1, <3>3, <3>4 DEF DataTyped
  <2>3. CASE ClientOpens
    <3>1. PICK n \in 1..Len(wire["client"]) :
            wire' = [wire EXCEPT !["client"] = SubSeq(@, n + 1, Len(@))]
      BY <2>3 DEF ClientOpens
    <3>2. wire["client"] \in Seq(AnyUnit)
      BY <1>1, <1>3 DEF DataTyped
    <3>3. SubSeq(wire["client"], n + 1, Len(wire["client"])) \in Seq(AnyUnit)
      BY <3>2, LenProperties, PieceType
    <3> QED  BY <1>1, <1>3, <3>1, <3>3 DEF DataTyped
  <2>4. CASE ServerThrows \/ ConnectFails
    BY <1>1, <2>4 DEF ServerThrows, ConnectFails, DataTyped
  <2> QED  BY <2>1, <2>2, <2>3, <2>4 DEF Handshake
<1>7. TypeOK' /\ DataTyped' /\ WithinLimit'
  BY <1>1, <1>4, <1>5, <1>6 DEF TypeOK, DataTyped, WithinLimit, reading
<1> QED  BY <1>7 DEF WebInv

\* A frame that is sent leaves the receiving side of its sender alone.
LEMMA SendKeeps ==
    ASSUME WebInv, NEW e \in Ends, Speaks(e) \/ Answers(e) \/ disconnect(e)
    PROVE  WebInv'
<1>1. TypeOK /\ DataTyped /\ WithinLimit
  BY DEF WebInv
<1>2. UNCHANGED <<told, reading, swallowed>>
  BY DEF Speaks, Answers, disconnect
<1>3. socket' \in [Ends -> {"down", "handshaking", "open", "closed"}]
  BY <1>1 DEF Speaks, Answers, disconnect, TypeOK
<1>4. spoken' \in [Ends -> Nat] /\ \A x \in Ends : spoken'[x] <= Len(Script[x])
  <2>1. CASE Speaks(e)
    <3>1. spoken' = [spoken EXCEPT ![e] = @ + 1] /\ spoken[e] < Len(Script[e])
      BY <2>1 DEF Speaks
    <3>2. Len(Script[e]) \in Nat
      BY WebSocketAssumption, LenProperties
    <3> QED  BY <1>1, <3>1, <3>2 DEF TypeOK
  <2>2. CASE Answers(e) \/ disconnect(e)
    BY <1>1, <2>2 DEF Answers, disconnect, TypeOK
  <2> QED  BY <2>1, <2>2
<1>5. \E f \in Frames, choices \in SUBSET SUBSET Keys, next \in {"loop", "answer", "leave"} :
        Sends(e, f, choices, next)
  BY <1>1, SentFrame
<1>6. /\ wire' \in [Ends -> Seq(AnyUnit)]
      /\ at' \in [Ends -> {"loop", "answer", "leave"}]
      /\ cut' \in [Ends -> BOOLEAN]
  BY <1>1, <1>5, SendsType
<1>7. TypeOK' /\ DataTyped' /\ WithinLimit'
  BY <1>1, <1>2, <1>3, <1>4, <1>6 DEF TypeOK, DataTyped, WithinLimit, reading
<1> QED  BY <1>7 DEF WebInv

\* A receive that is over has nothing in its locals.
LEMMA ReturnsKeeps ==
    ASSUME TypeOK, WithinLimit, NEW e \in Ends, Returns(e)
    PROVE  /\ rx' \in [Ends -> {"head", "length", "key", "payload"}]
           /\ head' \in [Ends -> Heads]
           /\ \A x \in Ends : /\ rx'[x] = "length" => head'[x].code # 7
                              /\ rx'[x] = "key" => head'[x].masked
           /\ WithinLimit'
<1>1. NoHead \in Heads
  BY DEF NoHead, Heads, Opcodes
<1>2. rx' = [rx EXCEPT ![e] = "head"] /\ head' = [head EXCEPT ![e] = NoHead]
  BY DEF Returns
<1> QED  BY <1>1, <1>2 DEF TypeOK, WithinLimit

LEMMA FailsKeeps ==
    ASSUME TypeOK, WithinLimit, NEW e \in Ends, Fails(e)
    PROVE  /\ rx' \in [Ends -> {"head", "length", "key", "payload"}]
           /\ head' \in [Ends -> Heads]
           /\ \A x \in Ends : /\ rx'[x] = "length" => head'[x].code # 7
                              /\ rx'[x] = "key" => head'[x].masked
           /\ WithinLimit'
           /\ at' \in [Ends -> {"loop", "answer", "leave"}]
           /\ told' \in [Ends -> BOOLEAN]
<1>1. /\ Returns(e) /\ told' = [told EXCEPT ![e] = TRUE]
      /\ \E to \in {"leave", "loop"} : at' = [at EXCEPT ![e] = to]
  BY DEF Fails
<1>2. at' \in [Ends -> {"loop", "answer", "leave"}] /\ told' \in [Ends -> BOOLEAN]
  BY <1>1 DEF TypeOK
<1> QED  BY <1>1, <1>2, ReturnsKeeps

\* Once the length is known, no limit is passed.
LEMMA HasLengthKeeps ==
    ASSUME TypeOK, WithinLimit, NEW e \in Ends, NEW h \in Heads, HasLength(e, h)
    PROVE  /\ rx' \in [Ends -> {"head", "length", "key", "payload"}]
           /\ head' \in [Ends -> Heads]
           /\ \A x \in Ends : /\ rx'[x] = "length" => head'[x].code # 7
                              /\ rx'[x] = "key" => head'[x].masked
           /\ WithinLimit'
           /\ at' \in [Ends -> {"loop", "answer", "leave"}]
           /\ told' \in [Ends -> BOOLEAN]
           /\ UNCHANGED frame
<1>1. CASE Fails(e)
  BY <1>1, FailsKeeps DEF HasLength
<1>2. CASE ~TooLarge(h.size) /\ head' = [head EXCEPT ![e] = h]
           /\ rx' = [rx EXCEPT ![e] = AfterLength(h.masked)] /\ UNCHANGED <<at, told>>
  <2>1. h.size \in Nat /\ MaxReceiveSize \in Nat
    BY WebSocketAssumption DEF Heads
  <2>2. MaxReceiveSize # 0 => h.size <= MaxReceiveSize
    BY <1>2, <2>1 DEF TooLarge
  <2>3. \/ AfterLength(h.masked) = "key" /\ h.masked
        \/ AfterLength(h.masked) = "payload"
    BY DEF AfterLength
  <2>4. UNCHANGED frame
    BY DEF HasLength
  <2>5. /\ rx' \in [Ends -> {"head", "length", "key", "payload"}]
        /\ head' \in [Ends -> Heads]
        /\ at' \in [Ends -> {"loop", "answer", "leave"}] /\ told' \in [Ends -> BOOLEAN]
    BY <1>2, <2>3 DEF TypeOK
  <2>6. /\ \A x \in Ends \ {e} : rx'[x] = rx[x] /\ head'[x] = head[x]
        /\ rx'[e] = AfterLength(h.masked) /\ head'[e] = h
    BY <1>2 DEF TypeOK
  <2>7. \A x \in Ends : /\ rx'[x] = "length" => head'[x].code # 7
                        /\ rx'[x] = "key" => head'[x].masked
    BY <2>3, <2>6 DEF TypeOK
  <2>8. WithinLimit'
    BY <2>2, <2>6 DEF WithinLimit
  <2> QED  BY <2>4, <2>5, <2>7, <2>8
<1> QED  BY <1>1, <1>2 DEF HasLength

\* WebFrame::receive, part by part.
LEMMA ReceiveKeeps ==
    ASSUME WebInv, NEW e \in Ends, Receives(e)
    PROVE  WebInv'
<1>1. TypeOK /\ DataTyped /\ WithinLimit
  BY DEF WebInv
<1>2. UNCHANGED <<socket, spoken, cut, swallowed>>
  BY DEF Receives, ReceiveHead, ReceiveLength, ReceiveKey, ReceivePayload, ReceiveFails, endpoint
<1>3. head[e] \in Heads /\ at \in [Ends -> {"loop", "answer", "leave"}]
      /\ told \in [Ends -> BOOLEAN]
  BY <1>1 DEF TypeOK
<1>4. /\ wire' \in [Ends -> Seq(AnyUnit)] /\ frame' \in [Ends -> Frames]
      /\ at' \in [Ends -> {"loop", "answer", "leave"}] /\ told' \in [Ends -> BOOLEAN]
      /\ rx' \in [Ends -> {"head", "length", "key", "payload"}]
      /\ head' \in [Ends -> Heads]
      /\ \A x \in Ends : /\ rx'[x] = "length" => head'[x].code # 7
                         /\ rx'[x] = "key" => head'[x].masked
      /\ WithinLimit'
  <2>1. CASE ReceiveHead(e)
    <3>1. wire' \in [Ends -> Seq(AnyUnit)] /\ wire[e][1] \in AnyUnit
      BY <1>1, <2>1, ReadsType DEF ReceiveHead
    <3>2. PICK h \in Header(wire[e][1]) :
            \/ Fails(e) /\ UNCHANGED <<frame, got>>
            \/ HasLength(e, h)
            \/ /\ h.code # 7
               /\ rx' = [rx EXCEPT ![e] = "length"]
               /\ head' = [head EXCEPT ![e] = h]
               /\ UNCHANGED <<at, told, frame, got>>
      BY <2>1 DEF ReceiveHead
    <3>3. h \in Heads
      BY <3>1, HeaderType
    <3>4. CASE Fails(e) /\ UNCHANGED <<frame, got>>
      BY <1>1, <3>1, <3>4, FailsKeeps DEF DataTyped
    <3>5. CASE HasLength(e, h)
      BY <1>1, <3>1, <3>3, <3>5, HasLengthKeeps DEF DataTyped
    <3>6. CASE /\ h.code # 7
               /\ rx' = [rx EXCEPT ![e] = "length"]
               /\ head' = [head EXCEPT ![e] = h]
               /\ UNCHANGED <<at, told, frame, got>>
      BY <1>1, <3>1, <3>3, <3>6 DEF TypeOK, DataTyped, WithinLimit
    <3> QED  BY <3>2, <3>4, <3>5, <3>6
  <2>2. CASE ReceiveLength(e)
    <3>1. wire' \in [Ends -> Seq(AnyUnit)] /\ wire[e][1] \in AnyUnit
      BY <1>1, <2>2, ReadsType DEF ReceiveLength
    <3>2. PICK size \in LengthIn(wire[e][1]) : HasLength(e, [head[e] EXCEPT !.size = size])
      BY <2>2 DEF ReceiveLength
    <3>3. size \in Nat
      BY <3>1, LengthType
    <3>4. [head[e] EXCEPT !.size = size] \in Heads
      BY <1>3, <3>3 DEF Heads
    <3> QED  BY <1>1, <3>1, <3>2, <3>4, HasLengthKeeps DEF DataTyped
  <2>3. CASE ReceiveKey(e)
    <3>1. wire' \in [Ends -> Seq(AnyUnit)] /\ wire[e][1] \in AnyUnit
      BY <1>1, <2>3, ReadsType DEF ReceiveKey
    <3>2. KeyIn(wire[e][1]) \in SUBSET Keys
      BY <3>1, KeyType
    <3>3. /\ head' = [head EXCEPT ![e] = [head[e] EXCEPT !.keys = KeyIn(wire[e][1])]]
          /\ rx' = [rx EXCEPT ![e] = "payload"] /\ rx[e] = "key"
          /\ UNCHANGED <<at, told, frame>>
      BY <2>3 DEF ReceiveKey, endpoint
    <3>4. /\ [head[e] EXCEPT !.keys = KeyIn(wire[e][1])] \in Heads
          /\ [head[e] EXCEPT !.keys = KeyIn(wire[e][1])].size = head[e].size
      BY <1>3, <3>2 DEF Heads
    <3> HIDE DEF KeyIn
    <3> QED  BY <1>1, <3>1, <3>3, <3>4 DEF TypeOK, DataTyped, WithinLimit
  <2>4. CASE ReceivePayload(e)
    <3> DEFINE n == head[e].size
               data == Masked([i \in 1..n |-> AsData(wire[e][i])], head[e].keys)
    <3>1. n \in Nat /\ head[e].keys \in SUBSET Keys /\ head[e].op \in Opcodes
          /\ head[e].final \in BOOLEAN
      BY <1>3 DEF Heads
    <3>2. wire' \in [Ends -> Seq(AnyUnit)] /\ \A i \in 1..n : wire[e][i] \in AnyUnit
      BY <1>1, <2>4, <3>1, ReadsType DEF ReceivePayload
    <3>3. [i \in 1..n |-> AsData(wire[e][i])] \in [1..n -> Byte]
      BY <3>2, DataType
    <3>4. data \in Seq(Byte)
      <4> DEFINE read == [i \in 1..n |-> AsData(wire[e][i])]
      <4>1. read \in Seq(Byte)
        BY <3>1, <3>3, SeqDef
      <4> HIDE DEF read
      <4>2. Masked(read, head[e].keys) \in Seq(Byte)
        BY <3>1, <4>1, MaskedType
      <4> QED  BY <4>2 DEF read
    <3> HIDE DEF data
    <3>5. [op |-> head[e].op, final |-> head[e].final, data |-> data] \in Frames
      BY <3>1, <3>4 DEF Frames
    <3>6. /\ frame' = [frame EXCEPT ![e] =
                         [op |-> head[e].op, final |-> head[e].final, data |-> data]]
          /\ at' = [at EXCEPT ![e] = Reaction(head[e].op)] /\ UNCHANGED told /\ Returns(e)
      BY <2>4 DEF ReceivePayload, Delivers, data
    <3>7. Reaction(head[e].op) \in {"loop", "answer", "leave"}
      BY DEF Reaction
    <3> QED  BY <1>1, <1>3, <3>2, <3>5, <3>6, <3>7, ReturnsKeeps DEF DataTyped
  <2>5. CASE ReceiveFails(e)
    <3>1. Fails(e) /\ UNCHANGED <<wire, frame>>
      BY <2>5 DEF ReceiveFails
    <3> QED  BY <1>1, <3>1, FailsKeeps DEF DataTyped
  <2> QED  BY <2>1, <2>2, <2>3, <2>4, <2>5 DEF Receives
<1>5. TypeOK' /\ DataTyped'
  BY <1>1, <1>2, <1>4 DEF TypeOK, DataTyped
<1> QED  BY <1>4, <1>5 DEF WebInv

LEMMA WebNext == WebInv /\ [Next]_vars => WebInv'
<1> SUFFICES ASSUME WebInv, [Next]_vars PROVE WebInv'
  OBVIOUS
<1>1. CASE Handshake
  BY <1>1, HandshakeKeeps
<1>2. ASSUME NEW e \in Ends, Application(e) PROVE WebInv'
  BY <1>2, SendKeeps, ReceiveKeeps DEF Application
<1>3. ASSUME NEW e \in Ends, Dies(e) \/ Reset(e) PROVE WebInv'
  <2>1. TypeOK /\ DataTyped /\ WithinLimit
    BY DEF WebInv
  <2>2. UNCHANGED <<endpoint, reading, cut, swallowed>>
    BY <1>3 DEF Dies, Reset
  <2>3. socket' \in [Ends -> {"down", "handshaking", "open", "closed"}]
    BY <1>3, <2>1 DEF Dies, Reset, TypeOK
  <2>4. wire' \in [Ends -> Seq(AnyUnit)]
    <3>1. <<>> \in Seq(AnyUnit)
      OBVIOUS
    <3> QED  BY <1>3, <2>1, <3>1 DEF Dies, Reset, DataTyped
  <2>5. TypeOK' /\ DataTyped' /\ WithinLimit'
    BY <2>1, <2>2, <2>3, <2>4 DEF TypeOK, DataTyped, WithinLimit, endpoint, reading
  <2> QED  BY <2>5 DEF WebInv
<1>4. CASE UNCHANGED vars
  BY <1>4 DEF WebInv, TypeOK, DataTyped, WithinLimit, vars, endpoint, reading
<1> QED  BY <1>1, <1>2, <1>3, <1>4 DEF Next, Over

--------------------------------------------------------------------------------
(* The frames on a wire.                                                       *)

\* The parts of a frame's units; Units is one after the other.
FirstUnit(f, keys) ==
    [part |-> "head", op |-> f.op, final |-> f.final, masked |-> keys # {},
     code |-> LengthCode(Len(f.data)),
     size |-> IF LengthCode(Len(f.data)) = 7 THEN Len(f.data) ELSE 0]
LongPart(f) ==
    IF LengthCode(Len(f.data)) = 7 THEN <<>> ELSE <<[part |-> "length", size |-> Len(f.data)]>>
KeyPart(keys) == IF keys = {} THEN <<>> ELSE <<[part |-> "key", keys |-> keys]>>

\* What is unread of frame f when its receiver wants the given part.
Left(part, f, keys) ==
    CASE part = "length"  -> LongPart(f) \o (KeyPart(keys) \o Masked(f.data, keys))
      [] part = "key"     -> KeyPart(keys) \o Masked(f.data, keys)
      [] part = "payload" -> Masked(f.data, keys)

\* The locals of WebFrame::receive in the middle of frame f.
HeadOf(h, part, f, keys) ==
    /\ h.op = f.op /\ h.final = f.final /\ h.masked = (keys # {})
    /\ IF part = "length" THEN LengthCode(Len(f.data)) # 7 ELSE h.size = Len(f.data)
    /\ h.keys = IF part = "payload" THEN keys ELSE {}

\* rest[i] is what is on the wire from frame i on, masked with keys[i].
Serialized(frames, keys, rest) ==
    /\ keys \in [1..Len(frames) -> SUBSET Keys]
    /\ rest \in [1..Len(frames) + 1 -> Seq(AnyUnit)]
    /\ rest[Len(frames) + 1] = <<>>
    /\ \A i \in 1..Len(frames) : rest[i] = Units(frames[i], keys[i]) \o rest[i + 1]

Waiting(e) == socket[e] \in {"down", "handshaking"}
Attends(e) == socket[e] # "closed" /\ at[e] # "leave"
Greeting(e) == IF is_client(e) THEN Response ELSE Request

\* The connection was reset: no more arrives.
Lost(e) == socket[Other(e)] = "closed" /\ wire[e] = <<>>

\* What is on the wire to e.
Unread(e, keys, rest) ==
    LET frames == sent[Other(e)]
        n == Len(got[e]) + 1
    IN  CASE Waiting(e) ->
               wire[e] = IF socket[Other(e)] = "down" THEN <<>> ELSE Greeting(e) \o rest[1]
          [] ~Waiting(e) /\ rx[e] = "head" -> wire[e] = rest[n]
          [] ~Waiting(e) /\ rx[e] # "head" ->
               /\ n <= Len(frames)
               /\ HeadOf(head[e], rx[e], frames[n], keys[n])
               /\ wire[e] = Left(rx[e], frames[n], keys[n]) \o rest[n + 1]

\* Everything that got and sent hold is a frame.
HistoryTyped == got \in [Ends -> Seq(Frames)] /\ sent \in [Ends -> Seq(Frames)]

\* What e received is what the other end sent first.
Prefixed(e) ==
    /\ Len(got[e]) <= Len(sent[Other(e)])
    /\ \A i \in 1..Len(got[e]) : got[e][i] = sent[Other(e)][i]

\* The frame of which only the payload is unread is the next one.
Announced(e) ==
    /\ Len(got[e]) < Len(sent[Other(e)])
    /\ LET f == sent[Other(e)][Len(got[e]) + 1]
       IN  head[e].op = f.op /\ head[e].final = f.final /\ head[e].size = Len(f.data)

Chained(e) == \E keys, rest : Serialized(sent[Other(e)], keys, rest) /\ Unread(e, keys, rest)

Intact(e) ==
    ~cut[Other(e)] /\ ~swallowed[e] /\ ~told[e] =>
        /\ Prefixed(e)
        /\ rx[e] = "payload" => Announced(e)
        /\ Attends(e) => Lost(e) \/ Chained(e)

\* Before its handshake is over, an end has neither sent nor received frames.
Phases ==
    /\ socket["client"] = "down" => socket["server"] = "down"
    /\ socket["server"] # "handshaking"
    /\ socket["server"] = "down" =>
          /\ wire["client"] = <<>>
          /\ socket["client"] = "open" => at["client"] = "leave"
    /\ \A e \in Ends : Waiting(e) =>
          /\ sent[e] = <<>> /\ got[e] = <<>>
          /\ rx[e] = "head" /\ at[e] = "loop" /\ ~swallowed[e]

FramesInv == WebInv /\ HistoryTyped /\ Phases /\ \A e \in Ends : Intact(e)

--------------------------------------------------------------------------------
(* Frames in pieces.                                                           *)

LEMMA Both ==
    ASSUME NEW e \in Ends
    PROVE  /\ Other(e) \in Ends /\ Other(e) # e /\ Other(Other(e)) = e
           /\ \A x \in Ends : x = e \/ x = Other(e)
  BY DEF Ends, Other

LEMMA PartTypes ==
    ASSUME NEW f \in Frames, NEW keys \in SUBSET Keys
    PROVE  /\ FirstUnit(f, keys) \in HeadUnits /\ FirstUnit(f, keys) \in AnyUnit
           /\ LongPart(f) \in Seq(AnyUnit) /\ KeyPart(keys) \in Seq(AnyUnit)
           /\ Masked(f.data, keys) \in Seq(Byte) /\ Masked(f.data, keys) \in Seq(AnyUnit)
           /\ Len(Masked(f.data, keys)) = Len(f.data) /\ Len(f.data) \in Nat
<1>1. Len(f.data) \in Nat /\ f.data \in Seq(Byte) /\ f.op \in Opcodes /\ f.final \in BOOLEAN
      /\ DOMAIN f.data = 1..Len(f.data)
  BY LenProperties DEF Frames
<1>2. FirstUnit(f, keys) \in HeadUnits
  BY <1>1 DEF FirstUnit, HeadUnits, LengthCode
<1>3. LongPart(f) \in Seq(AnyUnit)
  <2>1. [part |-> "length", size |-> Len(f.data)] \in AnyUnit
    BY <1>1 DEF AnyUnit, LengthUnits
  <2> QED  BY <2>1 DEF LongPart
<1>4. KeyPart(keys) \in Seq(AnyUnit)
  <2>1. [part |-> "key", keys |-> keys] \in AnyUnit
    BY DEF AnyUnit, KeyUnits
  <2> QED  BY <2>1 DEF KeyPart
<1>5. Masked(f.data, keys) \in Seq(Byte)
  BY <1>1, MaskedType
<1>6. DOMAIN Masked(f.data, keys) = 1..Len(f.data)
  BY <1>1 DEF Masked
<1>7. Len(Masked(f.data, keys)) = Len(f.data)
  BY <1>1, <1>5, <1>6, LenProperties
<1>8. FirstUnit(f, keys) \in AnyUnit
  BY <1>2 DEF AnyUnit
<1> QED  BY <1>1, <1>2, <1>3, <1>4, <1>5, <1>7, <1>8, ByteIsUnit

LEMMA LeftType ==
    ASSUME NEW f \in Frames, NEW keys \in SUBSET Keys, NEW part \in {"length", "key", "payload"}
    PROVE  Left(part, f, keys) \in Seq(AnyUnit)
<1>1. /\ LongPart(f) \in Seq(AnyUnit) /\ KeyPart(keys) \in Seq(AnyUnit)
      /\ Masked(f.data, keys) \in Seq(AnyUnit)
  BY PartTypes
<1>2. KeyPart(keys) \o Masked(f.data, keys) \in Seq(AnyUnit)
  BY <1>1, ConcatProperties
<1>3. LongPart(f) \o (KeyPart(keys) \o Masked(f.data, keys)) \in Seq(AnyUnit)
  BY <1>1, <1>2, ConcatProperties
<1> QED  BY <1>1, <1>2, <1>3 DEF Left

LEMMA UnitsSplit ==
    ASSUME NEW f \in Frames, NEW keys \in SUBSET Keys
    PROVE  Units(f, keys) = <<FirstUnit(f, keys)>> \o Left("length", f, keys)
<1> DEFINE first == <<FirstUnit(f, keys)>>
<1>1. /\ LongPart(f) \in Seq(AnyUnit) /\ KeyPart(keys) \in Seq(AnyUnit)
      /\ Masked(f.data, keys) \in Seq(AnyUnit) /\ FirstUnit(f, keys) \in AnyUnit
  BY PartTypes
<1>2. first \in Seq(AnyUnit)
  BY <1>1
<1>3. Units(f, keys) = first \o LongPart(f) \o KeyPart(keys) \o Masked(f.data, keys)
  BY DEF Units, FirstUnit, LongPart, KeyPart
<1> HIDE DEF first
<1>4. KeyPart(keys) \o Masked(f.data, keys) \in Seq(AnyUnit) /\ first \o LongPart(f) \in Seq(AnyUnit)
  BY <1>1, <1>2, ConcatProperties
<1>5. Units(f, keys) = (first \o LongPart(f)) \o (KeyPart(keys) \o Masked(f.data, keys))
  BY <1>1, <1>3, <1>4, ConcatAssociative
<1>6. @ = first \o (LongPart(f) \o (KeyPart(keys) \o Masked(f.data, keys)))
  BY <1>1, <1>2, <1>4, ConcatAssociative
<1> QED  BY <1>5, <1>6 DEF Left, first

\* Masking twice with one key gives the data back.
LEMMA MaskedTwice ==
    ASSUME NEW data \in Seq(Byte), NEW keys \in SUBSET Keys
    PROVE  Masked(Masked(data, keys), keys) = data
<1>1. Len(data) \in Nat /\ DOMAIN data = 1..Len(data)
  BY LenProperties
<1> DEFINE once == Masked(data, keys)
           twice == Masked(once, keys)
<1>2. once \in Seq(Byte) /\ twice \in Seq(Byte)
  BY MaskedType
<1>3. DOMAIN once = 1..Len(data) /\ DOMAIN twice = 1..Len(data)
  BY <1>1 DEF Masked
<1>4. ASSUME NEW i \in 1..Len(data) PROVE twice[i] = data[i]
  <2>1. data[i] \in Byte
    BY ElementOfSeq
  <2>2. once[i] = [data[i] EXCEPT !.keys = (@ \ keys) \cup (keys \ @)]
    BY <1>1 DEF Masked
  <2>3. twice[i] = [once[i] EXCEPT !.keys = (@ \ keys) \cup (keys \ @)]
    BY <1>3 DEF Masked
  <2> QED  BY <2>1, <2>2, <2>3 DEF Byte
<1>5. Len(twice) = Len(data)
  BY <1>1, <1>2, <1>3, LenProperties
<1> HIDE DEF twice
<1>6. twice = data
  BY <1>2, <1>4, <1>5, SeqEqual
<1> QED  BY <1>6 DEF twice

--------------------------------------------------------------------------------
(* Sequences that are cut.                                                     *)

\* What is behind the first part of a sequence.
LEMMA BehindPart ==
    ASSUME NEW S, NEW s \in Seq(S), NEW t \in Seq(S)
    PROVE  /\ SubSeq(s \o t, Len(s) + 1, Len(s \o t)) = t
           /\ \A i \in 1..Len(s) : (s \o t)[i] = s[i]
<1>1. /\ Len(s) \in Nat /\ Len(t) \in Nat /\ s \o t \in Seq(S) /\ Len(s \o t) = Len(s) + Len(t)
      /\ \A i \in 1..Len(s) + Len(t) : (s \o t)[i] = IF i <= Len(s) THEN s[i] ELSE t[i - Len(s)]
  BY ConcatProperties, LenProperties
<1> DEFINE tail == SubSeq(s \o t, Len(s) + 1, Len(s \o t))
<1>2. \A i \in Len(s) + 1..Len(s \o t) : (s \o t)[i] \in S
  <2>1. \A i \in Len(s) + 1..Len(s \o t) : i \in 1..Len(s \o t)
    BY <1>1
  <2> QED  BY <1>1, <2>1, ElementOfSeq
<1>a. Len(s) + 1 \in Int /\ Len(s \o t) \in Int
  BY <1>1
<1>3. /\ tail \in Seq(S)
      /\ Len(tail) = IF Len(s) + 1 <= Len(s \o t) THEN Len(s \o t) - (Len(s) + 1) + 1 ELSE 0
      /\ \A i \in 1..Len(s \o t) - (Len(s) + 1) + 1 : tail[i] = (s \o t)[Len(s) + 1 + i - 1]
  BY <1>2, <1>a, SubSeqProperties
<1> HIDE DEF tail
<1>4. Len(tail) = Len(t)
  BY <1>1, <1>3
<1>5. \A i \in 1..Len(t) : tail[i] = t[i]
  BY <1>1, <1>3
<1>6. tail = t
  BY <1>3, <1>4, <1>5, SeqEqual
<1>7. \A i \in 1..Len(s) : (s \o t)[i] = s[i]
  BY <1>1
<1> QED  BY <1>6, <1>7 DEF tail

LEMMA BehindFirst ==
    ASSUME NEW S, NEW u \in S, NEW t \in Seq(S)
    PROVE  /\ SubSeq(<<u>> \o t, 2, Len(<<u>> \o t)) = t
           /\ (<<u>> \o t)[1] = u
<1>1. <<u>> \in Seq(S) /\ Len(<<u>>) = 1 /\ <<u>>[1] = u
  OBVIOUS
<1>2. 1 \in 1..1 /\ 1 + 1 = 2
  OBVIOUS
<1> QED  BY <1>1, <1>2, BehindPart

\* A frame is appended to all that is on the wire.
Longer(frames, keys, rest, f, k) ==
    \E keys2, rest2 :
        /\ Serialized(Append(frames, f), keys2, rest2)
        /\ \A i \in 1..Len(frames) : keys2[i] = keys[i]
        /\ \A i \in 1..Len(frames) + 1 : rest2[i] = rest[i] \o Units(f, k)

LEMMA SerializedMore ==
    ASSUME NEW frames \in Seq(Frames), NEW keys, NEW rest, Serialized(frames, keys, rest),
           NEW f \in Frames, NEW k \in SUBSET Keys
    PROVE  Longer(frames, keys, rest, f, k)
<1> DEFINE n == Len(frames)
           more == Append(frames, f)
           keys2 == [i \in 1..n + 1 |-> IF i <= n THEN keys[i] ELSE k]
           rest2 == [i \in 1..n + 2 |-> IF i <= n + 1 THEN rest[i] \o Units(f, k) ELSE <<>>]
<1>1. n \in Nat /\ Len(more) = n + 1 /\ more \in Seq(Frames)
      /\ (\A i \in 1..n : more[i] = frames[i]) /\ more[n + 1] = f
  BY AppendProperties, LenProperties
<1>2. Units(f, k) \in Seq(AnyUnit) /\ <<>> \in Seq(AnyUnit)
  BY UnitsType
<1>3. /\ keys \in [1..n -> SUBSET Keys] /\ rest \in [1..n + 1 -> Seq(AnyUnit)]
      /\ rest[n + 1] = <<>>
      /\ \A i \in 1..n : rest[i] = Units(frames[i], keys[i]) \o rest[i + 1]
  BY DEF Serialized
<1> HIDE DEF n, more
<1>4. keys2 \in [1..n + 1 -> SUBSET Keys]
  BY <1>1, <1>3
<1>5. \A i \in 1..n + 1 : rest[i] \o Units(f, k) \in Seq(AnyUnit)
  BY <1>2, <1>3, ConcatProperties
<1>6. rest2 \in [1..n + 2 -> Seq(AnyUnit)] /\ rest2[n + 2] = <<>>
  BY <1>1, <1>2, <1>5
<1>7. ASSUME NEW i \in 1..n + 1
      PROVE  rest2[i] = Units(more[i], keys2[i]) \o rest2[i + 1]
  <2>1. rest2[i] = rest[i] \o Units(f, k)
    BY <1>1
  <2>2. CASE i = n + 1
    <3>1. rest2[i + 1] = <<>> /\ more[i] = f /\ keys2[i] = k
      BY <1>1, <2>2
    <3>2. rest2[i] = <<>> \o Units(f, k)
      BY <1>3, <2>1, <2>2
    <3> QED  BY <1>2, <3>1, <3>2, ConcatEmptySeq
  <2>3. CASE i \in 1..n
    <3>1. /\ more[i] = frames[i] /\ keys2[i] = keys[i]
          /\ rest2[i + 1] = rest[i + 1] \o Units(f, k) /\ i + 1 \in 1..n + 1
      BY <1>1, <2>3
    <3>2. frames[i] \in Frames /\ keys[i] \in SUBSET Keys
      BY <1>3, <2>3, ElementOfSeq DEF n
    <3>3. Units(frames[i], keys[i]) \in Seq(AnyUnit)
      BY <3>2, UnitsType
    <3>a. rest[i + 1] \in Seq(AnyUnit)
      BY <1>3, <3>1
    <3>4. \A s, t, u \in Seq(AnyUnit) : (s \o t) \o u = s \o (t \o u)
      BY ConcatAssociative
    <3>5. (Units(frames[i], keys[i]) \o rest[i + 1]) \o Units(f, k)
            = Units(frames[i], keys[i]) \o (rest[i + 1] \o Units(f, k))
      BY <1>2, <3>3, <3>a, <3>4, Zenon
    <3> QED  BY <1>3, <2>1, <2>3, <3>1, <3>5
  <2>4. i = n + 1 \/ i \in 1..n
    BY <1>1
  <2> QED  BY <2>2, <2>3, <2>4
<1>8. /\ \A i \in 1..n : keys2[i] = keys[i]
      /\ \A i \in 1..n + 1 : rest2[i] = rest[i] \o Units(f, k)
  BY <1>1
<1> HIDE DEF keys2, rest2
<1>9. (n + 1) + 1 = n + 2
  BY <1>1
<1>10. Serialized(more, keys2, rest2)
  BY <1>1, <1>4, <1>6, <1>7, <1>9 DEF Serialized
<1> QED  BY <1>8, <1>10 DEF n, more, Longer

--------------------------------------------------------------------------------
(* Steps that bring nothing to a receiver.                                     *)

\* What precedes stays what precedes when more is sent.
LEMMA StillPrefixed ==
    ASSUME NEW e \in Ends, HistoryTyped, Prefixed(e), got'[e] = got[e],
           \/ sent'[Other(e)] = sent[Other(e)]
           \/ \E f \in Frames : sent'[Other(e)] = Append(sent[Other(e)], f)
    PROVE  /\ Prefixed(e)'
           /\ Announced(e) /\ head'[e] = head[e] => Announced(e)'
<1>1. sent[Other(e)] \in Seq(Frames) /\ got[e] \in Seq(Frames)
  BY Both DEF HistoryTyped
<1>2. Len(sent[Other(e)]) \in Nat /\ Len(got[e]) \in Nat
  BY <1>1, LenProperties
<1>3. CASE sent'[Other(e)] = sent[Other(e)]
  BY <1>3 DEF Prefixed, Announced
<1>4. CASE \E f \in Frames : sent'[Other(e)] = Append(sent[Other(e)], f)
  <2>1. /\ Len(sent'[Other(e)]) = Len(sent[Other(e)]) + 1
        /\ \A i \in 1..Len(sent[Other(e)]) : sent'[Other(e)][i] = sent[Other(e)][i]
    BY <1>1, <1>4, AppendProperties
  <2>2. \A i \in 1..Len(got[e]) : i \in 1..Len(sent[Other(e)])
    BY <1>2 DEF Prefixed
  <2>3. Prefixed(e)'
    BY <1>2, <2>1, <2>2 DEF Prefixed
  <2>4. ASSUME Announced(e), head'[e] = head[e] PROVE Announced(e)'
    <3>1. Len(got[e]) + 1 \in 1..Len(sent[Other(e)])
      BY <1>2, <2>4 DEF Announced
    <3>2. sent'[Other(e)][Len(got[e]) + 1] = sent[Other(e)][Len(got[e]) + 1]
      BY <2>1, <3>1
    <3>3. Len(got[e]) < Len(sent'[Other(e)])
      BY <1>2, <2>1, <3>1
    <3> QED  BY <2>4, <3>2, <3>3 DEF Announced
  <2> QED  BY <2>3, <2>4
<1> QED  BY <1>3, <1>4

\* A receiver that will get nothing more, or has gone.
LEMMA DeafIntact ==
    ASSUME NEW e \in Ends, HistoryTyped, Intact(e), got'[e] = got[e],
           \/ sent'[Other(e)] = sent[Other(e)]
           \/ \E f \in Frames : sent'[Other(e)] = Append(sent[Other(e)], f),
           cut[Other(e)] => cut'[Other(e)], swallowed'[e] = swallowed[e], told[e] => told'[e],
           rx'[e] = "head" \/ (rx'[e] = rx[e] /\ head'[e] = head[e]),
           Attends(e)' => Lost(e)'
    PROVE  Intact(e)'
<1> SUFFICES ASSUME ~cut'[Other(e)], ~swallowed'[e], ~told'[e]
             PROVE  /\ Prefixed(e)'
                    /\ rx'[e] = "payload" => Announced(e)'
                    /\ Attends(e)' => Lost(e)' \/ Chained(e)'
  BY DEF Intact
<1>1. Prefixed(e) /\ (rx[e] = "payload" => Announced(e))
  BY DEF Intact
<1>2. Prefixed(e)' /\ (Announced(e) /\ head'[e] = head[e] => Announced(e)')
  BY <1>1, StillPrefixed
<1> QED  BY <1>1, <1>2

\* A receiver that the step does not concern.
LEMMA StillIntact ==
    ASSUME NEW e \in Ends, Intact(e), got'[e] = got[e], sent'[Other(e)] = sent[Other(e)],
           cut[Other(e)] => cut'[Other(e)], swallowed'[e] = swallowed[e], told[e] => told'[e],
           rx'[e] = rx[e], head'[e] = head[e], wire'[e] = wire[e],
           Attends(e)' => /\ Attends(e) /\ (Waiting(e)' <=> Waiting(e))
                          /\ Waiting(e) => (socket'[Other(e)] = "down" <=> socket[Other(e)] = "down"),
           socket[Other(e)] = "closed" => socket'[Other(e)] = "closed"
    PROVE  Intact(e)'
<1> SUFFICES ASSUME ~cut'[Other(e)], ~swallowed'[e], ~told'[e]
             PROVE  /\ Prefixed(e)'
                    /\ rx'[e] = "payload" => Announced(e)'
                    /\ Attends(e)' => Lost(e)' \/ Chained(e)'
  BY DEF Intact
<1>1. /\ Prefixed(e) /\ (rx[e] = "payload" => Announced(e))
      /\ Attends(e) => Lost(e) \/ Chained(e)
  BY DEF Intact
<1>2. Prefixed(e)' /\ (rx'[e] = "payload" => Announced(e)')
  BY <1>1 DEF Prefixed, Announced
<1>3. ASSUME Attends(e)' PROVE Lost(e)' \/ Chained(e)'
  <2>1. CASE Lost(e)
    BY <2>1 DEF Lost
  <2>2. CASE Chained(e)
    <3>1. PICK keys, rest : Serialized(sent[Other(e)], keys, rest) /\ Unread(e, keys, rest)
      BY <2>2 DEF Chained
    <3>2. Serialized(sent'[Other(e)], keys, rest)
      BY <3>1
    <3>4. CASE ~Waiting(e)
      <4>1. ~Waiting(e)'
        BY <1>3, <3>4
      <4>2. Unread(e, keys, rest)'
        BY <3>1, <3>4, <4>1 DEF Unread
      <4> QED  BY <3>2, <4>2 DEF Chained
    <3>5. Waiting(e) => Unread(e, keys, rest)'
      BY <1>3, <3>1 DEF Unread
    <3> QED  BY <3>2, <3>4, <3>5 DEF Chained
  <2> QED  BY <1>1, <1>3, <2>1, <2>2
<1> QED  BY <1>2, <1>3

--------------------------------------------------------------------------------
(* The sender.                                                                 *)

\* A frame that was sent whole is behind everything that is on the wire.
LEMMA UnreadMore ==
    ASSUME NEW e \in Ends, TypeOK, DataTyped, HistoryTyped, Prefixed(e),
           socket[Other(e)] \in {"handshaking", "open"}, socket'[Other(e)] # "down",
           socket'[e] = socket[e],
           rx'[e] = rx[e], head'[e] = head[e], got'[e] = got[e],
           NEW f \in Frames, NEW k \in SUBSET Keys, Chained(e),
           sent'[Other(e)] = Append(sent[Other(e)], f),
           wire'[e] = wire[e] \o Units(f, k)
    PROVE  Chained(e)'
<1> DEFINE o == Other(e)
           frames == sent[o]
           n == Len(got[e]) + 1
           u == Units(f, k)
<1>1. PICK keys, rest : Serialized(frames, keys, rest) /\ Unread(e, keys, rest)
  BY DEF Chained
<1>2. frames \in Seq(Frames) /\ got[e] \in Seq(Frames)
  BY Both DEF HistoryTyped
<1>3. Len(frames) \in Nat /\ Len(got[e]) \in Nat /\ n \in 1..Len(frames) + 1
  BY <1>2, LenProperties DEF Prefixed
<1>4. PICK keys2, rest2 :
        /\ Serialized(Append(frames, f), keys2, rest2)
        /\ \A i \in 1..Len(frames) : keys2[i] = keys[i]
        /\ \A i \in 1..Len(frames) + 1 : rest2[i] = rest[i] \o u
  <2> HIDE DEF frames
  <2>1. frames \in Seq(Frames) /\ Serialized(frames, keys, rest)
    BY <1>1, <1>2 DEF frames
  <2>2. Longer(frames, keys, rest, f, k)
    BY <2>1, SerializedMore
  <2> QED  BY <2>2 DEF Longer
<1>5. u \in Seq(AnyUnit) /\ rest \in [1..Len(frames) + 1 -> Seq(AnyUnit)]
      /\ keys \in [1..Len(frames) -> SUBSET Keys]
  BY <1>1, UnitsType DEF Serialized
<1>6. \A s, t, v \in Seq(AnyUnit) : (s \o t) \o v = s \o (t \o v)
  BY ConcatAssociative
<1>7. sent'[o] = Append(frames, f) /\ wire'[e] = wire[e] \o u
  OBVIOUS
<1>8. Waiting(e)' <=> Waiting(e)
  BY DEF Waiting
<1> HIDE DEF u, frames
<1>9. CASE Waiting(e)
  <2>1. wire[e] = Greeting(e) \o rest[1]
    BY <1>1, <1>9 DEF Unread
  <2>2. Greeting(e) \in Seq(AnyUnit)
    <3>1. [part |-> "request"] \in AnyUnit /\ [part |-> "response"] \in AnyUnit
      BY DEF AnyUnit
    <3> QED  BY <3>1 DEF Greeting, Request, Response
  <2>3. 1 \in 1..Len(frames) + 1
    BY <1>3
  <2>4. wire'[e] = Greeting(e) \o rest2[1]
    <3>1. rest[1] \in Seq(AnyUnit) /\ rest2[1] = rest[1] \o u
      BY <1>4, <1>5, <2>3
    <3>2. (Greeting(e) \o rest[1]) \o u = Greeting(e) \o (rest[1] \o u)
      BY <1>5, <1>6, <2>2, <3>1, Zenon
    <3> QED  BY <1>7, <2>1, <3>1, <3>2
  <2>5. Unread(e, keys2, rest2)'
    BY <1>8, <1>9, <2>4 DEF Unread
  <2> QED  BY <1>4, <1>7, <2>5 DEF Chained
<1>10. CASE ~Waiting(e) /\ rx[e] = "head"
  <2>1. wire[e] = rest[n]
    BY <1>1, <1>10 DEF Unread
  <2>2. wire'[e] = rest2[n]
    BY <1>3, <1>4, <1>7, <2>1
  <2>3. Unread(e, keys2, rest2)'
    BY <1>8, <1>10, <2>2 DEF Unread
  <2> QED  BY <1>4, <1>7, <2>3 DEF Chained
<1>11. CASE ~Waiting(e) /\ rx[e] # "head"
  <2>1. /\ n <= Len(frames)
        /\ HeadOf(head[e], rx[e], frames[n], keys[n])
        /\ wire[e] = Left(rx[e], frames[n], keys[n]) \o rest[n + 1]
    BY <1>1, <1>11 DEF Unread, frames
  <2>2. n \in 1..Len(frames) /\ n + 1 \in 1..Len(frames) + 1
    BY <1>3, <2>1
  <2>3. rx[e] \in {"length", "key", "payload"}
    BY <1>11 DEF TypeOK
  <2>4. frames[n] \in Frames /\ keys[n] \in SUBSET Keys /\ rest[n + 1] \in Seq(AnyUnit)
    BY <1>2, <1>5, <2>2, ElementOfSeq
  <2>5. Left(rx[e], frames[n], keys[n]) \in Seq(AnyUnit)
    BY <2>3, <2>4, LeftType
  <2>6. wire'[e] = Left(rx[e], frames[n], keys[n]) \o rest2[n + 1]
    <3> DEFINE left == Left(rx[e], frames[n], keys[n])
    <3>1. rest2[n + 1] = rest[n + 1] \o u
      BY <1>4, <2>2
    <3>2. left \in Seq(AnyUnit) /\ wire[e] = left \o rest[n + 1]
      BY <2>1, <2>5
    <3> HIDE DEF left
    <3>3. (left \o rest[n + 1]) \o u = left \o (rest[n + 1] \o u)
      BY <1>5, <1>6, <2>4, <3>2, Zenon
    <3>4. wire'[e] = left \o rest2[n + 1]
      BY <1>7, <3>1, <3>2, <3>3
    <3> QED  BY <3>4 DEF left
  <2>7. Len(Append(frames, f)) = Len(frames) + 1 /\ Append(frames, f)[n] = frames[n]
    BY <1>2, <2>2, AppendProperties
  <2>8. keys2[n] = keys[n] /\ n <= Len(sent'[o]) /\ sent'[o][n] = frames[n]
    BY <1>3, <1>4, <1>7, <2>2, <2>7
  <2>9. Unread(e, keys2, rest2)'
    <3> HIDE DEF Left, HeadOf
    <3> QED  BY <1>8, <1>11, <2>1, <2>6, <2>8 DEF Unread
  <2> QED  BY <1>4, <1>7, <2>9 DEF Chained
<1> QED  BY <1>9, <1>10, <1>11

\* What is sent and got are frames.
LEMMA HistoryKeeps ==
    ASSUME WebInv, WebInv', HistoryTyped, Next
    PROVE  HistoryTyped'
<1>1. TypeOK /\ DataTyped /\ DataTyped'
  BY DEF WebInv
<1>2. ASSUME UNCHANGED <<got, sent>> PROVE HistoryTyped'
  BY <1>2 DEF HistoryTyped
<1>3. CASE Handshake \/ Over
  BY <1>2, <1>3 DEF Handshake, ClientConnects, ServerAccepts, ServerThrows, ClientOpens,
                    ConnectFails, Over, reading, vars
<1>4. ASSUME NEW e \in Ends, Dies(e) \/ Reset(e) PROVE HistoryTyped'
  BY <1>2, <1>4 DEF Dies, Reset, reading
<1>5. ASSUME NEW e \in Ends, Speaks(e) \/ Answers(e) \/ disconnect(e) PROVE HistoryTyped'
  <2>1. PICK f \in Frames, choices \in SUBSET SUBSET Keys, next \in {"loop", "answer", "leave"} :
          Sends(e, f, choices, next)
    BY <1>1, <1>5, SentFrame
  <2>2. sent' = [sent EXCEPT ![e] = Append(sent[e], f)]
    BY <2>1 DEF Sends
  <2>3. Append(sent[e], f) \in Seq(Frames)
    BY AppendProperties DEF HistoryTyped
  <2>4. UNCHANGED got
    BY <1>5 DEF Speaks, Answers, disconnect, reading
  <2> QED  BY <2>2, <2>3, <2>4 DEF HistoryTyped
<1>6. ASSUME NEW e \in Ends, ReceivePayload(e) PROVE HistoryTyped'
  <2>1. PICK f : Delivers(e, f)
    BY <1>6 DEF ReceivePayload
  <2>2. frame' = [frame EXCEPT ![e] = f] /\ got' = [got EXCEPT ![e] = Append(got[e], f)]
        /\ UNCHANGED sent
    BY <1>6, <2>1 DEF Delivers, ReceivePayload
  <2>3. f \in Frames
    BY <1>1, <2>2 DEF DataTyped
  <2>4. Append(got[e], f) \in Seq(Frames)
    BY <2>3, AppendProperties DEF HistoryTyped
  <2> QED  BY <2>2, <2>4 DEF HistoryTyped
<1>7. ASSUME NEW e \in Ends, Receives(e), ~ReceivePayload(e) PROVE HistoryTyped'
  BY <1>2, <1>7 DEF Receives, ReceiveHead, ReceiveLength, ReceiveKey, ReceiveFails, HasLength
<1> QED  BY <1>3, <1>4, <1>5, <1>6, <1>7 DEF Next, Application

\* The end that a frame is sent to, and the one that sends it.
LEMMA SendIntact ==
    ASSUME WebInv, HistoryTyped, NEW x \in Ends, Speaks(x) \/ Answers(x) \/ disconnect(x),
           NEW e \in Ends, Intact(e)
    PROVE  Intact(e)'
<1>1. TypeOK /\ DataTyped
  BY DEF WebInv
<1>2. PICK f \in Frames, choices \in SUBSET SUBSET Keys, next \in {"loop", "answer", "leave"} :
        Sends(x, f, choices, next)
  BY <1>1, SentFrame
<1>3. /\ UNCHANGED <<told, reading, swallowed>> /\ socket[x] \in {"handshaking", "open"}
      /\ socket'[x] \in {"open", "closed"} /\ socket'[Other(x)] = socket[Other(x)]
  BY <1>1, Both DEF Speaks, Answers, disconnect, Refused, TypeOK
<1>4. sent' = [sent EXCEPT ![x] = Append(sent[x], f)]
  BY <1>2 DEF Sends
<1>5. PICK keys \in choices :
        \/ /\ Transmit(x, Units(f, keys))
           /\ at' = [at EXCEPT ![x] = next]
           /\ UNCHANGED cut
        \/ /\ \E n \in 0..Len(Units(f, keys)) - 1 : Transmit(x, SubSeq(Units(f, keys), 1, n))
           /\ \E to \in {"leave", next} : at' = [at EXCEPT ![x] = to]
           /\ cut' = [cut EXCEPT ![x] = TRUE]
  BY <1>2 DEF Sends
<1>6. CASE e = x
  <2>1. sent'[Other(e)] = sent[Other(e)]
    BY <1>4, <1>6, Both DEF HistoryTyped
  <2>2. cut'[Other(e)] = cut[Other(e)]
    BY <1>1, <1>5, <1>6, Both DEF TypeOK
  <2>3. wire'[e] = wire[e]
    <3>1. \E u : Transmit(x, u)
      BY <1>5
    <3> QED  BY <1>1, <1>6, <3>1, Both DEF Transmit, DataTyped
  <2>4. Attends(e)' => Attends(e) /\ (Waiting(e)' <=> Waiting(e)) /\ ~Waiting(e)
    <3>1. CASE Speaks(x)
      <4>1. at'[e] \in {"leave", at[e]}
        BY <1>1, <1>6, <3>1 DEF Speaks, Sends, TypeOK
      <4> QED  BY <1>3, <1>6, <3>1, <4>1 DEF Speaks, Attends, Waiting
    <3>2. CASE Answers(x)
      <4>1. at[e] = "answer"
        BY <1>6, <3>2 DEF Answers
      <4> QED  BY <1>3, <1>6, <3>2, <4>1 DEF Answers, Attends, Waiting
    <3>3. CASE disconnect(x)
      <4>1. socket'[e] = "closed"
        BY <1>1, <1>6, <3>3 DEF disconnect, TypeOK
      <4> QED  BY <4>1 DEF Attends
    <3> QED  BY <3>1, <3>2, <3>3
  <2> QED  BY <1>3, <1>6, <2>1, <2>2, <2>3, <2>4, StillIntact DEF reading
<1>7. CASE e = Other(x)
  <2>1. Other(e) = x
    BY <1>7, Both
  <2>2. CASE cut'[x]
    BY <2>1, <2>2 DEF Intact
  <2>3. CASE ~cut'[x]
    <3>1. Transmit(x, Units(f, keys)) /\ UNCHANGED cut /\ at' = [at EXCEPT ![x] = next]
      BY <1>1, <1>5, <2>3 DEF TypeOK
    <3>2. sent'[Other(e)] = Append(sent[Other(e)], f)
      BY <1>4, <2>1 DEF HistoryTyped
    <3>3. at'[e] = at[e] /\ socket'[e] = socket[e] /\ got'[e] = got[e] /\ rx'[e] = rx[e]
          /\ head'[e] = head[e] /\ swallowed'[e] = swallowed[e] /\ told'[e] = told[e]
      BY <1>1, <1>3, <1>7, <3>1, Both DEF TypeOK, reading
    <3>4. Attends(e)' <=> Attends(e)
      BY <3>3 DEF Attends
    <3>5. CASE ~Attends(e)
      BY <3>1, <3>2, <3>3, <3>4, <3>5, DeafIntact
    <3>6. CASE Attends(e)
      <4>1. socket[Other(x)] # "closed"
        BY <1>7, <3>6 DEF Attends
      <4>2. wire' = [wire EXCEPT ![e] = wire[e] \o Units(f, keys)]
        BY <1>7, <3>1, <4>1 DEF Transmit
      <4>a. wire'[e] = wire[e] \o Units(f, keys)
        BY <1>1, <4>2 DEF DataTyped
      <4> SUFFICES ASSUME ~cut'[Other(e)], ~swallowed'[e], ~told'[e]
                   PROVE  /\ Prefixed(e)'
                          /\ rx'[e] = "payload" => Announced(e)'
                          /\ Attends(e)' => Lost(e)' \/ Chained(e)'
        BY DEF Intact
      <4>3. ~Lost(e) /\ socket[Other(e)] \in {"handshaking", "open"}
        BY <1>3, <2>1 DEF Lost
      <4>4. Prefixed(e) /\ (rx[e] = "payload" => Announced(e)) /\ Chained(e)
        BY <3>1, <3>3, <3>6, <4>3 DEF Intact
      <4>5. keys \in SUBSET Keys /\ socket'[Other(e)] # "down"
        BY <1>3, <2>1
      <4>6. Chained(e)'
        BY <1>1, <3>2, <3>3, <4>a, <4>3, <4>4, <4>5, UnreadMore
      <4>7. Prefixed(e)' /\ (Announced(e) /\ head'[e] = head[e] => Announced(e)')
        BY <3>2, <3>3, <4>4, StillPrefixed
      <4> QED  BY <3>3, <4>4, <4>6, <4>7
    <3> QED  BY <3>5, <3>6
  <2> QED  BY <2>2, <2>3
<1> QED  BY <1>6, <1>7, Both

--------------------------------------------------------------------------------
(* The receiver.                                                               *)

\* The other end's side is left alone.
LEMMA ReceiveApart ==
    ASSUME WebInv, HistoryTyped, NEW x \in Ends, Receives(x), NEW e \in Ends, e # x, Intact(e)
    PROVE  Intact(e)'
<1>1. TypeOK /\ DataTyped
  BY DEF WebInv
<1>2. UNCHANGED <<socket, sent, cut, swallowed>>
  BY DEF Receives, ReceiveHead, ReceiveLength, ReceiveKey, ReceivePayload, ReceiveFails
<1>3. got'[e] = got[e] /\ rx'[e] = rx[e] /\ head'[e] = head[e] /\ at'[e] = at[e]
      /\ wire'[e] = wire[e] /\ told'[e] = told[e]
  <2>1. ASSUME Returns(x) PROVE rx'[e] = rx[e] /\ head'[e] = head[e]
    BY <1>1, <2>1 DEF Returns, TypeOK
  <2>2. ASSUME Fails(x)
        PROVE  rx'[e] = rx[e] /\ head'[e] = head[e] /\ at'[e] = at[e] /\ told'[e] = told[e]
    BY <1>1, <2>1, <2>2 DEF Fails, TypeOK
  <2>3. ASSUME NEW n, Reads(x, n) PROVE wire'[e] = wire[e]
    BY <1>1, <2>3 DEF Reads, DataTyped
  <2>4. ASSUME NEW h, HasLength(x, h)
        PROVE  rx'[e] = rx[e] /\ head'[e] = head[e] /\ at'[e] = at[e] /\ told'[e] = told[e]
               /\ UNCHANGED got
    BY <1>1, <2>2, <2>4 DEF HasLength, TypeOK
  <2>5. CASE ReceiveHead(x)
    BY <1>1, <2>2, <2>3, <2>4, <2>5 DEF ReceiveHead, TypeOK
  <2>6. CASE ReceiveLength(x)
    BY <2>3, <2>4, <2>6 DEF ReceiveLength
  <2>7. CASE ReceiveKey(x)
    BY <1>1, <2>3, <2>7 DEF ReceiveKey, TypeOK, endpoint
  <2>8. CASE ReceivePayload(x)
    BY <1>1, <2>1, <2>3, <2>8 DEF ReceivePayload, Delivers, TypeOK, HistoryTyped
  <2>9. CASE ReceiveFails(x)
    BY <2>2, <2>9 DEF ReceiveFails
  <2> QED  BY <2>5, <2>6, <2>7, <2>8, <2>9 DEF Receives
<1>4. (Attends(e)' <=> Attends(e)) /\ (Waiting(e)' <=> Waiting(e))
  BY <1>2, <1>3 DEF Attends, Waiting
<1> QED  BY <1>2, <1>3, <1>4, StillIntact

\* A receive takes back no status.
LEMMA ToldStays ==
    ASSUME TypeOK, NEW x \in Ends, Receives(x), NEW e \in Ends
    PROVE  told[e] => told'[e]
<1>1. \/ UNCHANGED told
      \/ told' = [told EXCEPT ![x] = TRUE]
  BY DEF Receives, ReceiveHead, ReceiveLength, ReceiveKey, ReceivePayload, ReceiveFails, HasLength,
         Fails, Delivers, endpoint
<1> QED  BY <1>1 DEF TypeOK

\* A receive that fails is the last one that the invariant speaks of.
LEMMA FailsIntact ==
    ASSUME TypeOK, NEW e \in Ends, Fails(e)
    PROVE  Intact(e)'
<1>1. told'[e]
  BY DEF Fails, TypeOK
<1> QED  BY <1>1 DEF Intact

\* The frame that e is in, or is to read next.
Upcoming(e) == Len(got[e]) + 1

\* The receiver has read the length, and the next frame is the one that was sent.
LEMMA LengthIntact ==
    ASSUME WebInv, HistoryTyped, NEW e \in Ends, Receiving(e), NEW h, HasLength(e, h), Intact(e),
           UNCHANGED <<socket, sent, cut, swallowed>>,
           NEW keys, NEW rest, Serialized(sent[Other(e)], keys, rest),
           NEW f, Len(got[e]) < Len(sent[Other(e)]), f = sent[Other(e)][Upcoming(e)],
           NEW k, k = keys[Upcoming(e)],
           h.op = f.op, h.final = f.final, h.masked = (k # {}), h.size = Len(f.data), h.keys = {},
           wire'[e] = (KeyPart(k) \o Masked(f.data, k)) \o rest[Upcoming(e) + 1]
    PROVE  Intact(e)'
<1>1. TypeOK /\ UNCHANGED <<frame, got>>
  BY DEF WebInv, HasLength
<1>2. CASE Fails(e)
  BY <1>1, <1>2, FailsIntact
<1>3. CASE /\ head' = [head EXCEPT ![e] = h]
           /\ rx' = [rx EXCEPT ![e] = AfterLength(h.masked)]
           /\ UNCHANGED <<at, told>>
  <2> SUFFICES ASSUME ~cut'[Other(e)], ~swallowed'[e], ~told'[e]
               PROVE  /\ Prefixed(e)'
                      /\ rx'[e] = "payload" => Announced(e)'
                      /\ Attends(e)' => Lost(e)' \/ Chained(e)'
    BY DEF Intact
  <2>1. head'[e] = h /\ rx'[e] = AfterLength(h.masked)
    BY <1>1, <1>3 DEF TypeOK
  <2>2. got[e] \in Seq(Frames) /\ sent[Other(e)] \in Seq(Frames)
    BY Both DEF HistoryTyped
  <2>3. /\ Len(got[e]) \in Nat /\ Len(sent[Other(e)]) \in Nat
        /\ Upcoming(e) \in 1..Len(sent[Other(e)])
    BY <2>2, LenProperties DEF Upcoming
  <2>4. f \in Frames /\ k \in SUBSET Keys
    BY <2>2, <2>3, ElementOfSeq DEF Serialized
  <2>5. Prefixed(e)'
    BY <1>1, <1>3 DEF Intact, Prefixed
  <2>6. Announced(e)'
    BY <1>1, <2>1 DEF Announced, Upcoming
  <2>7. ~Waiting(e)'
    BY DEF Receiving, Waiting
  <2>8. rx'[e] # "head" /\ rx'[e] # "length"
    BY <2>1 DEF AfterLength
  <2>9. HeadOf(head'[e], rx'[e], f, k)
    BY <2>1 DEF HeadOf, AfterLength
  <2>10. wire'[e] = Left(rx'[e], f, k) \o rest[Upcoming(e) + 1]
    <3>1. CASE k = {}
      <4>1. KeyPart(k) \o Masked(f.data, k) = Masked(f.data, k)
        <5>1. Masked(f.data, k) \in Seq(AnyUnit)
          BY <2>4, PartTypes
        <5>2. KeyPart(k) = <<>>
          BY <3>1 DEF KeyPart
        <5> HIDE DEF Masked
        <5> QED  BY <5>1, <5>2, ConcatEmptySeq
      <4>2. rx'[e] = "payload"
        BY <2>1, <3>1 DEF AfterLength
      <4> QED  BY <4>1, <4>2 DEF Left
    <3>2. CASE k # {}
      <4>1. rx'[e] = "key"
        BY <2>1, <3>2 DEF AfterLength
      <4> QED  BY <4>1 DEF Left
    <3> QED  BY <3>1, <3>2
  <2>11. Unread(e, keys, rest)'
    <3>1. Upcoming(e) = Len(got'[e]) + 1 /\ sent' = sent /\ Upcoming(e) <= Len(sent[Other(e)])
      BY <1>1, <2>3 DEF Upcoming
    <3> HIDE DEF Left, HeadOf
    <3> QED  BY <2>7, <2>8, <2>9, <2>10, <3>1 DEF Unread
  <2>12. Chained(e)'
    BY <2>11 DEF Chained
  <2> QED  BY <2>5, <2>6, <2>12
<1> QED  BY <1>2, <1>3 DEF HasLength

\* What Chained says of an end that receives something.
LEMMA Receivable ==
    ASSUME WebInv, HistoryTyped, NEW e \in Ends, Receiving(e), wire[e] # <<>>, Intact(e),
           ~cut[Other(e)], ~swallowed[e], ~told[e]
    PROVE  /\ Prefixed(e) /\ ~Waiting(e) /\ Upcoming(e) \in Nat
           /\ got[e] \in Seq(Frames) /\ sent[Other(e)] \in Seq(Frames)
           /\ \E keys, rest :
                /\ Serialized(sent[Other(e)], keys, rest) /\ Unread(e, keys, rest)
                /\ Upcoming(e) \in 1..Len(sent[Other(e)])
                /\ sent[Other(e)][Upcoming(e)] \in Frames /\ keys[Upcoming(e)] \in SUBSET Keys
                /\ rest[Upcoming(e) + 1] \in Seq(AnyUnit)
                /\ rest[Upcoming(e)] = Units(sent[Other(e)][Upcoming(e)], keys[Upcoming(e)])
                                         \o rest[Upcoming(e) + 1]
<1> DEFINE frames == sent[Other(e)]
           n == Upcoming(e)
<1>1. Prefixed(e) /\ Chained(e) /\ ~Waiting(e)
  BY DEF Intact, Attends, Receiving, Lost, Waiting
<1>2. got[e] \in Seq(Frames) /\ frames \in Seq(Frames)
  BY Both DEF HistoryTyped
<1>3. Len(got[e]) \in Nat /\ Len(frames) \in Nat /\ n \in 1..Len(frames) + 1
  BY <1>1, <1>2, LenProperties DEF Prefixed, Upcoming
<1>4. PICK keys, rest : Serialized(frames, keys, rest) /\ Unread(e, keys, rest)
  BY <1>1 DEF Chained
<1>5. n \in 1..Len(frames)
  <2>1. SUFFICES ASSUME n = Len(frames) + 1 PROVE FALSE
    BY <1>3
  <2>2. rest[n] = <<>>
    BY <1>4, <2>1 DEF Serialized
  <2>3. rx[e] = "head"
    <3>1. rx[e] # "head" => n <= Len(frames)
      BY <1>1, <1>4 DEF Unread, Upcoming
    <3> QED  BY <1>3, <2>1, <3>1
  <2>4. wire[e] = rest[n]
    BY <1>1, <1>4, <2>3 DEF Unread, Upcoming
  <2> QED  BY <2>2, <2>4
<1>6. /\ keys \in [1..Len(frames) -> SUBSET Keys]
      /\ rest \in [1..Len(frames) + 1 -> Seq(AnyUnit)]
      /\ rest[n] = Units(frames[n], keys[n]) \o rest[n + 1]
  BY <1>4, <1>5 DEF Serialized
<1>7. frames[n] \in Frames /\ keys[n] \in SUBSET Keys
  BY <1>2, <1>5, <1>6, ElementOfSeq
<1>8. n + 1 \in 1..Len(frames) + 1
  BY <1>3, <1>5
<1>9. rest[n + 1] \in Seq(AnyUnit)
  BY <1>6, <1>8
<1> HIDE DEF n, frames
<1>10. /\ Prefixed(e) /\ ~Waiting(e) /\ n \in Nat /\ got[e] \in Seq(Frames) /\ frames \in Seq(Frames)
       /\ Serialized(frames, keys, rest) /\ Unread(e, keys, rest) /\ n \in 1..Len(frames)
       /\ frames[n] \in Frames /\ keys[n] \in SUBSET Keys /\ rest[n + 1] \in Seq(AnyUnit)
       /\ rest[n] = Units(frames[n], keys[n]) \o rest[n + 1]
  BY <1>1, <1>2, <1>3, <1>4, <1>5, <1>6, <1>7, <1>9
<1> QED  BY <1>10, Zenon DEF n, frames

LEMMA HeadIntact ==
    ASSUME WebInv, HistoryTyped, NEW e \in Ends, ReceiveHead(e), Intact(e)
    PROVE  Intact(e)'
<1>1. TypeOK /\ DataTyped
  BY DEF WebInv
<1>2. Receiving(e) /\ rx[e] = "head" /\ Reads(e, 1) /\ UNCHANGED <<socket, sent, cut, swallowed>>
  BY DEF ReceiveHead
<1>3. PICK h \in Header(wire[e][1]) :
        \/ Fails(e) /\ UNCHANGED <<frame, got>>
        \/ h.code = 7 /\ HasLength(e, h)
        \/ /\ h.code # 7
           /\ rx' = [rx EXCEPT ![e] = "length"]
           /\ head' = [head EXCEPT ![e] = h]
           /\ UNCHANGED <<at, told, frame, got>>
  BY DEF ReceiveHead
<1>4. CASE Fails(e) /\ UNCHANGED <<frame, got>>
  BY <1>1, <1>4, FailsIntact
<1>5. CASE ~(Fails(e) /\ UNCHANGED <<frame, got>>)
  <2> SUFFICES ASSUME ~cut'[Other(e)], ~swallowed'[e], ~told'[e] PROVE Intact(e)'
    BY DEF Intact
  <2>1. ~cut[Other(e)] /\ ~swallowed[e] /\ ~told[e] /\ wire[e] # <<>>
    BY <1>1, <1>2, ToldStays DEF Reads, DataTyped, Receives
  <2> DEFINE frames == sent[Other(e)]
             n == Upcoming(e)
  <2>2. PICK keys, rest :
          /\ Serialized(frames, keys, rest) /\ Unread(e, keys, rest)
          /\ n \in 1..Len(frames)
          /\ frames[n] \in Frames /\ keys[n] \in SUBSET Keys /\ rest[n + 1] \in Seq(AnyUnit)
          /\ rest[n] = Units(frames[n], keys[n]) \o rest[n + 1]
    BY <1>2, <2>1, Receivable
  <2>3. Prefixed(e) /\ ~Waiting(e) /\ n \in Nat /\ got[e] \in Seq(Frames) /\ frames \in Seq(Frames)
    BY <1>2, <2>1, Receivable
  <2> DEFINE f == frames[n]
             k == keys[n]
             left == Left("length", f, k)
             u == FirstUnit(f, k)
  <2>4. left \in Seq(AnyUnit) /\ u \in AnyUnit /\ Units(f, k) = <<u>> \o left
    <3>1. "length" \in {"length", "key", "payload"}
      OBVIOUS
    <3> QED  BY <2>2, <3>1, LeftType, PartTypes, UnitsSplit
  <2>5. wire[e] = (<<u>> \o left) \o rest[n + 1]
    BY <1>2, <2>2, <2>3, <2>4 DEF Unread, Upcoming
  <2>6. h = [op |-> f.op, final |-> f.final, masked |-> k # {}, code |-> LengthCode(Len(f.data)),
             size |-> IF LengthCode(Len(f.data)) = 7 THEN Len(f.data) ELSE 0, keys |-> {}]
        /\ wire'[e] = left \o rest[n + 1]
    <3> HIDE DEF left, u
    <3>1. <<u>> \in Seq(AnyUnit)
      BY <2>4
    <3>2. \A s, t, v \in Seq(AnyUnit) : (s \o t) \o v = s \o (t \o v)
      BY ConcatAssociative
    <3>3. left \o rest[n + 1] \in Seq(AnyUnit)
      BY <2>2, <2>4, ConcatProperties
    <3>4. wire[e] = <<u>> \o (left \o rest[n + 1])
      BY <2>2, <2>4, <2>5, <3>1, <3>2, Zenon
    <3>5. /\ SubSeq(wire[e], 2, Len(wire[e])) = left \o rest[n + 1]
          /\ wire[e][1] = u
      BY <2>4, <3>3, <3>4, BehindFirst
    <3>6. wire'[e] = SubSeq(wire[e], 2, Len(wire[e]))
      BY <1>1, <1>2 DEF Reads, DataTyped
    <3>7. h \in Header(u)
      BY <1>3, <3>5
    <3>8. u.part = "head"
      BY DEF u, FirstUnit
    <3>9. h = [op |-> u.op, final |-> u.final, masked |-> u.masked, code |-> u.code,
               size |-> u.size, keys |-> {}]
      BY <3>7, <3>8 DEF Header
    <3> QED  BY <3>5, <3>6, <3>9 DEF u, FirstUnit
  <2>7. Len(got[e]) \in Nat /\ Len(frames) \in Nat
    BY <2>3, LenProperties
  <2>a. Len(got[e]) < Len(frames)
    BY <2>2, <2>7 DEF Upcoming
  <2>8. CASE h.code = 7 /\ HasLength(e, h)
    <3>1. LengthCode(Len(f.data)) = 7
      BY <2>6, <2>8
    <3>2. left = KeyPart(k) \o Masked(f.data, k)
      <4>1. LongPart(f) = <<>>
        BY <3>1 DEF LongPart
      <4>2. KeyPart(k) \o Masked(f.data, k) \in Seq(AnyUnit)
        BY <2>2, PartTypes, ConcatProperties
      <4>3. left = <<>> \o (KeyPart(k) \o Masked(f.data, k))
        BY <4>1 DEF Left
      <4> DEFINE more == KeyPart(k) \o Masked(f.data, k)
      <4> HIDE DEF left, more
      <4>4. left = <<>> \o more /\ more \in Seq(AnyUnit)
        BY <4>2, <4>3 DEF more
      <4>5. left = more
        BY <4>4, ConcatEmptySeq
      <4> QED  BY <4>5 DEF more
    <3>3. wire'[e] = (KeyPart(k) \o Masked(f.data, k)) \o rest[n + 1]
      BY <2>6, <3>2
    <3>4. h.op = f.op /\ h.final = f.final /\ h.masked = (k # {}) /\ h.size = Len(f.data) /\ h.keys = {}
      BY <2>6, <3>1
    <3> HIDE DEF f, k, left
    <3>5. f = sent[Other(e)][Upcoming(e)] /\ k = keys[Upcoming(e)]
      BY DEF f, k
    <3> QED  BY <1>2, <2>2, <2>a, <2>8, <3>3, <3>4, <3>5, LengthIntact
  <2>9. CASE /\ h.code # 7
             /\ rx' = [rx EXCEPT ![e] = "length"]
             /\ head' = [head EXCEPT ![e] = h]
             /\ UNCHANGED <<at, told, frame, got>>
    <3>1. rx'[e] = "length" /\ head'[e] = h
      BY <1>1, <2>9 DEF TypeOK
    <3>2. HeadOf(h, "length", f, k)
      BY <2>6, <2>9 DEF HeadOf
    <3>3. ~Waiting(e)' /\ Prefixed(e)'
      BY <1>2, <2>3, <2>9 DEF Waiting, Prefixed
    <3>4. n <= Len(frames) /\ n = Len(got'[e]) + 1
      BY <2>2, <2>3, <2>7, <2>9 DEF Upcoming
    <3>5. Unread(e, keys, rest)'
      <4> HIDE DEF HeadOf, Left
      <4> QED  BY <1>2, <2>6, <3>1, <3>2, <3>3, <3>4 DEF Unread
    <3>6. Chained(e)'
      BY <1>2, <2>2, <3>5 DEF Chained
    <3> QED  BY <3>1, <3>3, <3>6 DEF Intact
  <2> QED  BY <1>3, <1>5, <2>8, <2>9
<1> QED  BY <1>3, <1>4, <1>5

\* What is behind the first unit.
LEMMA BehindUnit ==
    ASSUME NEW s, NEW u \in AnyUnit, NEW left \in Seq(AnyUnit), NEW tail \in Seq(AnyUnit),
           s = (<<u>> \o left) \o tail
    PROVE  s[1] = u /\ SubSeq(s, 2, Len(s)) = left \o tail
<1>1. <<u>> \in Seq(AnyUnit)
  OBVIOUS
<1>2. \A x, y, z \in Seq(AnyUnit) : (x \o y) \o z = x \o (y \o z)
  BY ONLY ConcatAssociative
<1>3. left \o tail \in Seq(AnyUnit)
  BY ConcatProperties
<1>4. s = <<u>> \o (left \o tail)
  BY <1>1, <1>2, Zenon
<1> QED  BY <1>3, <1>4, BehindFirst

LEMMA LengthPartIntact ==
    ASSUME WebInv, HistoryTyped, NEW e \in Ends, ReceiveLength(e), Intact(e)
    PROVE  Intact(e)'
<1>1. TypeOK /\ DataTyped
  BY DEF WebInv
<1>2. Receiving(e) /\ rx[e] = "length" /\ Reads(e, 1) /\ UNCHANGED <<socket, sent, cut, swallowed>>
  BY DEF ReceiveLength
<1>3. PICK size \in LengthIn(wire[e][1]) : HasLength(e, [head[e] EXCEPT !.size = size])
  BY DEF ReceiveLength
<1> SUFFICES ASSUME ~cut'[Other(e)], ~swallowed'[e], ~told'[e] PROVE Intact(e)'
  BY DEF Intact
<1>4. ~cut[Other(e)] /\ ~swallowed[e] /\ ~told[e] /\ wire[e] # <<>>
  BY <1>1, <1>2, ToldStays DEF Reads, DataTyped, Receives
<1> DEFINE frames == sent[Other(e)]
           n == Upcoming(e)
<1>5. PICK keys, rest :
        /\ Serialized(frames, keys, rest) /\ Unread(e, keys, rest)
        /\ n \in 1..Len(frames)
        /\ frames[n] \in Frames /\ keys[n] \in SUBSET Keys /\ rest[n + 1] \in Seq(AnyUnit)
        /\ rest[n] = Units(frames[n], keys[n]) \o rest[n + 1]
  BY <1>2, <1>4, Receivable
<1>6. ~Waiting(e) /\ got[e] \in Seq(Frames) /\ frames \in Seq(Frames)
  BY <1>2, <1>4, Receivable
<1> DEFINE f == frames[n]
           k == keys[n]
           u == [part |-> "length", size |-> Len(f.data)]
           left == KeyPart(k) \o Masked(f.data, k)
<1>7. HeadOf(head[e], "length", f, k) /\ wire[e] = Left("length", f, k) \o rest[n + 1]
  <2> HIDE DEF HeadOf, Left
  <2> QED  BY <1>2, <1>5, <1>6 DEF Unread, Upcoming
<1>8. wire[e] = (<<u>> \o left) \o rest[n + 1]
  BY <1>7 DEF HeadOf, Left, LongPart
<1>9. u \in AnyUnit /\ left \in Seq(AnyUnit)
  <2>1. Len(f.data) \in Nat
    BY <1>5, PartTypes
  <2>2. KeyPart(k) \in Seq(AnyUnit) /\ Masked(f.data, k) \in Seq(AnyUnit)
    BY <1>5, PartTypes
  <2> QED  BY <2>1, <2>2, ConcatProperties DEF AnyUnit, LengthUnits
<1>10. wire[e][1] = u /\ wire'[e] = left \o rest[n + 1]
  <2> DEFINE tail == rest[n + 1]
  <2> HIDE DEF u, left, tail
  <2>1. tail \in Seq(AnyUnit) /\ wire[e] = (<<u>> \o left) \o tail
    BY <1>5, <1>8 DEF tail
  <2>2. wire[e][1] = u /\ SubSeq(wire[e], 2, Len(wire[e])) = left \o tail
    BY <1>9, <2>1, BehindUnit
  <2>3. wire'[e] = SubSeq(wire[e], 2, Len(wire[e]))
    BY <1>1, <1>2 DEF Reads, DataTyped
  <2> QED  BY <2>2, <2>3 DEF tail
<1>11. size = Len(f.data)
  BY <1>3, <1>10 DEF LengthIn
<1> DEFINE h == [head[e] EXCEPT !.size = size]
<1>12. h.op = f.op /\ h.final = f.final /\ h.masked = (k # {}) /\ h.size = Len(f.data) /\ h.keys = {}
  BY <1>1, <1>7, <1>11 DEF HeadOf, TypeOK, Heads
<1>13. Len(got[e]) < Len(frames)
  BY <1>5, <1>6, LenProperties DEF Upcoming
<1>14. HasLength(e, h)
  BY <1>3
<1> HIDE DEF f, k, h
<1>15. f = sent[Other(e)][Upcoming(e)] /\ k = keys[Upcoming(e)]
  BY DEF f, k
<1> QED  BY <1>2, <1>5, <1>10, <1>12, <1>13, <1>14, <1>15, LengthIntact

LEMMA KeyIntact ==
    ASSUME WebInv, HistoryTyped, NEW e \in Ends, ReceiveKey(e), Intact(e)
    PROVE  Intact(e)'
<1>1. TypeOK /\ DataTyped
  BY DEF WebInv
<1>2. Receiving(e) /\ rx[e] = "key" /\ Reads(e, 1) /\ UNCHANGED <<socket, sent, cut, swallowed, got, at>>
  BY DEF ReceiveKey, endpoint
<1> SUFFICES ASSUME ~cut'[Other(e)], ~swallowed'[e], ~told'[e] PROVE Intact(e)'
  BY DEF Intact
<1>4. ~cut[Other(e)] /\ ~swallowed[e] /\ ~told[e] /\ wire[e] # <<>>
  BY <1>1, <1>2, ToldStays DEF Reads, DataTyped, Receives
<1> DEFINE frames == sent[Other(e)]
           n == Upcoming(e)
<1>5. PICK keys, rest :
        /\ Serialized(frames, keys, rest) /\ Unread(e, keys, rest)
        /\ n \in 1..Len(frames)
        /\ frames[n] \in Frames /\ keys[n] \in SUBSET Keys /\ rest[n + 1] \in Seq(AnyUnit)
        /\ rest[n] = Units(frames[n], keys[n]) \o rest[n + 1]
  BY <1>2, <1>4, Receivable
<1>6. Prefixed(e) /\ ~Waiting(e) /\ got[e] \in Seq(Frames) /\ frames \in Seq(Frames)
  BY <1>2, <1>4, Receivable
<1> DEFINE f == frames[n]
           k == keys[n]
           u == [part |-> "key", keys |-> k]
           left == Masked(f.data, k)
<1>7. HeadOf(head[e], "key", f, k) /\ wire[e] = Left("key", f, k) \o rest[n + 1]
  <2> HIDE DEF HeadOf, Left
  <2> QED  BY <1>2, <1>5, <1>6 DEF Unread, Upcoming
<1>a. head[e].masked
  BY <1>1, <1>2 DEF TypeOK
<1>8. wire[e] = (<<u>> \o left) \o rest[n + 1]
  <2>1. k # {}
    BY <1>a, <1>7 DEF HeadOf
  <2> QED  BY <1>7, <2>1 DEF Left, KeyPart
<1>9. u \in AnyUnit /\ left \in Seq(AnyUnit)
  BY <1>5, PartTypes DEF AnyUnit, KeyUnits
<1>10. wire[e][1] = u /\ wire'[e] = left \o rest[n + 1]
  <2> DEFINE tail == rest[n + 1]
  <2> HIDE DEF u, left, tail
  <2>1. tail \in Seq(AnyUnit) /\ wire[e] = (<<u>> \o left) \o tail
    BY <1>5, <1>8 DEF tail
  <2>2. wire[e][1] = u /\ SubSeq(wire[e], 2, Len(wire[e])) = left \o tail
    BY <1>9, <2>1, BehindUnit
  <2>3. wire'[e] = SubSeq(wire[e], 2, Len(wire[e]))
    BY <1>1, <1>2 DEF Reads, DataTyped
  <2> QED  BY <2>2, <2>3 DEF tail
<1>11. rx'[e] = "payload" /\ head'[e] = [head[e] EXCEPT !.keys = k]
  <2>1. KeyIn(wire[e][1]) = k
    BY <1>10 DEF KeyIn
  <2> HIDE DEF k
  <2>2. rx' = [rx EXCEPT ![e] = "payload"] /\ head' = [head EXCEPT ![e] = [head[e] EXCEPT !.keys = k]]
    BY <2>1 DEF ReceiveKey
  <2> QED  BY <1>1, <2>2 DEF TypeOK
<1>12. Len(got[e]) < Len(frames) /\ Len(got[e]) \in Nat
  BY <1>5, <1>6, LenProperties DEF Upcoming
<1>13. HeadOf(head'[e], "payload", f, k) /\ Announced(e)'
  <2>1. head[e] \in Heads
    BY <1>1 DEF TypeOK
  <2>2. /\ head'[e].op = f.op /\ head'[e].final = f.final /\ head'[e].size = Len(f.data)
        /\ head'[e].masked = (k # {}) /\ head'[e].keys = k
    BY <1>7, <1>11, <2>1 DEF HeadOf, Heads
  <2> QED  BY <1>2, <1>12, <2>2 DEF HeadOf, Announced, Upcoming
<1>14. wire'[e] = Left("payload", f, k) \o rest[n + 1]
  BY <1>10 DEF Left
<1>15. Prefixed(e)' /\ ~Waiting(e)'
  BY <1>2, <1>6 DEF Prefixed, Waiting
<1>16. Chained(e)'
  <2>1. n = Len(got'[e]) + 1 /\ sent' = sent /\ n <= Len(frames)
    BY <1>2, <1>5, <1>12 DEF Upcoming
  <2>2. Unread(e, keys, rest)'
    <3> HIDE DEF HeadOf, Left
    <3> QED  BY <1>11, <1>13, <1>14, <1>15, <2>1 DEF Unread
  <2> QED  BY <1>5, <2>1, <2>2 DEF Chained
<1> QED  BY <1>13, <1>15, <1>16 DEF Intact

\* One more frame is got: the one that was sent there.
LEMMA GotNext ==
    ASSUME NEW e \in Ends, HistoryTyped, Prefixed(e), sent'[Other(e)] = sent[Other(e)],
           Len(got[e]) < Len(sent[Other(e)]),
           got'[e] = Append(got[e], sent[Other(e)][Upcoming(e)])
    PROVE  Prefixed(e)' /\ Len(got'[e]) = Upcoming(e)
<1>1. got[e] \in Seq(Frames) /\ sent[Other(e)] \in Seq(Frames)
  BY Both DEF HistoryTyped
<1>2. Len(got[e]) \in Nat /\ Len(sent[Other(e)]) \in Nat
  BY <1>1, LenProperties
<1>3. sent[Other(e)][Upcoming(e)] \in Frames
  <2>1. Upcoming(e) \in 1..Len(sent[Other(e)])
    BY <1>2 DEF Upcoming
  <2> QED  BY <1>1, <2>1, ElementOfSeq
<1>4. /\ Len(got'[e]) = Len(got[e]) + 1
      /\ \A i \in 1..Len(got[e]) : got'[e][i] = got[e][i]
      /\ got'[e][Len(got[e]) + 1] = sent[Other(e)][Upcoming(e)]
  BY <1>1, <1>3, AppendProperties
<1>5. \A i \in 1..Len(got[e]) + 1 : i \in 1..Len(got[e]) \/ i = Len(got[e]) + 1
  BY <1>2
<1> QED  BY <1>2, <1>4, <1>5 DEF Prefixed, Upcoming

DataOf(s, n) == [i \in 1..n |-> AsData(s[i])]

\* The data that was sent, masked with k, is read with the same key.
LEMMA DataRead ==
    ASSUME NEW data \in Seq(Byte), NEW k \in SUBSET Keys, NEW s, NEW tail \in Seq(AnyUnit),
           s = Masked(data, k) \o tail
    PROVE  /\ Masked(DataOf(s, Len(data)), k) = data
           /\ SubSeq(s, Len(data) + 1, Len(s)) = tail
<1> DEFINE masked == Masked(data, k)
           read == DataOf(s, Len(data))
<1>1. Len(data) \in Nat /\ DOMAIN data = 1..Len(data)
  BY LenProperties
<1>2. masked \in Seq(Byte) /\ masked \in Seq(AnyUnit)
  BY MaskedType, ByteIsUnit
<1>3. Len(masked) = Len(data)
  <2>1. DOMAIN masked = 1..Len(data)
    BY <1>1 DEF Masked
  <2> QED  BY <1>1, <1>2, <2>1, LenProperties
<1> HIDE DEF masked
<1>4. s = masked \o tail
  BY DEF masked
<1>5. SubSeq(s, Len(masked) + 1, Len(s)) = tail /\ \A i \in 1..Len(masked) : s[i] = masked[i]
  BY <1>2, <1>4, BehindPart
<1>6. \A i \in 1..Len(data) : AsData(s[i]) = masked[i]
  <2> TAKE i \in 1..Len(data)
  <2>1. s[i] = masked[i] /\ masked[i] \in Byte
    BY <1>2, <1>3, <1>5, ElementOfSeq
  <2> QED  BY <2>1 DEF AsData, Byte
<1>7. read = masked
  <2>1. \A i \in 1..Len(data) : masked[i] \in Byte
    BY <1>2, <1>3, ElementOfSeq
  <2>2. read \in [1..Len(data) -> Byte]
    BY <1>6, <2>1 DEF DataOf
  <2>3. read \in Seq(Byte)
    BY <1>1, <2>2, SeqDef
  <2>4. Len(read) = Len(data) /\ \A i \in 1..Len(data) : read[i] = masked[i]
    <3>1. DOMAIN read = 1..Len(data) /\ \A i \in 1..Len(data) : read[i] = masked[i]
      BY <1>6 DEF DataOf
    <3> HIDE DEF read
    <3>3. Len(read) = Len(data)
      BY <1>1, <2>3, <3>1, LenProperties
    <3> QED  BY <3>1, <3>3
  <2> HIDE DEF read
  <2> QED  BY <1>2, <1>3, <2>3, <2>4, SeqEqual
<1>8. Masked(masked, k) = data
  BY MaskedTwice DEF masked
<1> QED  BY <1>3, <1>5, <1>7, <1>8

LEMMA PayloadIntact ==
    ASSUME WebInv, HistoryTyped, NEW e \in Ends, ReceivePayload(e), Intact(e)
    PROVE  Intact(e)'
<1>1. TypeOK /\ DataTyped
  BY DEF WebInv
<1>2. /\ Receiving(e) /\ rx[e] = "payload" /\ Reads(e, head[e].size)
      /\ UNCHANGED <<socket, sent, cut, swallowed>>
  BY DEF ReceivePayload
<1> DEFINE data == Masked(DataOf(wire[e], head[e].size), head[e].keys)
           new == [op |-> head[e].op, final |-> head[e].final, data |-> data]
<1>3. got'[e] = Append(got[e], new) /\ rx'[e] = "head"
  <2> HIDE DEF data
  <2>1. got' = [got EXCEPT ![e] = Append(got[e], new)] /\ rx' = [rx EXCEPT ![e] = "head"]
    BY DEF ReceivePayload, Delivers, Returns, data, DataOf
  <2> QED  BY <1>1, <2>1 DEF TypeOK, HistoryTyped
<1>4. wire'[e] = SubSeq(wire[e], head[e].size + 1, Len(wire[e])) /\ Len(wire[e]) >= head[e].size
  BY <1>1, <1>2 DEF Reads, DataTyped
<1> SUFFICES ASSUME ~cut'[Other(e)], ~swallowed'[e], ~told'[e]
             PROVE  Prefixed(e)' /\ (Lost(e)' \/ Chained(e)')
  BY <1>3 DEF Intact
<1> DEFINE frames == sent[Other(e)]
           n == Upcoming(e)
           f == frames[n]
<1>a. ~told[e]
  BY <1>1, ToldStays DEF Receives
<1>5. Prefixed(e) /\ Announced(e) /\ (Lost(e) \/ Chained(e)) /\ ~Waiting(e)
  BY <1>2, <1>a DEF Intact, Attends, Receiving, Waiting
<1>6. got[e] \in Seq(Frames) /\ frames \in Seq(Frames)
  BY Both DEF HistoryTyped
<1>7. n \in 1..Len(frames) /\ n + 1 \in 1..Len(frames) + 1
  <2>1. Len(got[e]) \in Nat /\ Len(frames) \in Nat
    BY <1>6, LenProperties
  <2> QED  BY <1>5, <2>1 DEF Announced, Upcoming
<1>8. f \in Frames /\ f.data \in Seq(Byte) /\ Len(f.data) \in Nat
  <2>1. f \in Frames
    BY <1>6, <1>7, ElementOfSeq
  <2>2. f.data \in Seq(Byte)
    BY <2>1 DEF Frames
  <2> QED  BY <2>1, <2>2, LenProperties
<1>9. head[e].op = f.op /\ head[e].final = f.final /\ head[e].size = Len(f.data)
  BY <1>5 DEF Announced, Upcoming
<1>10. ASSUME data = f.data PROVE Prefixed(e)' /\ Len(got'[e]) = n
  <2>1. new = f
    BY <1>8, <1>9, <1>10 DEF Frames
  <2>2. got'[e] = Append(got[e], sent[Other(e)][Upcoming(e)])
    BY <1>3, <2>1
  <2>3. Len(got[e]) < Len(sent[Other(e)]) /\ sent'[Other(e)] = sent[Other(e)]
    BY <1>2, <1>5 DEF Announced
  <2> QED  BY <1>5, <2>2, <2>3, GotNext
<1>11. CASE Lost(e)
  <2>1. wire[e] = <<>> /\ socket'[Other(e)] = "closed"
    BY <1>2, <1>11 DEF Lost
  <2>2. Len(f.data) = 0 /\ head[e].size = 0
    BY <1>4, <1>8, <1>9, <2>1
  <2>3. data = f.data
    <3>1. f.data = <<>>
      BY <1>8, <2>2, EmptySeq
    <3>2. DOMAIN data = {}
      BY <2>2 DEF Masked, DataOf
    <3>3. data = <<>>
      BY <3>2 DEF Masked
    <3> QED  BY <3>1, <3>3
  <2>4. wire'[e] = <<>>
    BY <1>4, <2>1, <2>2
  <2> QED  BY <1>10, <2>1, <2>3, <2>4 DEF Lost
<1>12. CASE Chained(e)
  <2>1. PICK keys, rest : Serialized(frames, keys, rest) /\ Unread(e, keys, rest)
    BY <1>12 DEF Chained
  <2> DEFINE k == keys[n]
             tail == rest[n + 1]
  <2>2. HeadOf(head[e], "payload", f, k) /\ wire[e] = Left("payload", f, k) \o tail
    <3> HIDE DEF HeadOf, Left
    <3> QED  BY <1>2, <1>5, <2>1 DEF Unread, Upcoming
  <2>3. head[e].keys = k /\ wire[e] = Masked(f.data, k) \o tail
    BY <2>2 DEF HeadOf, Left
  <2>4. k \in SUBSET Keys /\ tail \in Seq(AnyUnit)
    BY <1>7, <2>1 DEF Serialized
  <2>5. /\ Masked(DataOf(wire[e], Len(f.data)), k) = f.data
        /\ SubSeq(wire[e], Len(f.data) + 1, Len(wire[e])) = tail
    <3> DEFINE sentData == f.data
               s == wire[e]
    <3>1. s = Masked(sentData, k) \o tail /\ sentData \in Seq(Byte)
      BY <1>8, <2>3
    <3> HIDE DEF k, tail, sentData, s
    <3>2. /\ Masked(DataOf(s, Len(sentData)), k) = sentData
          /\ SubSeq(s, Len(sentData) + 1, Len(s)) = tail
      BY <2>4, <3>1, DataRead
    <3> QED  BY <3>2 DEF sentData, s
  <2>6. data = f.data /\ wire'[e] = tail
    <3> HIDE DEF k, tail, f
    <3> QED  BY <1>4, <1>9, <2>3, <2>5
  <2>7. Len(got'[e]) = n /\ Prefixed(e)'
    <3> HIDE DEF data
    <3> QED  BY <1>10, <2>6
  <2>8. ~Waiting(e)' /\ rx'[e] = "head" /\ sent' = sent
    BY <1>2, <1>3, <1>5 DEF Waiting
  <2>9. Unread(e, keys, rest)'
    BY <2>6, <2>7, <2>8 DEF Unread
  <2> QED  BY <2>1, <2>7, <2>8, <2>9 DEF Chained
<1> QED  BY <1>5, <1>11, <1>12

--------------------------------------------------------------------------------
(* The handshake, and the ends' ends.                                          *)

\* Nothing was sent, and nothing is on the wire: the handshake's message comes first.
LEMMA GreetingSent ==
    ASSUME NEW e \in Ends, HistoryTyped, Waiting(e)', sent'[Other(e)] = <<>>,
           wire'[e] = IF socket'[Other(e)] = "down" THEN <<>> ELSE Greeting(e)
    PROVE  Chained(e)'
<1> DEFINE keys == [i \in {} |-> {}]
           rest == [i \in 1..1 |-> <<>>]
<1>1. Len(<<>>) = 0 /\ 1..0 = {}
  OBVIOUS
<1>2. Serialized(<<>>, keys, rest)
  BY <1>1 DEF Serialized
<1>3. Greeting(e) \o <<>> = Greeting(e)
  BY DEF Greeting, Request, Response
<1>4. rest[1] = <<>>
  OBVIOUS
<1> HIDE DEF keys, rest
<1>5. Unread(e, keys, rest)'
  BY <1>3, <1>4 DEF Unread
<1> QED  BY <1>2, <1>5 DEF Chained

\* A handshake read that takes the message alone leaves the frames.
LEMMA GreetingRead ==
    ASSUME WebInv, HistoryTyped, Phases, NEW e \in Ends, Waiting(e), Intact(e),
           NEW n \in 1..Len(wire[e]), Takes(e, n),
           wire'[e] = SubSeq(wire[e], n + 1, Len(wire[e])),
           socket'[e] = "open", UNCHANGED <<reading, sent, cut, at, told>>
    PROVE  Intact(e)'
<1>1. TypeOK /\ DataTyped
  BY DEF WebInv
<1> SUFFICES ASSUME ~cut'[Other(e)], ~swallowed'[e], ~told'[e]
             PROVE  /\ Prefixed(e)'
                    /\ rx'[e] = "payload" => Announced(e)'
                    /\ Attends(e)' => Lost(e)' \/ Chained(e)'
  BY DEF Intact
<1>2. wire[e] \in Seq(AnyUnit) /\ Len(wire[e]) \in Nat
  BY <1>1, LenProperties DEF DataTyped
<1>3. n = 1 /\ wire[e] # <<>>
  <2>1. swallowed'[e] = (n > 1)
    <3>1. swallowed \in [Ends -> BOOLEAN] /\ swallowed' = [swallowed EXCEPT ![e] = n > 1]
      BY <1>1 DEF Takes, TypeOK
    <3> QED  BY <3>1, Zenon
  <2>2. ~(n > 1)
    BY <2>1
  <2> QED  BY <1>2, <2>2
<1>4. /\ sent[e] = <<>> /\ got[e] = <<>> /\ rx[e] = "head" /\ at[e] = "loop"
      /\ ~swallowed[e] /\ ~cut[Other(e)]
  BY DEF Phases
<1>5. Prefixed(e) /\ Chained(e)
  BY <1>3, <1>4 DEF Intact, Attends, Waiting, Lost
<1>6. PICK keys, rest : Serialized(sent[Other(e)], keys, rest) /\ Unread(e, keys, rest)
  BY <1>5 DEF Chained
<1>7. wire[e] = Greeting(e) \o rest[1]
  BY <1>3, <1>6 DEF Unread
<1>8. rest[1] \in Seq(AnyUnit)
  <2>1. sent[Other(e)] \in Seq(Frames)
    BY Both DEF HistoryTyped
  <2>2. 1 \in 1..Len(sent[Other(e)]) + 1
    BY <2>1, LenProperties
  <2> QED  BY <1>6, <2>2 DEF Serialized
<1>9. wire'[e] = rest[1]
  <2> DEFINE u == IF is_client(e) THEN [part |-> "response"] ELSE [part |-> "request"]
  <2>1. u \in AnyUnit /\ Greeting(e) = <<u>>
    BY DEF AnyUnit, Greeting, Response, Request
  <2> HIDE DEF u
  <2>2. SubSeq(wire[e], 2, Len(wire[e])) = rest[1]
    BY <1>7, <1>8, <2>1, BehindFirst
  <2> QED  BY <1>3, <2>2
<1>10. ~Waiting(e)' /\ rx'[e] = "head" /\ Len(got'[e]) + 1 = 1 /\ sent' = sent
  BY <1>4 DEF Waiting, reading
<1>11. Unread(e, keys, rest)'
  BY <1>9, <1>10 DEF Unread
<1>12. Chained(e)'
  BY <1>6, <1>10, <1>11 DEF Chained
<1>13. Prefixed(e)'
  BY <1>5 DEF Prefixed, reading
<1> QED  BY <1>10, <1>12, <1>13

LEMMA HandshakeIntact ==
    ASSUME WebInv, HistoryTyped, Phases, Handshake, NEW e \in Ends, Intact(e)
    PROVE  Intact(e)'
<1>1. TypeOK /\ DataTyped
  BY DEF WebInv
<1>2. {"client", "server"} = Ends /\ Other("client") = "server" /\ Other("server") = "client"
  BY DEF Ends, Other
<1>3. e = "client" \/ e = "server"
  BY <1>2
<1>a. UNCHANGED <<reading, sent, cut, told>>
  BY DEF Handshake, ClientConnects, ServerAccepts, ServerThrows, ClientOpens, ConnectFails, endpoint
<1>b. /\ got'[e] = got[e] /\ sent'[Other(e)] = sent[Other(e)] /\ cut'[Other(e)] = cut[Other(e)]
      /\ rx'[e] = rx[e] /\ head'[e] = head[e] /\ told'[e] = told[e]
  BY <1>a DEF reading
<1>c. socket \in [Ends -> {"down", "handshaking", "open", "closed"}]
  BY <1>1 DEF TypeOK
<1>4. CASE ClientConnects
  <2>1. /\ socket["client"] = "down" /\ socket["server"] = "down"
        /\ socket' = [socket EXCEPT !["client"] = "handshaking"]
        /\ UNCHANGED <<at, swallowed>>
    BY <1>4 DEF ClientConnects, Phases, endpoint
  <2>2. wire' = [wire EXCEPT !["server"] = wire["server"] \o Request]
    BY <1>2, <1>4, <2>1 DEF ClientConnects, Transmit
  <2>3. CASE e = "client"
    <3>1. wire'[e] = wire[e] /\ (Attends(e)' <=> Attends(e)) /\ Waiting(e) /\ Waiting(e)'
          /\ socket'[Other(e)] = socket[Other(e)]
      BY <1>1, <1>2, <1>c, <2>1, <2>2, <2>3 DEF Attends, Waiting, DataTyped
    <3> QED  BY <1>b, <2>1, <3>1, StillIntact
  <2>4. CASE e = "server"
    <3> SUFFICES ASSUME ~cut'[Other(e)], ~swallowed'[e], ~told'[e]
                 PROVE  /\ Prefixed(e)'
                        /\ rx'[e] = "payload" => Announced(e)'
                        /\ Attends(e)' => Lost(e)' \/ Chained(e)'
      BY DEF Intact
    <3>1. Waiting("client") /\ Waiting("server")
      BY <2>1 DEF Waiting
    <3>2. sent["client"] = <<>> /\ at["server"] = "loop" /\ rx["server"] = "head"
      BY <1>2, <3>1 DEF Phases
    <3>3. ~cut[Other(e)] /\ ~swallowed[e] /\ ~told[e]
      BY <1>b, <2>1
    <3>4. Prefixed(e) /\ (Lost(e) \/ Chained(e))
      BY <2>1, <2>4, <3>2, <3>3 DEF Intact, Attends
    <3>5. wire["server"] = <<>>
      <4>1. CASE Lost(e)
        BY <2>4, <4>1 DEF Lost
      <4>2. CASE Chained(e)
        BY <1>2, <2>1, <2>4, <3>1, <4>2 DEF Chained, Unread
      <4> QED  BY <3>4, <4>1, <4>2
    <3>6. wire'["server"] = Request
      <4>1. wire'["server"] = <<>> \o Request
        BY <1>1, <1>2, <2>2, <3>5 DEF DataTyped
      <4> QED  BY <4>1 DEF Request
    <3>7. socket'["client"] = "handshaking" /\ Waiting(e)'
      BY <1>2, <1>c, <2>1, <2>4 DEF Waiting
    <3>8. Greeting(e) = Request
      BY <2>4 DEF Greeting, is_client
    <3>9. Chained(e)'
      BY <1>2, <1>b, <2>4, <3>2, <3>6, <3>7, <3>8, GreetingSent
    <3>10. Prefixed(e)'
      BY <1>b, <3>4 DEF Prefixed
    <3> QED  BY <1>b, <2>4, <3>2, <3>9, <3>10
  <2> QED  BY <1>3, <2>3, <2>4
<1>5. CASE ServerAccepts
  <2>1. PICK n \in 1..Len(wire["server"]) :
          /\ Takes("server", n)
          /\ wire' = [wire EXCEPT !["server"] = SubSeq(@, n + 1, Len(@)),
                                  !["client"] = IF socket["client"] = "closed" THEN <<>>
                                                ELSE @ \o Response]
    BY <1>5 DEF ServerAccepts
  <2>2. /\ socket["server"] = "down" /\ socket["client"] # "down"
        /\ socket' = [socket EXCEPT !["server"] = "open"] /\ UNCHANGED <<at, reading, sent, cut, told>>
    BY <1>5 DEF ServerAccepts, endpoint
  <2>3. CASE e = "server"
    <3>1. wire'[e] = SubSeq(wire[e], n + 1, Len(wire[e]))
      BY <1>1, <1>2, <2>1, <2>3 DEF DataTyped
    <3>2. Waiting(e) /\ socket'[e] = "open"
      BY <1>2, <1>c, <2>2, <2>3 DEF Waiting
    <3> QED  BY <2>1, <2>2, <2>3, <3>1, <3>2, GreetingRead
  <2>4. CASE e = "client"
    <3>1. swallowed'[e] = swallowed[e] /\ at'[e] = at[e] /\ socket'[e] = socket[e]
      BY <1>1, <1>2, <1>c, <2>1, <2>2, <2>4 DEF Takes, TypeOK
    <3>2. CASE ~Attends(e)
      <4>1. ~Attends(e)'
        BY <3>1, <3>2 DEF Attends
      <4> QED  BY <1>b, <3>1, <4>1, DeafIntact
    <3>3. CASE Attends(e)
      <4>1. socket["client"] = "handshaking" /\ wire["client"] = <<>>
        BY <1>2, <1>c, <2>2, <2>4, <3>3 DEF Attends, Phases
      <4> SUFFICES ASSUME ~cut'[Other(e)], ~swallowed'[e], ~told'[e]
                   PROVE  /\ Prefixed(e)'
                          /\ rx'[e] = "payload" => Announced(e)'
                          /\ Attends(e)' => Lost(e)' \/ Chained(e)'
        BY DEF Intact
      <4>2. Waiting(e) /\ Waiting(Other(e)) /\ Waiting(e)'
        BY <1>2, <2>2, <2>4, <3>1, <4>1 DEF Waiting
      <4>3. sent[Other(e)] = <<>> /\ rx[e] = "head"
        BY <4>2, Both DEF Phases
      <4>4. wire'[e] = <<>> \o Response
        BY <1>1, <1>2, <2>1, <2>4, <4>1 DEF DataTyped
      <4>5. wire'[e] = Greeting(e) /\ socket'[Other(e)] # "down"
        BY <1>2, <1>c, <2>2, <2>4, <4>4 DEF Greeting, is_client, Response
      <4>6. Chained(e)'
        BY <1>b, <4>2, <4>3, <4>5, GreetingSent
      <4>7. Prefixed(e)'
        BY <1>b, <3>1 DEF Intact, Prefixed
      <4> QED  BY <1>b, <4>3, <4>6, <4>7
    <3> QED  BY <3>2, <3>3
  <2> QED  BY <1>3, <2>3, <2>4
<1>6. CASE ServerThrows
  <2>1. /\ socket["server"] = "down" /\ socket["client"] # "down"
        /\ socket' = [socket EXCEPT !["server"] = "closed"] /\ UNCHANGED <<wire, at, swallowed>>
    BY <1>6 DEF ServerThrows, endpoint
  <2>2. Attends(e)' => Lost(e)'
    <3>1. CASE e = "server"
      BY <1>2, <1>c, <2>1, <3>1 DEF Attends
    <3>2. CASE e = "client"
      BY <1>2, <1>c, <2>1, <3>2 DEF Lost, Phases
    <3> QED  BY <1>3, <3>1, <3>2
  <2> QED  BY <1>b, <2>1, <2>2, DeafIntact
<1>7. CASE ClientOpens
  <2>1. PICK n \in 1..Len(wire["client"]) :
          /\ Takes("client", n)
          /\ wire' = [wire EXCEPT !["client"] = SubSeq(@, n + 1, Len(@))]
    BY <1>7 DEF ClientOpens
  <2>2. /\ socket["client"] = "handshaking"
        /\ socket' = [socket EXCEPT !["client"] = "open"] /\ UNCHANGED <<at, reading, sent, cut, told>>
    BY <1>7 DEF ClientOpens, endpoint
  <2>3. CASE e = "client"
    <3>1. wire'[e] = SubSeq(wire[e], n + 1, Len(wire[e]))
      BY <1>1, <1>2, <2>1, <2>3 DEF DataTyped
    <3>2. Waiting(e) /\ socket'[e] = "open"
      BY <1>2, <1>c, <2>2, <2>3 DEF Waiting
    <3> QED  BY <2>1, <2>2, <2>3, <3>1, <3>2, GreetingRead
  <2>4. CASE e = "server"
    <3>1. /\ swallowed'[e] = swallowed[e] /\ at'[e] = at[e] /\ socket'[e] = socket[e]
          /\ wire'[e] = wire[e] /\ socket'[Other(e)] = "open" /\ socket[Other(e)] = "handshaking"
      BY <1>1, <1>2, <1>c, <2>1, <2>2, <2>4 DEF Takes, TypeOK, DataTyped
    <3>2. (Attends(e)' <=> Attends(e)) /\ (Waiting(e)' <=> Waiting(e))
      BY <3>1 DEF Attends, Waiting
    <3> QED  BY <1>b, <3>1, <3>2, StillIntact
  <2> QED  BY <1>3, <2>3, <2>4
<1>8. CASE ConnectFails
  <2>1. /\ socket["client"] = "handshaking"
        /\ socket' = [socket EXCEPT !["client"] = "open"]
        /\ at' = [at EXCEPT !["client"] = "leave"] /\ UNCHANGED <<wire, swallowed>>
    BY <1>8 DEF ConnectFails
  <2>2. CASE e = "client"
    <3>1. ~Attends(e)'
      BY <1>1, <1>2, <2>1, <2>2 DEF Attends, TypeOK
    <3> QED  BY <1>b, <2>1, <3>1, DeafIntact
  <2>3. CASE e = "server"
    <3>1. /\ at'[e] = at[e] /\ socket'[e] = socket[e]
          /\ socket'[Other(e)] = "open" /\ socket[Other(e)] = "handshaking"
      BY <1>1, <1>2, <2>1, <2>3 DEF TypeOK
    <3>2. (Attends(e)' <=> Attends(e)) /\ (Waiting(e)' <=> Waiting(e))
      BY <3>1 DEF Attends, Waiting
    <3> QED  BY <1>b, <2>1, <3>1, <3>2, StillIntact
  <2> QED  BY <1>3, <2>2, <2>3
<1> QED  BY <1>4, <1>5, <1>6, <1>7, <1>8 DEF Handshake

LEMMA EndsIntact ==
    ASSUME WebInv, HistoryTyped, Phases, NEW x \in Ends, Dies(x) \/ Reset(x),
           NEW e \in Ends, Intact(e)
    PROVE  Intact(e)'
<1>1. TypeOK /\ DataTyped
  BY DEF WebInv
<1>2. /\ UNCHANGED <<got, rx, head, at, sent, cut, swallowed>>
      /\ at'[e] = at[e] /\ got'[e] = got[e] /\ rx'[e] = rx[e] /\ head'[e] = head[e]
      /\ swallowed'[e] = swallowed[e] /\ sent'[Other(e)] = sent[Other(e)]
      /\ cut'[Other(e)] = cut[Other(e)] /\ told'[e] = told[e]
  BY DEF Dies, Reset, endpoint, reading
<1>3. CASE Dies(x)
  <2>1. /\ socket[x] \in {"handshaking", "open"} /\ wire' = wire
        /\ socket' = [socket EXCEPT ![x] = "closed"]
    BY <1>3 DEF Dies
  <2>2. CASE e = x
    <3>1. ~Attends(e)'
      BY <1>1, <2>1, <2>2 DEF Attends, TypeOK
    <3> QED  BY <1>2, <3>1, DeafIntact
  <2>3. CASE e = Other(x)
    <3>1. socket'[e] = socket[e] /\ Other(e) = x /\ socket'[x] = "closed"
      BY <1>1, <2>1, <2>3, Both DEF TypeOK
    <3>2. (Attends(e)' <=> Attends(e)) /\ (Waiting(e)' <=> Waiting(e))
      BY <1>2, <3>1 DEF Attends, Waiting
    <3> QED  BY <1>2, <2>1, <3>1, <3>2, StillIntact
  <2> QED  BY <2>2, <2>3, Both
<1>4. CASE Reset(x)
  <2>1. /\ socket[Other(x)] = "closed" /\ socket' = socket
        /\ wire' = [wire EXCEPT ![x] = <<>>]
    BY <1>4 DEF Reset
  <2>2. CASE e = x
    <3>1. Lost(e)'
      BY <1>1, <2>1, <2>2 DEF Lost, DataTyped
    <3> QED  BY <1>2, <3>1, DeafIntact
  <2>3. CASE e = Other(x)
    <3>1. wire'[e] = wire[e]
      BY <1>1, <2>1, <2>3, Both DEF DataTyped
    <3>2. (Attends(e)' <=> Attends(e)) /\ (Waiting(e)' <=> Waiting(e))
      BY <1>2, <2>1 DEF Attends, Waiting
    <3> QED  BY <1>2, <2>1, <3>1, <3>2, StillIntact
  <2> QED  BY <2>2, <2>3, Both
<1> QED  BY <1>3, <1>4

LEMMA PhasesKeep ==
    ASSUME WebInv, HistoryTyped, Phases, Next
    PROVE  Phases'
<1>1. /\ TypeOK /\ DataTyped
      /\ socket \in [Ends -> {"down", "handshaking", "open", "closed"}]
      /\ at \in [Ends -> {"loop", "answer", "leave"}]
  BY DEF WebInv, TypeOK
<1>2. /\ {"client", "server"} = Ends /\ Other("client") = "server" /\ Other("server") = "client"
      /\ \A x \in Ends : x = "client" \/ x = "server"
  BY DEF Ends, Other
<1>3. CASE Handshake
  <2>1. UNCHANGED <<rx, got, sent>>
    BY <1>3 DEF Handshake, ClientConnects, ServerAccepts, ServerThrows, ClientOpens,
                ConnectFails, endpoint, reading
  <2>2. \A e \in Ends : Waiting(e)' => Waiting(e) /\ at'[e] = at[e]
                                       /\ swallowed'[e] = swallowed[e]
    BY <1>1, <1>2, <1>3 DEF Handshake, ClientConnects, ServerAccepts, ServerThrows, ClientOpens,
                  ConnectFails, endpoint, Waiting, Takes, TypeOK
  <2>3. \A e \in Ends : Waiting(e)' =>
           /\ sent'[e] = <<>> /\ got'[e] = <<>>
           /\ rx'[e] = "head" /\ at'[e] = "loop" /\ ~swallowed'[e]
    BY <2>1, <2>2 DEF Phases
  <2>4. /\ socket'["client"] = "down" => socket'["server"] = "down"
        /\ socket'["server"] # "handshaking"
    BY <1>1, <1>2, <1>3 DEF Handshake, ClientConnects, ServerAccepts, ServerThrows, ClientOpens,
                            ConnectFails, Phases
  <2>5. socket'["server"] = "down" => /\ wire'["client"] = <<>>
                                      /\ socket'["client"] = "open" => at'["client"] = "leave"
    <3>1. CASE ClientConnects
      BY <1>1, <1>2, <3>1 DEF ClientConnects, Transmit, DataTyped, Phases
    <3>2. CASE ServerAccepts \/ ServerThrows
      BY <1>1, <1>2, <3>2 DEF ServerAccepts, ServerThrows
    <3>3. CASE ClientOpens
      <4>1. Len(wire["client"]) # 0
        BY <3>3 DEF ClientOpens
      <4>2. socket["server"] # "down"
        BY <4>1 DEF Phases
      <4> QED  BY <1>1, <1>2, <3>3, <4>2 DEF ClientOpens
    <3>4. CASE ConnectFails
      BY <1>1, <1>2, <3>4 DEF ConnectFails, Phases
    <3> QED  BY <1>3, <3>1, <3>2, <3>3, <3>4 DEF Handshake
  <2> QED  BY <2>3, <2>4, <2>5 DEF Phases
<1>4. ASSUME NEW x \in Ends, Speaks(x) \/ Answers(x) \/ disconnect(x) PROVE Phases'
  <2>1. PICK f, choices, next : Sends(x, f, choices, next)
    BY <1>4 DEF Speaks, Answers, disconnect
  <2>2. /\ UNCHANGED <<rx, got, swallowed>> /\ socket[x] # "down"
        /\ \/ socket' = socket /\ socket[x] = "open"
           \/ socket' = [socket EXCEPT ![x] = "closed"]
    BY <1>4 DEF Speaks, Answers, disconnect, Refused, reading
  <2>3. \A e \in Ends \ {x} : sent'[e] = sent[e] /\ at'[e] = at[e] /\ socket'[e] = socket[e]
    BY <1>1, <2>1, <2>2 DEF Sends, HistoryTyped
  <2>4. wire'[x] = wire[x]
    <3>1. \E u : Transmit(x, u)
      BY <2>1 DEF Sends
    <3> QED  BY <1>1, <3>1, Both DEF Transmit, DataTyped
  <2>5. socket'[x] \in {"open", "closed"} /\ (socket'[x] = "open" => socket[x] = "open")
    BY <1>1, <2>2
  <2>a. at[x] = "leave" /\ socket'[x] = "open" => at'[x] = "leave"
    <3>1. CASE Speaks(x)
      BY <1>1, <3>1 DEF Speaks, Sends
    <3>2. CASE Answers(x)
      BY <3>2 DEF Answers
    <3>3. CASE disconnect(x)
      BY <1>1, <3>3 DEF disconnect
    <3> QED  BY <1>4, <3>1, <3>2, <3>3
  <2>6. \A e \in Ends : Waiting(e)' => e # x /\ Waiting(e)
    BY <2>3, <2>5 DEF Waiting
  <2>7. \A e \in Ends : Waiting(e)' =>
           /\ sent'[e] = <<>> /\ got'[e] = <<>>
           /\ rx'[e] = "head" /\ at'[e] = "loop" /\ ~swallowed'[e]
    BY <2>2, <2>3, <2>6 DEF Phases
  <2>8. CASE x = "client"
    BY <1>2, <2>2, <2>3, <2>4, <2>5, <2>a, <2>7, <2>8 DEF Phases
  <2>9. CASE x = "server"
    BY <1>2, <2>2, <2>3, <2>5, <2>7, <2>9 DEF Phases
  <2> QED  BY <1>2, <2>8, <2>9
<1>5. ASSUME NEW x \in Ends, Receives(x) PROVE Phases'
  <2>1. /\ UNCHANGED <<socket, sent, swallowed>> /\ socket[x] = "open" /\ at[x] = "loop"
    BY <1>5 DEF Receives, ReceiveHead, ReceiveLength, ReceiveKey, ReceivePayload, ReceiveFails,
                Receiving
  <2>2. \A e \in Ends \ {x} : rx'[e] = rx[e] /\ got'[e] = got[e] /\ at'[e] = at[e]
    <3>1. ASSUME Returns(x) PROVE \A e \in Ends \ {x} : rx'[e] = rx[e]
      BY <1>1, <3>1 DEF Returns, TypeOK
    <3>2. ASSUME Fails(x) PROVE \A e \in Ends \ {x} : rx'[e] = rx[e] /\ at'[e] = at[e]
      BY <1>1, <3>1, <3>2 DEF Fails
    <3>3. ASSUME NEW h, HasLength(x, h)
          PROVE  UNCHANGED got /\ \A e \in Ends \ {x} : rx'[e] = rx[e] /\ at'[e] = at[e]
      BY <1>1, <3>2, <3>3 DEF HasLength, TypeOK
    <3>4. CASE ReceiveHead(x)
      BY <1>1, <3>2, <3>3, <3>4 DEF ReceiveHead, TypeOK
    <3>5. CASE ReceiveLength(x)
      BY <3>3, <3>5 DEF ReceiveLength
    <3>6. CASE ReceiveKey(x)
      BY <1>1, <3>6 DEF ReceiveKey, endpoint, TypeOK
    <3>7. CASE ReceivePayload(x)
      BY <1>1, <3>1, <3>7 DEF ReceivePayload, Delivers, HistoryTyped
    <3>8. CASE ReceiveFails(x)
      BY <3>2, <3>8 DEF ReceiveFails
    <3> QED  BY <1>5, <3>4, <3>5, <3>6, <3>7, <3>8 DEF Receives
  <2>3. \A e \in Ends : Waiting(e)' =>
           /\ sent'[e] = <<>> /\ got'[e] = <<>>
           /\ rx'[e] = "head" /\ at'[e] = "loop" /\ ~swallowed'[e]
    BY <2>1, <2>2 DEF Phases, Waiting
  <2>4. socket["server"] # "down"
    <3>1. CASE x = "client"
      BY <2>1, <3>1 DEF Phases
    <3>2. CASE x = "server"
      BY <2>1, <3>2
    <3> QED  BY <1>2, <3>1, <3>2
  <2> QED  BY <2>1, <2>3, <2>4 DEF Phases
<1>6. ASSUME NEW x \in Ends, Dies(x) \/ Reset(x) PROVE Phases'
  <2>1. UNCHANGED <<rx, got, at, sent, swallowed>>
    BY <1>6 DEF Dies, Reset, endpoint, reading
  <2>2. \A e \in Ends : socket'[e] = socket[e] \/ (socket[e] # "down" /\ socket'[e] = "closed")
    BY <1>1, <1>6 DEF Dies, Reset
  <2>3. wire'["client"] = wire["client"] \/ wire'["client"] = <<>>
    BY <1>1, <1>2, <1>6 DEF Dies, Reset, DataTyped
  <2> QED  BY <1>2, <2>1, <2>2, <2>3 DEF Phases, Waiting
<1>7. CASE Over
  BY <1>7 DEF Over, vars, endpoint, reading, Phases, Waiting
<1> QED  BY <1>3, <1>4, <1>5, <1>6, <1>7 DEF Next, Application

--------------------------------------------------------------------------------
(* The invariant.                                                              *)

LEMMA FramesInit == Init => FramesInv
<1> SUFFICES ASSUME Init PROVE FramesInv
  OBVIOUS
<1>1. HistoryTyped
  BY DEF Init, HistoryTyped
<1>2. Phases
  BY DEF Init, Phases, Ends
<1>3. ASSUME NEW e \in Ends PROVE Intact(e)
  <2>1. got[e] = <<>> /\ sent[Other(e)] = <<>> /\ wire[e] = <<>> /\ rx[e] = "head"
        /\ socket[e] = "down" /\ socket[Other(e)] = "down"
    BY Both DEF Init
  <2>2. Prefixed(e)
    BY <2>1 DEF Prefixed
  <2>3. Chained(e)
    <3> DEFINE keys == [i \in {} |-> {}]
               rest == [i \in 1..1 |-> <<>>]
    <3>1. Len(<<>>) = 0 /\ 1..0 = {}
      OBVIOUS
    <3>2. Serialized(<<>>, keys, rest)
      BY <3>1 DEF Serialized
    <3>3. Unread(e, keys, rest)
      BY <2>1 DEF Unread, Waiting
    <3> QED  BY <2>1, <3>2, <3>3 DEF Chained
  <2> QED  BY <2>1, <2>2, <2>3 DEF Intact
<1> QED  BY <1>1, <1>2, <1>3, WebInit DEF FramesInv

LEMMA FramesNext == FramesInv /\ [Next]_vars => FramesInv'
<1> SUFFICES ASSUME FramesInv, [Next]_vars PROVE FramesInv'
  OBVIOUS
<1>1. /\ WebInv /\ WebInv' /\ HistoryTyped /\ Phases
      /\ \A e \in Ends : Intact(e)
  BY WebNext DEF FramesInv
<1>2. CASE Next
  <2>1. HistoryTyped' /\ Phases'
    BY <1>1, <1>2, HistoryKeeps, PhasesKeep
  <2>2. ASSUME NEW e \in Ends PROVE Intact(e)'
    <3>1. Intact(e)
      BY <1>1
    <3>2. CASE Handshake
      BY <1>1, <3>1, <3>2, HandshakeIntact
    <3>3. ASSUME NEW x \in Ends, Speaks(x) \/ Answers(x) \/ disconnect(x) PROVE Intact(e)'
      BY <1>1, <3>1, <3>3, SendIntact
    <3>4. ASSUME NEW x \in Ends, Dies(x) \/ Reset(x) PROVE Intact(e)'
      BY <1>1, <3>1, <3>4, EndsIntact
    <3>5. ASSUME NEW x \in Ends, Receives(x) PROVE Intact(e)'
      <4>1. CASE e # x
        BY <1>1, <3>1, <3>5, <4>1, ReceiveApart
      <4>2. CASE e = x /\ ReceiveHead(e)
        BY <1>1, <3>1, <4>2, HeadIntact
      <4>3. CASE e = x /\ ReceiveLength(e)
        BY <1>1, <3>1, <4>3, LengthPartIntact
      <4>4. CASE e = x /\ ReceiveKey(e)
        BY <1>1, <3>1, <4>4, KeyIntact
      <4>5. CASE e = x /\ ReceivePayload(e)
        BY <1>1, <3>1, <4>5, PayloadIntact
      <4>6. CASE e = x /\ ReceiveFails(e)
        BY <1>1, <4>6, FailsIntact DEF WebInv, ReceiveFails
      <4> QED  BY <3>5, <4>1, <4>2, <4>3, <4>4, <4>5, <4>6 DEF Receives
    <3>6. CASE Over
      BY <3>1, <3>6 DEF Over, vars, endpoint, reading, Intact, Prefixed, Announced, Attends, Lost,
                        Chained, Unread, Waiting
    <3> QED  BY <1>2, <3>2, <3>3, <3>4, <3>5, <3>6 DEF Next, Application
  <2> QED  BY <1>1, <2>1, <2>2 DEF FramesInv
<1>3. CASE UNCHANGED vars
  <2>1. HistoryTyped' /\ Phases'
    BY <1>1, <1>3 DEF HistoryTyped, Phases, Waiting, vars, endpoint, reading
  <2>2. ASSUME NEW e \in Ends PROVE Intact(e)'
    <3>1. Intact(e)
      BY <1>1
    <3> QED  BY <1>3, <3>1 DEF vars, endpoint, reading, Intact, Prefixed, Announced, Attends, Lost,
                              Chained, Unread, Waiting
  <2> QED  BY <1>1, <2>1, <2>2 DEF FramesInv
<1> QED  BY <1>2, <1>3

\* Prefixed says it element by element.
LEMMA PrefixedIsPrefix ==
    ASSUME NEW S, NEW s \in Seq(S), NEW t \in Seq(S), Len(s) <= Len(t),
           \A i \in 1..Len(s) : s[i] = t[i]
    PROVE  IsPrefix(s, t)
<1>1. Len(s) \in Nat /\ Len(t) \in Nat
  BY LenProperties
<1>2. SubSeq(t, 1, Len(s)) \in Seq(S)
  BY <1>1, PieceType
<1>3. /\ Len(SubSeq(t, 1, Len(s))) = Len(s)
      /\ \A i \in 1..Len(s) : SubSeq(t, 1, Len(s))[i] = t[i]
  BY <1>1, SubSeqProperties, ElementOfSeq
<1>4. SubSeq(t, 1, Len(s)) = s
  BY <1>2, <1>3, SeqEqual
<1>5. SubSeq(s, 1, Len(s)) = s
  BY SubSeqFull
<1> QED  BY <1>4, <1>5 DEF IsPrefix

--------------------------------------------------------------------------------
(* Pings and their answers.                                                    *)

\* A set of numbers has a least one.
LEMMA LeastOne ==
    ASSUME NEW numbers \in SUBSET Nat, numbers # {}
    PROVE  \E n \in numbers : \A m \in numbers : n <= m
<1> DEFINE below == {p \in Nat \X Nat : p[1] < p[2]}
<1>1. IsWellFoundedOn(below, Nat)
  BY NatLessThanWellFounded DEF OpToRel
<1>2. \A p, q \in Nat : q < p => <<q, p>> \in below
  OBVIOUS
<1> HIDE DEF below
<1>3. PICK n \in numbers : \A q \in numbers : <<q, n>> \notin below
  BY <1>1, WFMin, Zenon
<1>4. ASSUME NEW q \in numbers PROVE n <= q
  <2>1. n \in Nat /\ q \in Nat
    OBVIOUS
  <2>2. ~(q < n)
    BY <1>2, <1>3, <2>1
  <2> QED  BY <2>1, <2>2
<1> QED  BY <1>4

\* among is what Data's function is, up to the n-th frame.
Collects(frames, op, n, among) ==
    /\ among \in [0..n -> Seq(Seq(Byte))]
    /\ among[0] = <<>>
    /\ \A i \in 1..n : among[i] = IF frames[i].op = op THEN Append(among[i - 1], frames[i].data)
                                  ELSE among[i - 1]

\* One frame more.
Continues(frames, op, n, among) ==
    \E more : Collects(frames, op, n + 1, more) /\ \A i \in 0..n : more[i] = among[i]

LEMMA CollectsMore ==
    ASSUME NEW frames, NEW op, NEW n \in Nat, NEW among, Collects(frames, op, n, among),
           frames[n + 1].data \in Seq(Byte)
    PROVE  Continues(frames, op, n, among)
<1> DEFINE new == IF frames[n + 1].op = op THEN Append(among[n], frames[n + 1].data) ELSE among[n]
           more == [i \in 0..n + 1 |-> IF i = n + 1 THEN new ELSE among[i]]
<1>1. among \in [0..n -> Seq(Seq(Byte))] /\ n \in 0..n
  BY DEF Collects
<1>2. new \in Seq(Seq(Byte))
  BY <1>1, AppendProperties
<1>3. more \in [0..n + 1 -> Seq(Seq(Byte))]
  BY <1>1, <1>2
<1>4. more[0] = <<>>
  BY DEF Collects
<1>5. ASSUME NEW i \in 1..n + 1
      PROVE  more[i] = IF frames[i].op = op THEN Append(more[i - 1], frames[i].data)
                       ELSE more[i - 1]
  <2>1. more[i - 1] = among[i - 1]
    OBVIOUS
  <2>2. CASE i = n + 1
    <3>1. more[i] = new /\ i - 1 = n
      BY <2>2
    <3> HIDE DEF more
    <3> QED  BY <2>1, <2>2, <3>1
  <2>3. CASE i \in 1..n
    <3>1. more[i] = among[i]
      BY <2>3
    <3> HIDE DEF more
    <3> QED  BY <2>1, <2>3, <3>1 DEF Collects
  <2> QED  BY <2>2, <2>3
<1>6. \A i \in 0..n : more[i] = among[i]
  OBVIOUS
<1> HIDE DEF more
<1> QED  BY <1>3, <1>4, <1>5, <1>6 DEF Collects, Continues

LEMMA CollectsAll ==
    ASSUME NEW frames \in Seq(Frames), NEW op
    PROVE  \E among : Collects(frames, op, Len(frames), among)
<1> DEFINE Bad == {n \in 0..Len(frames) : ~ \E among : Collects(frames, op, n, among)}
<1>1. Len(frames) \in Nat
  BY LenProperties
<1>2. Bad \in SUBSET Nat
  BY <1>1
<1>3. ASSUME NEW n \in Bad, \A m \in Bad : n <= m PROVE FALSE
  <2>1. CASE n = 0
    <3> DEFINE among == [i \in 0..0 |-> <<>>]
    <3>1. <<>> \in Seq(Seq(Byte)) /\ 1..0 = {}
      OBVIOUS
    <3>2. Collects(frames, op, 0, among)
      BY <3>1 DEF Collects
    <3> QED  BY <2>1, <3>2
  <2>2. CASE n # 0
    <3>1. n - 1 \in Nat /\ n - 1 \in 0..Len(frames) /\ n \in 1..Len(frames) /\ (n - 1) + 1 = n
          /\ n - 1 \notin Bad
      BY <1>1, <1>3, <2>2
    <3>2. \E among : Collects(frames, op, n - 1, among)
      BY <3>1
    <3>3. frames[n].data \in Seq(Byte)
      <4>1. frames[n] \in Frames
        BY <3>1, ElementOfSeq
      <4> QED  BY <4>1 DEF Frames
    <3>4. \E among : Collects(frames, op, (n - 1) + 1, among)
      <4> DEFINE k == n - 1
      <4>1. k \in Nat /\ (\E among : Collects(frames, op, k, among)) /\ frames[k + 1].data \in Seq(Byte)
        BY <3>1, <3>2, <3>3
      <4> HIDE DEF k
      <4>2. \E among : Collects(frames, op, k + 1, among)
        BY <4>1, CollectsMore DEF Continues
      <4> QED  BY <4>2 DEF k
    <3>5. \E among : Collects(frames, op, n, among)
      BY <3>1, <3>4
    <3> QED  BY <3>5
  <2> QED  BY <2>1, <2>2
<1> HIDE DEF Bad
<1>4. Bad = {}
  BY <1>2, <1>3, LeastOne
<1>5. Len(frames) \in 0..Len(frames)
  BY <1>1
<1> QED  BY <1>4, <1>5 DEF Bad

\* What Data is, by any such function.
LEMMA DataIs ==
    ASSUME NEW frames \in Seq(Frames), NEW op, NEW among, Collects(frames, op, Len(frames), among)
    PROVE  Data(frames, op) = among[Len(frames)]
<1> DEFINE N == Len(frames)
           Is(h) == h = [n \in 0..N |->
                           IF n = 0 THEN <<>>
                           ELSE IF frames[n].op = op THEN Append(h[n - 1], frames[n].data)
                           ELSE h[n - 1]]
           those == CHOOSE h : Is(h)
<1>1. N \in Nat
  BY LenProperties
<1>2. Is(among)
  <2>1. among = [n \in 0..N |-> among[n]]
    BY DEF Collects
  <2>2. \A n \in 0..N : among[n] = IF n = 0 THEN <<>>
                           ELSE IF frames[n].op = op THEN Append(among[n - 1], frames[n].data)
                           ELSE among[n - 1]
    <3> TAKE n \in 0..N
    <3>1. n = 0 \/ n \in 1..N
      BY <1>1
    <3>2. n \in 1..N => n # 0
      BY <1>1
    <3> QED  BY <3>1, <3>2 DEF Collects
  <2> HIDE DEF N
  <2> QED  BY <2>1, <2>2
<1>3. Is(those)
  <2> HIDE DEF Is
  <2> QED  BY <1>2
<1>4. Data(frames, op) = those[N]
  BY DEF Data
<1> HIDE DEF those
<1>5. \A i \in 0..N : those[i] = among[i]
  <2> DEFINE Bad == {i \in 0..N : those[i] # among[i]}
  <2>1. Bad \in SUBSET Nat
    BY <1>1
  <2>2. ASSUME NEW i \in Bad, \A m \in Bad : i <= m PROVE FALSE
    <3>1. those[0] = <<>> /\ among[0] = <<>>
      BY <1>1, <1>2, <1>3
    <3>2. i # 0 /\ i \in 0..N /\ those[i] # among[i]
      BY <3>1
    <3>3. i - 1 \in 0..N /\ i - 1 \notin Bad
      BY <1>1, <2>2, <3>2
    <3>4. those[i - 1] = among[i - 1]
      BY <3>3
    <3> QED  BY <1>2, <1>3, <3>2, <3>4
  <2> HIDE DEF Bad
  <2>3. Bad = {}
    BY <2>1, <2>2, LeastOne
  <2> QED  BY <2>3 DEF Bad
<1> QED  BY <1>1, <1>4, <1>5

LEMMA DataIsData ==
    ASSUME NEW frames \in Seq(Frames), NEW op
    PROVE  Data(frames, op) \in Seq(Seq(Byte))
<1>1. PICK among : Collects(frames, op, Len(frames), among)
  BY CollectsAll
<1>2. Len(frames) \in 0..Len(frames)
  BY LenProperties
<1> QED  BY <1>1, <1>2, DataIs DEF Collects

\* A frame more: its data more, if it has the opcode.
LEMMA DataMore ==
    ASSUME NEW frames \in Seq(Frames), NEW f \in Frames, NEW op
    PROVE  Data(Append(frames, f), op) = IF f.op = op THEN Append(Data(frames, op), f.data)
                                         ELSE Data(frames, op)
<1> DEFINE n == Len(frames)
           longer == Append(frames, f)
<1>1. /\ n \in Nat /\ longer \in Seq(Frames) /\ Len(longer) = n + 1
      /\ (\A i \in 1..n : longer[i] = frames[i]) /\ longer[n + 1] = f
  BY AppendProperties, LenProperties
<1>2. PICK among : Collects(frames, op, n, among)
  BY CollectsAll
<1> HIDE DEF n, longer
<1>3. Collects(longer, op, n, among)
  BY <1>1, <1>2 DEF Collects
<1>4. PICK more : Collects(longer, op, n + 1, more) /\ \A i \in 0..n : more[i] = among[i]
  <2>1. longer[n + 1].data \in Seq(Byte)
    BY <1>1 DEF Frames
  <2>2. Continues(longer, op, n, among)
    BY <1>1, <1>3, <2>1, CollectsMore
  <2> QED  BY <2>2 DEF Continues
<1>5. Data(longer, op) = more[n + 1]
  BY <1>1, <1>4, DataIs
<1>6. Data(frames, op) = among[n]
  BY <1>2, DataIs DEF n
<1>7. more[n + 1] = IF f.op = op THEN Append(more[n], f.data) ELSE more[n]
  <2>1. n + 1 \in 1..n + 1 /\ (n + 1) - 1 = n
    BY <1>1
  <2> QED  BY <1>1, <1>4, <2>1 DEF Collects
<1>8. more[n] = among[n]
  BY <1>1, <1>4
<1> QED  BY <1>5, <1>6, <1>7, <1>8 DEF longer

LEMMA DataNone == \A op : Data(<<>>, op) = <<>>
<1> TAKE op
<1> DEFINE none == <<>>
<1>1. none \in Seq(Frames) /\ Len(none) = 0
  OBVIOUS
<1> HIDE DEF none
<1>2. PICK among : Collects(none, op, Len(none), among)
  BY <1>1, CollectsAll
<1>3. Data(none, op) = among[0]
  BY <1>1, <1>2, DataIs
<1> QED  BY <1>2, <1>3 DEF Collects, none

--------------------------------------------------------------------------------
(* An end owes a Pong while it is about to answer, or was when it left.         *)

\* No script has a Pong of its own.
OnlyAnswers == \A e \in Ends : \A n \in 1..Len(Script[e]) : Script[e][n].op # "Pong"

Owes(e) ==
    LET pings == Data(got[e], "Ping")
        pongs == Data(sent[e], "Pong")
    IN  \/ at[e] # "answer" /\ pings = pongs
        \/ at[e] # "loop" /\ pings = Append(pongs, frame[e].data)

PongsInv == FramesInv /\ \A e \in Ends : Owes(e)

\* What Speaks, Answers and disconnect do to the Pongs.
LEMMA SentPongs ==
    ASSUME OnlyAnswers, WebInv, HistoryTyped, NEW x \in Ends,
           Speaks(x) \/ Answers(x) \/ disconnect(x), Owes(x)
    PROVE  Owes(x)'
<1>1. TypeOK /\ DataTyped
  BY DEF WebInv
<1>2. sent[x] \in Seq(Frames) /\ got' = got /\ frame' = frame
  BY DEF HistoryTyped, Speaks, Answers, disconnect, reading
<1>3. ASSUME NEW f, NEW choices, NEW next \in {"loop", "answer", "leave"}, Sends(x, f, choices, next)
      PROVE  sent'[x] = Append(sent[x], f) /\ at'[x] \in {next, "leave"}
  <2>1. sent' = [sent EXCEPT ![x] = Append(sent[x], f)]
    BY <1>3 DEF Sends
  <2>2. at' = [at EXCEPT ![x] = next] \/ at' = [at EXCEPT ![x] = "leave"]
    BY <1>3 DEF Sends
  <2> QED  BY <1>1, <2>1, <2>2 DEF TypeOK, HistoryTyped
<1>4. CASE Speaks(x)
  <2> DEFINE n == spoken[x] + 1
             f == [op |-> Script[x][n].op, final |-> Script[x][n].final,
                   data |-> Payload(x, n, Script[x][n].size)]
  <2>1. Sends(x, f, FrameKeys(x), at[x]) /\ at[x] \in {"loop", "answer", "leave"}
    BY <1>1, <1>4 DEF Speaks, TypeOK
  <2>2. n \in 1..Len(Script[x]) /\ n \in Nat
    BY <1>1, <1>4, WebSocketAssumption, LenProperties DEF Speaks, TypeOK
  <2>3. f \in Frames /\ f.op # "Pong"
    BY <2>2, ScriptFrame DEF OnlyAnswers
  <2> HIDE DEF f
  <2>4. sent'[x] = Append(sent[x], f) /\ at'[x] \in {at[x], "leave"}
    BY <1>3, <2>1
  <2>5. Data(sent'[x], "Pong") = Data(sent[x], "Pong")
    BY <1>2, <2>3, <2>4, DataMore
  <2> QED  BY <1>2, <2>4, <2>5 DEF Owes
<1>5. CASE Answers(x)
  <2> DEFINE f == [frame[x] EXCEPT !.op = "Pong"]
  <2>1. Sends(x, f, FrameKeys(x), "loop") /\ at[x] = "answer"
    BY <1>5 DEF Answers
  <2>2. f \in Frames /\ f.op = "Pong" /\ f.data = frame[x].data
    BY <1>1 DEF DataTyped, Frames, Opcodes
  <2> HIDE DEF f
  <2>4. sent'[x] = Append(sent[x], f) /\ at'[x] # "answer"
    BY <1>3, <2>1
  <2>5. Data(sent'[x], "Pong") = Append(Data(sent[x], "Pong"), frame[x].data)
    BY <1>2, <2>2, <2>4, DataMore
  <2> QED  BY <1>2, <2>1, <2>4, <2>5 DEF Owes
<1>6. CASE disconnect(x)
  <2> DEFINE f == [NoFrame EXCEPT !.op = "Disconnect"]
  <2>1. Sends(x, f, NextKeys(x), "leave")
    BY <1>6 DEF disconnect
  <2>2. f \in Frames /\ f.op # "Pong"
    <3>1. NoFrame \in Frames /\ "Disconnect" \in Opcodes
      BY DEF NoFrame, Frames, Opcodes
    <3> QED  BY <3>1 DEF Frames
  <2> HIDE DEF f
  <2>4. sent'[x] = Append(sent[x], f) /\ at'[x] = "leave"
    BY <1>3, <2>1
  <2>5. Data(sent'[x], "Pong") = Data(sent[x], "Pong")
    BY <1>2, <2>2, <2>4, DataMore
  <2> QED  BY <1>2, <2>4, <2>5 DEF Owes
<1> QED  BY <1>4, <1>5, <1>6

LEMMA PongsNext == ASSUME OnlyAnswers PROVE PongsInv /\ [Next]_vars => PongsInv'
<1> SUFFICES ASSUME PongsInv, [Next]_vars PROVE PongsInv'
  OBVIOUS
<1>1. /\ FramesInv /\ FramesInv' /\ WebInv /\ WebInv' /\ HistoryTyped /\ Phases
      /\ \A e \in Ends : Owes(e)
  BY FramesNext DEF PongsInv, FramesInv
<1>2. TypeOK /\ DataTyped /\ DataTyped'
  BY <1>1 DEF WebInv
<1> SUFFICES ASSUME NEW e \in Ends PROVE Owes(e)'
  BY <1>1 DEF PongsInv
<1>3. ASSUME got'[e] = got[e], sent'[e] = sent[e], frame'[e] = frame[e],
             at'[e] = at[e] \/ (at[e] = "loop" /\ at'[e] # "answer")
      PROVE  Owes(e)'
  BY <1>1, <1>3 DEF Owes
<1>4. CASE Handshake
  <2>1. UNCHANGED <<got, sent, frame>>
    BY <1>4 DEF Handshake, ClientConnects, ServerAccepts, ServerThrows, ClientOpens,
                ConnectFails, endpoint, reading
  <2>2. at'[e] = at[e] \/ (at[e] = "loop" /\ at'[e] # "answer")
    <3>1. CASE ConnectFails
      <4>1. Waiting("client") /\ "client" \in Ends
        BY <3>1 DEF ConnectFails, Waiting, Ends
      <4>2. at["client"] = "loop"
        BY <1>1, <4>1 DEF Phases
      <4> QED  BY <1>2, <3>1, <4>2 DEF ConnectFails, TypeOK
    <3> QED  BY <1>4, <3>1 DEF Handshake, ClientConnects, ServerAccepts, ServerThrows, ClientOpens,
                               endpoint
  <2> QED  BY <1>3, <2>1, <2>2
<1>5. ASSUME NEW x \in Ends, Speaks(x) \/ Answers(x) \/ disconnect(x) PROVE Owes(e)'
  <2>1. CASE e = x
    BY <1>1, <1>5, <2>1, SentPongs
  <2>2. CASE e # x
    <3>1. PICK f, choices, next : Sends(x, f, choices, next)
      BY <1>5 DEF Speaks, Answers, disconnect
    <3>2. sent'[e] = sent[e] /\ at'[e] = at[e]
      BY <1>1, <1>2, <2>2, <3>1 DEF Sends, HistoryTyped, TypeOK
    <3>3. got' = got /\ frame' = frame
      BY <1>5 DEF Speaks, Answers, disconnect, reading
    <3> QED  BY <1>3, <3>2, <3>3
  <2> QED  BY <2>1, <2>2
<1>6. ASSUME NEW x \in Ends, ReceivePayload(x) PROVE Owes(e)'
  <2>1. PICK f : Delivers(x, f)
    BY <1>6 DEF ReceivePayload
  <2>2. /\ frame' = [frame EXCEPT ![x] = f] /\ got' = [got EXCEPT ![x] = Append(got[x], f)]
        /\ at' = [at EXCEPT ![x] = Reaction(f.op)] /\ UNCHANGED sent /\ at[x] = "loop"
    BY <1>6, <2>1 DEF Delivers, ReceivePayload, Receiving
  <2>3. CASE e # x
    BY <1>1, <1>2, <1>3, <2>2, <2>3 DEF TypeOK, DataTyped, HistoryTyped
  <2>4. CASE e = x
    <3>1. frame'[e] = f /\ got'[e] = Append(got[e], f) /\ at'[e] = Reaction(f.op)
      BY <1>1, <1>2, <2>2, <2>4 DEF TypeOK, DataTyped, HistoryTyped
    <3>2. f \in Frames /\ got[e] \in Seq(Frames)
      BY <1>1, <1>2, <3>1 DEF DataTyped, HistoryTyped
    <3>3. Data(got'[e], "Ping") = IF f.op = "Ping" THEN Append(Data(got[e], "Ping"), f.data)
                                  ELSE Data(got[e], "Ping")
      <4> DEFINE g == got[e]
      <4> HIDE DEF g
      <4>1. g \in Seq(Frames) /\ got'[e] = Append(g, f)
        BY <3>1, <3>2 DEF g
      <4>2. Data(Append(g, f), "Ping") = IF f.op = "Ping" THEN Append(Data(g, "Ping"), f.data)
                                         ELSE Data(g, "Ping")
        BY <3>2, <4>1, DataMore
      <4> QED  BY <4>1, <4>2 DEF g
    <3>4. Data(got[e], "Ping") = Data(sent[e], "Pong") /\ sent' = sent
      BY <1>1, <2>2, <2>4 DEF Owes
    <3>5. IF f.op = "Ping" THEN Reaction(f.op) = "answer" ELSE Reaction(f.op) # "answer"
      BY DEF Reaction
    <3> QED  BY <3>1, <3>3, <3>4, <3>5 DEF Owes
  <2> QED  BY <2>3, <2>4
<1>7. ASSUME NEW x \in Ends, Receives(x), ~ReceivePayload(x) PROVE Owes(e)'
  <2>1. UNCHANGED <<got, sent, frame>>
    BY <1>7 DEF Receives, ReceiveHead, ReceiveLength, ReceiveKey, ReceiveFails, HasLength
  <2>2. \/ at' = at
        \/ at[x] = "loop" /\ \E to \in {"leave", "loop"} : at' = [at EXCEPT ![x] = to]
    BY <1>7 DEF Receives, ReceiveHead, ReceiveLength, ReceiveKey, ReceiveFails, HasLength,
                Fails, Receiving, endpoint
  <2>3. at'[e] = at[e] \/ (at[e] = "loop" /\ at'[e] # "answer")
    BY <1>2, <2>2 DEF TypeOK
  <2> QED  BY <1>3, <2>1, <2>3
<1>8. ASSUME NEW x \in Ends, Dies(x) \/ Reset(x) PROVE Owes(e)'
  BY <1>3, <1>8 DEF Dies, Reset, endpoint, reading
<1>9. CASE UNCHANGED vars
  BY <1>3, <1>9 DEF vars, endpoint, reading
<1> QED  BY <1>4, <1>5, <1>6, <1>7, <1>8, <1>9 DEF Next, Application, Over

--------------------------------------------------------------------------------
(* What is proved.                                                             *)

\* Types: every field that is read has a value of its type, whatever is read in the place
\* of a header, and a key is read of masked frames only.
THEOREM WebSocketTypes == Spec => []TypeOK
<1>1. Init => WebInv
  BY WebInit
<1>2. WebInv /\ [Next]_vars => WebInv'
  BY WebNext
<1>3. WebInv => TypeOK
  BY DEF WebInv
<1> QED  BY <1>1, <1>2, <1>3, PTL DEF Spec

\* Whatever the peer writes into the length fields, and whatever bytes are read as one,
\* WebFrame::receive makes no room for a payload above the limit.
THEOREM LimitHolds == Spec => []WithinLimit
<1>1. Init => WebInv
  BY WebInit
<1>2. WebInv /\ [Next]_vars => WebInv'
  BY WebNext
<1>3. WebInv => WithinLimit
  BY DEF WebInv
<1> QED  BY <1>1, <1>2, <1>3, PTL DEF Spec

\* What receive gives to an application with Success are the frames that the other one
\* sent: whole, unmasked, in order and once, unless a send ended in the middle of a frame,
\* the handshake took frames with it, or a status already ended the connection.
THEOREM FramesArriveIntact == Spec => []FramesIntact
<1>1. FramesInv => FramesIntact
  <2> SUFFICES ASSUME FramesInv, NEW e \in Ends, ~cut[Other(e)], ~swallowed[e], ~told[e]
               PROVE  IsPrefix(got[e], sent[Other(e)])
    BY DEF FramesIntact
  <2>1. Prefixed(e) /\ got[e] \in Seq(Frames) /\ sent[Other(e)] \in Seq(Frames)
    BY Both DEF FramesInv, Intact, HistoryTyped
  <2> QED  BY <2>1, PrefixedIsPrefix DEF Prefixed
<1> QED  BY <1>1, FramesInit, FramesNext, PTL DEF Spec

\* Where no application sends Pongs of its own, the Pongs an end sends are the Pings it
\* got, payload by payload and in order, and it owes one only while it is about to answer,
\* or has left.
THEOREM PongsAlwaysEcho == ASSUME OnlyAnswers PROVE Spec => []PongsEchoPings
<1>1. Init => PongsInv
  <2> SUFFICES ASSUME Init PROVE \A e \in Ends : Owes(e)
    BY FramesInit DEF PongsInv
  <2> QED  BY DataNone DEF Init, Owes
<1>2. PongsInv => PongsEchoPings
  <2> SUFFICES ASSUME PongsInv, NEW e \in Ends
               PROVE  /\ IsPrefix(Data(sent[e], "Pong"), Data(got[e], "Ping"))
                      /\ at[e] = "loop" => Data(sent[e], "Pong") = Data(got[e], "Ping")
    BY DEF PongsEchoPings
  <2> DEFINE pings == Data(got[e], "Ping")
             pongs == Data(sent[e], "Pong")
  <2>1. pings \in Seq(Seq(Byte)) /\ pongs \in Seq(Seq(Byte))
    BY DataIsData DEF PongsInv, FramesInv, HistoryTyped
  <2>2. Owes(e) /\ frame[e].data \in Seq(Byte)
    BY DEF PongsInv, FramesInv, WebInv, DataTyped, Frames
  <2>3. \/ pings = pongs
        \/ at[e] # "loop" /\ pings = Append(pongs, frame[e].data)
    BY <2>2 DEF Owes
  <2> HIDE DEF pings, pongs
  <2>4. Len(pongs) <= Len(pings) /\ \A i \in 1..Len(pongs) : pongs[i] = pings[i]
    <3>1. Len(pongs) \in Nat
      BY <2>1, LenProperties
    <3>2. CASE pings = pongs
      BY <3>1, <3>2
    <3>3. CASE pings = Append(pongs, frame[e].data)
      <4>1. Len(pings) = Len(pongs) + 1 /\ \A i \in 1..Len(pongs) : pings[i] = pongs[i]
        BY <2>1, <2>2, <3>3, AppendProperties
      <4> QED  BY <3>1, <4>1
    <3> QED  BY <2>3, <3>2, <3>3
  <2>5. IsPrefix(pongs, pings)
    BY <2>1, <2>4, PrefixedIsPrefix
  <2> QED  BY <2>3, <2>5 DEF pings, pongs
<1>3. PongsInv /\ [Next]_vars => PongsInv'
  BY PongsNext
<1> QED  BY <1>1, <1>2, <1>3, PTL DEF Spec
================================================================================
