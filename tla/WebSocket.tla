------------------------------- MODULE WebSocket -------------------------------
(***************************************************************************)
(* A client and a server that talk over fr::WebSocket<fr::TcpSocket>: the  *)
(* upgrade handshake of connect() and set_descriptor(), the frames of      *)
(* fr::WebFrame, pings and their answers, and the closing frame of         *)
(* disconnect().  A frame travels as units: the first two bytes, the       *)
(* longer length if there is one, the masking key of a masked frame, and   *)
(* the payload.  receive_all gets a unit or nothing; PacketStream shows    *)
(* why.  Each application is the two threads of the examples, one that     *)
(* receives and answers and one that sends and disconnects; what it does   *)
(* about a status that asks it to disconnect is left open.                 *)
(***************************************************************************)
EXTENDS Integers, SequencesExt

CONSTANTS
    Script,           \* Script[e]: the frames that e's application sends, in order
    MaxShort,         \* longest payload with a 7 bit length (125 in the code)
    MaxMedium,        \* longest payload with a 16 bit length (65534)
    MaxReceiveSize,   \* set_max_receive_size of both, 0 for no limit
    MaskKeys,         \* the values current_mask_key takes
    Timeouts,         \* may blocking sends and receives time out?
    Faults,           \* may a process die?
    Garbage,          \* the headers that a unit which is no header is taken for
    Foreign           \* may the other end answer the handshake with something else?

Ends == {"client", "server"}
Other(e) == IF e = "client" THEN "server" ELSE "client"
is_client(e) == e = "client"
Opcodes == {"Continuation", "Text", "Binary", "Disconnect", "Ping", "Pong"}

ASSUME WebSocketAssumption ==
    /\ MaxShort \in Nat /\ MaxMedium \in Nat /\ MaxShort < MaxMedium
    /\ MaxReceiveSize \in Nat
    /\ MaskKeys \subseteq Nat
    /\ {Timeouts, Faults, Foreign} \subseteq BOOLEAN
    /\ Garbage \subseteq [op : Opcodes, final : BOOLEAN, masked : BOOLEAN,
                           code : {7, 16, 64}, size : Nat, keys : {{}}]
    /\ Script \in [Ends -> Seq([op : Opcodes, final : BOOLEAN, size : Nat])]

VARIABLES
    socket,           \* socket[e]: down, handshaking, open or closed
    wire,             \* wire[e]: the units on their way to e
    at,               \* at[e]: its receiving thread's loop, answer (a Ping) or leave (disconnect)
    spoken,           \* spoken[e]: how much of its script e has sent
    rx,               \* rx[e]: the part of a frame WebFrame::receive is to read next
    head,             \* head[e]: what it has read of the frame so far
    frame,            \* frame[e]: the last frame received
    sent,             \* history: the frames e's application sent
    got,              \* history: the frames receive gave to e with Success
    told,             \* history: a receive of e returned a status that ends the connection
    cut,              \* history: a send of e ended in the middle of a frame
    swallowed         \* history: handshake reads of e took more than the handshake

endpoint == <<at, spoken, told>>
reading == <<rx, head, frame, got>>
vars == <<socket, wire, endpoint, reading, sent, cut, swallowed>>

NoHead == [op |-> "Text", final |-> TRUE, masked |-> FALSE, code |-> 7, size |-> 0, keys |-> {}]
NoFrame == [op |-> "Text", final |-> TRUE, data |-> <<>>]

Init ==
    /\ socket = [e \in Ends |-> "down"]
    /\ wire = [e \in Ends |-> <<>>]
    /\ at = [e \in Ends |-> "loop"]
    /\ spoken = [e \in Ends |-> 0]
    /\ rx = [e \in Ends |-> "head"]
    /\ head = [e \in Ends |-> NoHead] /\ frame = [e \in Ends |-> NoFrame]
    /\ sent = [e \in Ends |-> <<>>] /\ got = [e \in Ends |-> <<>>]
    /\ told = [e \in Ends |-> FALSE]
    /\ cut = [e \in Ends |-> FALSE] /\ swallowed = [e \in Ends |-> FALSE]

--------------------------------------------------------------------------------
(* Frames on the wire.                                                         *)

\* A payload byte is its origin and the keys it is masked with: masking twice with one
\* key gives the byte back.
Masked(data, keys) ==
    [i \in DOMAIN data |->
        [data[i] EXCEPT !.keys = (@ \ keys) \cup (keys \ @)]]

Payload(e, n, size) == [i \in 1..size |-> [part |-> "data", of |-> <<e, n, i>>, keys |-> {}]]

LengthCode(size) ==
    IF size <= MaxShort THEN 7 ELSE IF size <= MaxMedium THEN 16 ELSE 64

\* WebFrame::send's buffer for frame f; keys is the new masking key, if there is one.
Units(f, keys) ==
    LET size == Len(f.data)
        code == LengthCode(size)
    IN  <<[part |-> "head", op |-> f.op, final |-> f.final, masked |-> keys # {},
           code |-> code, size |-> IF code = 7 THEN size ELSE 0]>>
        \o (IF code = 7 THEN <<>> ELSE <<[part |-> "length", size |-> size]>>)
        \o (IF keys = {} THEN <<>> ELSE <<[part |-> "key", keys |-> keys]>>)
        \o Masked(f.data, keys)

\* The key of a masked frame, as a set, and of an unmasked one.  ++current_mask_key is one
\* counter of the process, that starts at the time and has no lock: other threads' frames
\* advance it and may undo an increment, so a key is any number, also the last one again.
NextKeys(e) == {{<<e, k>>} : k \in MaskKeys}
NoKeys == {{}}

\* ClientWebFrame or ServerWebFrame, as the application uses it.
FrameKeys(e) == IF is_client(e) THEN NextKeys(e) ELSE NoKeys

Transmit(e, units) ==
    wire' = [wire EXCEPT ![Other(e)] = IF socket[Other(e)] = "closed" THEN <<>> ELSE @ \o units]

\* e sends f: all of it, or, when the send times out or fails, a part of it.  A failed
\* send may make the application disconnect; the examples ignore it.
Sends(e, f, choices, next) ==
    /\ sent' = [sent EXCEPT ![e] = Append(@, f)]
    /\ \E keys \in choices :
          \/ /\ Transmit(e, Units(f, keys))
             /\ at' = [at EXCEPT ![e] = next]
             /\ UNCHANGED cut
          \/ /\ Timeouts \/ socket[Other(e)] = "closed"
             /\ \E n \in 0..Len(Units(f, keys)) - 1 : Transmit(e, SubSeq(Units(f, keys), 1, n))
             /\ \E to \in {"leave", next} : at' = [at EXCEPT ![e] = to]
             /\ cut' = [cut EXCEPT ![e] = TRUE]

--------------------------------------------------------------------------------
(* The handshake.                                                              *)

Request == <<[part |-> "request"]>>
Response == <<[part |-> "response"]>>

\* WebSocket::connect up to the request.
ClientConnects ==
    /\ socket["client"] = "down" /\ socket["server"] # "closed"
    /\ socket' = [socket EXCEPT !["client"] = "handshaking"]
    /\ Transmit("client", Request)
    /\ UNCHANGED <<endpoint, reading, sent, cut, swallowed>>

\* Http::receive takes what has arrived, which may be more than the message: what
\* follows it ends in the message's body, and is gone.
Takes(e, n) ==
    /\ n \in 1..Len(wire[e])
    /\ swallowed' = [swallowed EXCEPT ![e] = n > 1]

\* WebSocket::set_descriptor, called by accept.
ServerAccepts ==
    /\ socket["server"] = "down" /\ socket["client"] # "down"
    /\ \E n \in 1..Len(wire["server"]) :
          /\ Takes("server", n)
          /\ wire' = [wire EXCEPT !["server"] = SubSeq(@, n + 1, Len(@)),
                                  !["client"] = IF socket["client"] = "closed" THEN <<>>
                                                ELSE @ \o Response]
    /\ socket' = [socket EXCEPT !["server"] = "open"]
    /\ UNCHANGED <<endpoint, reading, sent, cut>>

\* The handshake does not arrive, or is another request: set_descriptor throws, and the
\* process ends.
ServerThrows ==
    /\ socket["server"] = "down" /\ socket["client"] # "down"
    /\ \/ Timeouts
       \/ socket["client"] = "closed" /\ wire["server"] = <<>>
       \/ Foreign /\ wire["server"] # <<>>
    /\ socket' = [socket EXCEPT !["server"] = "closed"]
    /\ UNCHANGED <<wire, endpoint, reading, sent, cut, swallowed>>

\* WebSocket::connect gets the response and returns Success.
ClientOpens ==
    /\ socket["client"] = "handshaking"
    /\ \E n \in 1..Len(wire["client"]) :
          /\ Takes("client", n)
          /\ wire' = [wire EXCEPT !["client"] = SubSeq(@, n + 1, Len(@))]
    /\ socket' = [socket EXCEPT !["client"] = "open"]
    /\ UNCHANGED <<endpoint, reading, sent, cut>>

\* It does not come: connect returns an error with the socket still connected.
ConnectFails ==
    /\ socket["client"] = "handshaking"
    /\ Timeouts \/ (socket["server"] = "closed" /\ wire["client"] = <<>>)
    /\ socket' = [socket EXCEPT !["client"] = "open"]
    /\ at' = [at EXCEPT !["client"] = "leave"]
    /\ UNCHANGED <<wire, spoken, told, reading, sent, cut, swallowed>>

\* The answer has another status or a wrong key: connect itself disconnects.
Refused(e) == Foreign /\ is_client(e) /\ socket[e] = "handshaking" /\ wire[e] # <<>>

--------------------------------------------------------------------------------
(* The applications send.                                                      *)

\* Another thread sends, without a lock, wherever the receiving one is.
Speaks(e) ==
    /\ socket[e] = "open" /\ spoken[e] < Len(Script[e])
    /\ spoken' = [spoken EXCEPT ![e] = @ + 1]
    /\ LET n == spoken[e] + 1
           f == [op |-> Script[e][n].op, final |-> Script[e][n].final,
                 data |-> Payload(e, n, Script[e][n].size)]
       IN  Sends(e, f, FrameKeys(e), at[e])
    /\ UNCHANGED <<socket, told, reading, swallowed>>

\* Slip: the Pong is a new frame.
AnswersEmpty(e) ==
    /\ socket[e] = "open" /\ at[e] = "answer"
    /\ Sends(e, [NoFrame EXCEPT !.op = "Pong"], FrameKeys(e), "loop")
    /\ UNCHANGED <<socket, spoken, told, reading, swallowed>>

\* A Pong is the frame that came with the Ping, sent back with another opcode.
Answers(e) ==
    /\ socket[e] = "open" /\ at[e] = "answer"
    /\ Sends(e, [frame[e] EXCEPT !.op = "Pong"], FrameKeys(e), "loop")
    /\ UNCHANGED <<socket, spoken, told, reading, swallowed>>

\* WebSocket::disconnect: a closing frame, which is a ClientWebFrame whichever the end,
\* and then close.  The send may fail; its status is ignored.  The thread that sends calls
\* it when its script is over ("exit"), the other one when it is to leave.
disconnect(e) ==
    /\ \/ socket[e] = "open" /\ (at[e] = "leave" \/ spoken[e] = Len(Script[e]))
       \/ Refused(e)
    /\ Sends(e, [NoFrame EXCEPT !.op = "Disconnect"], NextKeys(e), "leave")
    /\ socket' = [socket EXCEPT ![e] = "closed"]
    /\ UNCHANGED <<spoken, told, reading, swallowed>>

\* A process dies, or its connection is reset by the kernel.
Dies(e) ==
    /\ Faults /\ socket[e] \in {"handshaking", "open"}
    /\ socket' = [socket EXCEPT ![e] = "closed"]
    /\ UNCHANGED <<wire, endpoint, reading, sent, cut, swallowed>>

\* A connection closed with unread data is reset: what was on its way is lost.
Reset(e) ==
    /\ socket[Other(e)] = "closed" /\ wire[e] # <<>>
    /\ wire' = [wire EXCEPT ![e] = <<>>]
    /\ UNCHANGED <<socket, endpoint, reading, sent, cut, swallowed>>

--------------------------------------------------------------------------------
(* WebFrame::receive.                                                          *)

Receiving(e) == socket[e] = "open" /\ at[e] = "loop"

\* receive_all gets n units.
Reads(e, n) ==
    /\ Len(wire[e]) >= n
    /\ wire' = [wire EXCEPT ![e] = SubSeq(@, n + 1, Len(@))]

\* WebFrame::receive returns: its locals are gone.
Returns(e) ==
    /\ rx' = [rx EXCEPT ![e] = "head"]
    /\ head' = [head EXCEPT ![e] = NoHead]

\* A status other than Success, WouldBlock or Timeout: "Call disconnect()".  Applications
\* do, or go round their loop again as the examples' do.
Fails(e) ==
    /\ told' = [told EXCEPT ![e] = TRUE]
    /\ \E to \in {"leave", "loop"} : at' = [at EXCEPT ![e] = to]
    /\ Returns(e)

\* What the application does about the frame it received.
Reaction(op) ==
    CASE op = "Ping" -> "answer"
      [] op = "Disconnect" -> "leave"
      [] OTHER -> "loop"

Delivers(e, f) ==
    /\ frame' = [frame EXCEPT ![e] = f]
    /\ got' = [got EXCEPT ![e] = Append(@, f)]
    /\ at' = [at EXCEPT ![e] = Reaction(f.op)]
    /\ UNCHANGED told
    /\ Returns(e)

\* The header's fields; units that are no header, which a receiver that lost the framing
\* reads, are taken for any of Garbage.
Header(u) ==
    IF u.part = "head"
    THEN {[op |-> u.op, final |-> u.final, masked |-> u.masked, code |-> u.code,
           size |-> u.size, keys |-> {}]}
    ELSE Garbage

LengthIn(u) == IF u.part = "length" THEN {u.size} ELSE {0, MaxMedium, MaxReceiveSize + 1}

\* Slip: the key is read and not used.
KeyUnused(u) == {}
KeyIn(u) == IF u.part = "key" THEN u.keys ELSE {<<"garbage", 0>>}

\* Slip: the limit is off by one.
TooLargeByOne(size) == MaxReceiveSize # 0 /\ size > MaxReceiveSize + 1
TooLarge(size) == MaxReceiveSize # 0 /\ size > MaxReceiveSize

\* Slip: the four bytes are read whether or not the mask bit is set.
AlwaysKey(masked) == "key"

\* "Read masking key if the mask bit is set"
AfterLength(masked) == IF masked THEN "key" ELSE "payload"

\* The length is known: check the limit, and go on to the key or the payload.
HasLength(e, h) ==
    /\ \/ TooLarge(h.size) /\ Fails(e)
       \/ /\ ~TooLarge(h.size)
          /\ head' = [head EXCEPT ![e] = h]
          /\ rx' = [rx EXCEPT ![e] = AfterLength(h.masked)]
          /\ UNCHANGED <<at, told>>
    /\ UNCHANGED <<frame, got>>

\* "if we're the server then messages should always be masked"
WrongMask(e, h) == h.masked = is_client(e)

ReceiveHead(e) ==
    /\ Receiving(e) /\ rx[e] = "head" /\ Reads(e, 1)
    /\ \E h \in Header(wire[e][1]) :
          \/ /\ WrongMask(e, h) /\ Fails(e)
             /\ UNCHANGED <<frame, got>>
          \/ /\ ~WrongMask(e, h) /\ h.code = 7
             /\ HasLength(e, h)
          \/ /\ ~WrongMask(e, h) /\ h.code # 7
             /\ rx' = [rx EXCEPT ![e] = "length"]
             /\ head' = [head EXCEPT ![e] = h]
             /\ UNCHANGED <<at, told, frame, got>>
    /\ UNCHANGED <<socket, spoken, sent, cut, swallowed>>

ReceiveLength(e) ==
    /\ Receiving(e) /\ rx[e] = "length" /\ Reads(e, 1)
    /\ \E size \in LengthIn(wire[e][1]) : HasLength(e, [head[e] EXCEPT !.size = size])
    /\ UNCHANGED <<socket, spoken, sent, cut, swallowed>>

ReceiveKey(e) ==
    /\ Receiving(e) /\ rx[e] = "key" /\ Reads(e, 1)
    /\ head' = [head EXCEPT ![e].keys = KeyIn(wire[e][1])]
    /\ rx' = [rx EXCEPT ![e] = "payload"]
    /\ UNCHANGED <<socket, endpoint, frame, got, sent, cut, swallowed>>

\* Units of another part, read as payload.
AsData(u) == IF u.part = "data" THEN u ELSE [part |-> "data", of |-> <<u.part, 0, 0>>, keys |-> {}]

ReceivePayload(e) ==
    /\ Receiving(e) /\ rx[e] = "payload" /\ Reads(e, head[e].size)
    /\ Delivers(e, [op |-> head[e].op, final |-> head[e].final,
                    data |-> Masked([i \in 1..head[e].size |-> AsData(wire[e][i])], head[e].keys)])
    /\ UNCHANGED <<socket, spoken, sent, cut, swallowed>>

\* Too little has arrived.  Before a frame a timeout is no error, in the middle of one it
\* is a lost connection; a WouldBlock there is tried again.
Wanted(e) == IF rx[e] = "payload" THEN head[e].size ELSE 1

\* Slip: in the middle of a frame every status but Success is tried again.
TriesAgain(e) == socket[Other(e)] = "closed" /\ rx[e] = "head"
GivesUp(e) == socket[Other(e)] = "closed" \/ (Timeouts /\ rx[e] # "head")

ReceiveFails(e) ==
    /\ Receiving(e) /\ Len(wire[e]) < Wanted(e)
    /\ GivesUp(e)
    /\ Fails(e)
    /\ UNCHANGED <<socket, wire, spoken, frame, got, sent, cut, swallowed>>

--------------------------------------------------------------------------------
Handshake == ClientConnects \/ ServerAccepts \/ ServerThrows \/ ClientOpens \/ ConnectFails

Receives(e) ==
    ReceiveHead(e) \/ ReceiveLength(e) \/ ReceiveKey(e) \/ ReceivePayload(e) \/ ReceiveFails(e)

Application(e) == Speaks(e) \/ Answers(e) \/ disconnect(e) \/ Receives(e)

\* Both ends are closed, or the server waits for a client that is gone.
Over == socket["client"] = "closed" /\ socket["server"] \in {"down", "closed"} /\ UNCHANGED vars

Next ==
    \/ Handshake \/ Over
    \/ \E e \in Ends : Application(e) \/ Dies(e) \/ Reset(e)

Spec == Init /\ [][Next]_vars

\* The threads run; each goes round its loop, so it receives, answers and leaves.
Obliged(e) == Receives(e) \/ Answers(e) \/ (at[e] = "leave" /\ disconnect(e))

FairSpec == Spec /\ WF_vars(Handshake) /\ \A e \in Ends : WF_vars(Obliged(e))

--------------------------------------------------------------------------------
(* Properties.                                                                 *)

Keys == (Ends \cup {"garbage"}) \X Nat
Heads == [op : Opcodes, final : BOOLEAN, masked : BOOLEAN, code : {7, 16, 64},
          size : Nat, keys : SUBSET Keys]

\* Also: the longer length is read only if the first one says so, a key only of a masked
\* frame.
TypeOK ==
    /\ socket \in [Ends -> {"down", "handshaking", "open", "closed"}]
    /\ at \in [Ends -> {"loop", "answer", "leave"}]
    /\ spoken \in [Ends -> Nat] /\ \A e \in Ends : spoken[e] <= Len(Script[e])
    /\ rx \in [Ends -> {"head", "length", "key", "payload"}]
    /\ head \in [Ends -> Heads]
    /\ \A e \in Ends :
          /\ rx[e] = "length" => head[e].code # 7
          /\ rx[e] = "key" => head[e].masked
    /\ {told, cut, swallowed} \subseteq [Ends -> BOOLEAN]

\* Frames arrive whole, unmasked, in order and once, unless a send ended in the middle of
\* a frame, the handshake took frames with it, or the application goes on receiving after
\* a status that ends the connection.
FramesIntact ==
    \A e \in Ends :
        ~cut[Other(e)] /\ ~swallowed[e] /\ ~told[e] => IsPrefix(got[e], sent[Other(e)])

\* Whatever arrives, even when the framing is lost, receive makes no room for a payload
\* above the limit.
WithinLimit ==
    \A e \in Ends : rx[e] \in {"key", "payload"} /\ MaxReceiveSize # 0 =>
        head[e].size <= MaxReceiveSize

\* The payloads of the frames with an opcode, in order.
Data(frames, op) ==
    LET among[n \in 0..Len(frames)] ==
          IF n = 0 THEN <<>>
          ELSE IF frames[n].op = op THEN Append(among[n - 1], frames[n].data)
          ELSE among[n - 1]
    IN  among[Len(frames)]

\* The Pongs an end sends are the Pings it got, payload by payload and in order, and it
\* owes one only while it is about to answer, or has left.
PongsEchoPings ==
    \A e \in Ends :
        LET pings == Data(got[e], "Ping")
            pongs == Data(sent[e], "Pong")
        IN  /\ IsPrefix(pongs, pings)
            /\ at[e] = "loop" => pongs = pings

\* When one end is gone, a receive of the other one says so, wherever in a frame it is and
\* whatever is left to be read, or the other one leaves too.
Unseen == \E e \in Ends : socket[e] = "open" /\ socket[Other(e)] = "closed" /\ ~told[e]

ClosedIsSeen == Unseen ~> ~Unseen
================================================================================
