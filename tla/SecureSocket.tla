------------------------------- MODULE SecureSocket -------------------------------
(***************************************************************************)
(* SSLSocket and SSLListener over mbedtls: a client that connects, sends   *)
(* and connects again, and a server that accepts into one SSLSocket and    *)
(* receives.  A context is known by the connection its bio reads, a file   *)
(* by the connection it is an end of.  A unit of data is what fits a TLS   *)
(* record; a record that mbedtls could not write at once stays in its      *)
(* context (`out`) until the next mbedtls_ssl_write.  Descriptors are      *)
(* always blocking here (set_blocking makes them so), so that mbedtls      *)
(* returns WANT_READ or WANT_WRITE when a signal interrupts a call.        *)
(***************************************************************************)
EXTENDS Naturals, Sequences, SequencesExt

CONSTANTS
    Messages,         \* lengths, in records, of what the client sends on a connection
    Capacity,         \* records the connection holds
    LongResends,      \* do non-blocking sockets send messages of several records?
    MaxConnections,   \* bound: connections that are made
    MaxInterrupts     \* bound: signals that interrupt a call

ASSUME SecureAssumption ==
    /\ Messages \in Seq(Nat \ {0}) /\ Capacity \in Nat \ {0}
    /\ LongResends \in BOOLEAN
    /\ MaxConnections \in Nat /\ MaxInterrupts \in Nat

VARIABLES
    open,             \* the ends of connections whose file is open
    made,             \* connections made so far
    listening,        \* listen_fd is open
    backlog,          \* connections that nobody has accepted yet
    hello,            \* of each connection: what the handshake has come to
    sock,             \* the two SSLSockets: descriptor, context and flags
    accepting,        \* client_fd in accept, 0 for none
    pc,               \* idle, handshake, sending, or failed: to be disconnected
    status,           \* what the last call returned
    tx, sent, out,    \* the message to send next, send_raw's sent, the unwritten record
    stream, taken,    \* of each connection: the records written, and how many were read
    interrupts

files == <<open, made, listening, backlog>>
sending == <<tx, sent, out>>
data == <<stream, taken>>
vars == <<files, hello, sock, accepting, pc, status, sending, data, interrupts>>

Sides == {"client", "server"}
Connections == 1..MaxConnections
NoFile == 0
NoRecord == <<0, 0>>

\* Record k of message m, and all that a client sends on one connection.
Record(m, k) == <<m, k>>
Records == FlattenSeq([m \in DOMAIN Messages |-> [k \in 1..Messages[m] |-> Record(m, k)]])

\* A constructed SSLSocket, but for its mode.
Closed(s) == [sock[s] EXCEPT !.fd = NoFile, !.bio = NoFile, !.ready = FALSE]

Init ==
    /\ open = {} /\ made = 0 /\ listening = FALSE /\ backlog = <<>>
    /\ hello = [c \in Connections |-> "none"]
    /\ sock = [s \in Sides |-> [fd |-> NoFile, bio |-> NoFile, ready |-> FALSE, is_blocking |-> TRUE]]
    /\ accepting = NoFile
    /\ pc = [s \in Sides |-> "idle"] /\ status = [s \in Sides |-> "Unknown"]
    /\ tx = 1 /\ sent = 0 /\ out = NoRecord
    /\ stream = [c \in Connections |-> <<>>] /\ taken = [c \in Connections |-> 0]
    /\ interrupts = 0

--------------------------------------------------------------------------------
Returns(s, next, result) ==
    /\ pc' = [pc EXCEPT ![s] = next]
    /\ status' = [status EXCEPT ![s] = result]

\* Has the other end of a connection gone?
Gone(c, s) == <<c, s>> \notin open /\ ~(s = "server" /\ c \in ToSet(backlog))

--------------------------------------------------------------------------------
(* SSLListener::listen, over a TcpListener whose descriptor it takes, and      *)
(* close_socket.  Closing resets what was not accepted.                        *)

listen ==
    /\ pc["server"] = "idle"
    /\ listening' \in BOOLEAN
    /\ backlog' = <<>>
    /\ UNCHANGED <<open, made, hello, sock, accepting, pc, status, sending, data, interrupts>>

CloseListener ==
    /\ pc["server"] = "idle" /\ listening
    /\ listening' = FALSE /\ backlog' = <<>>
    /\ UNCHANGED <<open, made, hello, sock, accepting, pc, status, sending, data, interrupts>>

--------------------------------------------------------------------------------
(* SSLSocket::connect.  Its TcpSocket connects and is robbed of the            *)
(* descriptor, so that its destructor closes nothing.                          *)

\* Slip: the old context goes on, with the record it has not written.
OldContext == out

\* The unwritten record of a new context.
NewContext == NoRecord

ConnectTcp ==
    /\ pc["client"] = "idle" /\ made < MaxConnections
    /\ out' = NewContext /\ tx' = 1 /\ sent' = 0
    /\ LET rest == open \ {<<sock["client"].fd, "client">>}
           c == made + 1
           robbed == [Closed("client") EXCEPT !.fd = c]
       IN  \/ /\ open' = rest /\ sock' = [sock EXCEPT !["client"] = Closed("client")]
              /\ Returns("client", "idle", "Error")
              /\ UNCHANGED <<made, backlog>>
           \/ /\ listening
              /\ made' = c /\ backlog' = Append(backlog, c)
              /\ open' = rest \cup {<<c, "client">>}
              /\ \/ \* the configuration, the context or the host name is refused
                    /\ sock' = [sock EXCEPT !["client"] = robbed]
                    /\ Returns("client", "failed", "SSLError")
                 \/ /\ sock' = [sock EXCEPT !["client"] = [robbed EXCEPT !.bio = c]]
                    /\ Returns("client", "handshake", status["client"])
    /\ UNCHANGED <<listening, hello, accepting, data, interrupts>>

\* The client's first message; the loop goes round until the server's last one is there.
ClientHello ==
    LET c == sock["client"].fd
    IN  /\ pc["client"] = "handshake" /\ hello[c] = "none"
        /\ hello' = [hello EXCEPT ![c] = "hello"]
        /\ UNCHANGED <<files, sock, accepting, pc, status, sending, data, interrupts>>

ClientHandshakes ==
    /\ pc["client"] = "handshake" /\ hello[sock["client"].fd] = "answered"
    /\ sock' = [sock EXCEPT !["client"].ready = TRUE]
    /\ Returns("client", "idle", "Success")
    /\ UNCHANGED <<files, hello, accepting, sending, data, interrupts>>

\* The peer has gone, or its certificate is refused: the descriptor stays open.
ClientHandshakeFails ==
    LET c == sock["client"].fd
    IN  /\ pc["client"] = "handshake"
        /\ \/ Gone(c, "server") /\ hello[c] # "answered" /\ Returns("client", "failed", "SSLError")
           \/ hello[c] = "answered" /\ \E result \in {"SSLError", "VerificationFailed"} :
                 Returns("client", "failed", result)
        /\ UNCHANGED <<files, hello, sock, accepting, sending, data, interrupts>>

--------------------------------------------------------------------------------
(* SSLListener::accept: the new descriptor and context are the function's own  *)
(* until the handshake is over, and are moved into the client object then.     *)

Accept ==
    /\ pc["server"] = "idle" /\ listening /\ backlog # <<>>
    /\ accepting' = Head(backlog) /\ backlog' = Tail(backlog)
    /\ open' = open \cup {<<Head(backlog), "server">>}
    /\ pc' = [pc EXCEPT !["server"] = "handshake"]
    /\ UNCHANGED <<made, listening, hello, sock, status, sending, data, interrupts>>

\* Slip: the context is not moved with its descriptor.
MovesDescriptor == [sock["server"] EXCEPT !.fd = accepting, !.ready = TRUE]

\* The object after set_ssl_context and set_descriptor, which free what it held before.
Moved == [sock["server"] EXCEPT !.fd = accepting, !.bio = accepting, !.ready = TRUE]

ServerHandshakes ==
    /\ pc["server"] = "handshake" /\ hello[accepting] = "hello"
    /\ hello' = [hello EXCEPT ![accepting] = "answered"]
    /\ open' = open \ {<<sock["server"].fd, "server">>}
    /\ sock' = [sock EXCEPT !["server"] = Moved]
    /\ accepting' = NoFile
    /\ Returns("server", "idle", "Success")
    /\ UNCHANGED <<made, listening, backlog, sending, data, interrupts>>

\* Slip: an error returns at once.
FreesNothing == {}

\* What free_contexts closes.
FreedContexts == {<<accepting, "server">>}

\* Slip: any error of the handshake is tried again.
Endless == FALSE

\* Errors that end the loop of the handshake: all but WANT_READ and WANT_WRITE.
HandshakeEnds == TRUE

ServerHandshakeFails ==
    /\ pc["server"] = "handshake" /\ HandshakeEnds
    /\ Gone(accepting, "client") \/ hello[accepting] = "hello"
    /\ open' = open \ FreedContexts
    /\ accepting' = NoFile
    /\ Returns("server", "idle", "SSLError")
    /\ UNCHANGED <<made, listening, backlog, hello, sock, sending, data, interrupts>>

--------------------------------------------------------------------------------
(* The sockets in use.                                                         *)

Disconnect(s) ==
    /\ pc[s] \in {"idle", "failed"} /\ sock[s].fd # NoFile
    /\ open' = open \ {<<sock[s].fd, s>>}
    /\ sock' = [sock EXCEPT ![s] = Closed(s)]
    /\ pc' = [pc EXCEPT ![s] = "idle"]
    /\ UNCHANGED <<made, listening, backlog, hello, accepting, status, sending, data, interrupts>>

\* The mode is recorded; the descriptor is made blocking whatever was asked for.
set_blocking(s, should_block) ==
    /\ pc[s] = "idle" /\ sock[s].fd # NoFile
    /\ sock' = [sock EXCEPT ![s].is_blocking = should_block]
    /\ UNCHANGED <<files, hello, accepting, pc, status, sending, data, interrupts>>

SendBegin ==
    /\ pc["client"] = "idle" /\ sock["client"].ready /\ tx \in DOMAIN Messages
    /\ sock["client"].is_blocking \/ Messages[tx] = 1 \/ LongResends
    /\ sent' = 0
    /\ pc' = [pc EXCEPT !["client"] = "sending"]
    /\ UNCHANGED <<files, hello, sock, accepting, status, tx, out, data, interrupts>>

\* Slip: the loop stops one record early.
Nearly(n) == n + 1 >= Messages[tx]

\* while(sent < size)
Whole(n) == n >= Messages[tx]

\* What mbedtls_ssl_write writes: the record it still has, whatever it is called with.
NextRecord == IF out # NoRecord THEN out ELSE Record(tx, sent + 1)

Write ==
    LET c == sock["client"].bio
    IN  /\ pc["client"] = "sending" /\ ~Whole(sent)
        /\ Len(stream[c]) - taken[c] < Capacity
        /\ stream' = [stream EXCEPT ![c] = Append(@, NextRecord)]
        /\ out' = NoRecord /\ sent' = sent + 1
        /\ UNCHANGED <<files, hello, sock, accepting, pc, status, tx, taken, interrupts>>

SendReturns ==
    /\ pc["client"] = "sending" /\ Whole(sent)
    /\ tx' = tx + 1
    /\ Returns("client", "idle", "Success")
    /\ UNCHANGED <<files, hello, sock, accepting, sent, out, data, interrupts>>

\* WANT_WRITE: Timeout to a blocking socket, after which the message is cut; WouldBlock to a
\* non-blocking one, upon which the loops of send call send_raw again, from the start.
WriteInterrupted ==
    /\ pc["client"] = "sending" /\ ~Whole(sent) /\ interrupts < MaxInterrupts
    /\ interrupts' = interrupts + 1
    /\ out' = NextRecord /\ sent' = 0
    /\ IF sock["client"].is_blocking THEN Returns("client", "failed", "Timeout")
       ELSE Returns("client", "sending", "WouldBlock")
    /\ UNCHANGED <<files, hello, sock, accepting, tx, data>>

WriteFails ==
    /\ pc["client"] = "sending" /\ ~Whole(sent) /\ Gone(sock["client"].bio, "server")
    /\ Returns("client", "failed", "SSLError")
    /\ UNCHANGED <<files, hello, sock, accepting, sending, data, interrupts>>

\* receive_raw: one record at a time.
Receive ==
    LET c == sock["server"].bio
    IN  /\ pc["server"] = "idle" /\ sock["server"].ready /\ taken[c] < Len(stream[c])
        /\ taken' = [taken EXCEPT ![c] = @ + 1]
        /\ Returns("server", "idle", "Success")
        /\ UNCHANGED <<files, hello, sock, accepting, sending, stream, interrupts>>

\* WANT_READ: a blocking socket says Timeout, a non-blocking one goes round.
ReceiveInterrupted ==
    /\ pc["server"] = "idle" /\ sock["server"].ready /\ interrupts < MaxInterrupts
    /\ interrupts' = interrupts + 1
    /\ Returns("server", "idle", IF sock["server"].is_blocking THEN "Timeout" ELSE status["server"])
    /\ UNCHANGED <<files, hello, sock, accepting, sending, data>>

ReceiveEnds ==
    LET c == sock["server"].bio
    IN  /\ pc["server"] = "idle" /\ sock["server"].ready
        /\ taken[c] = Len(stream[c]) /\ Gone(c, "client")
        /\ Returns("server", "failed", "Disconnected")
        /\ UNCHANGED <<files, hello, sock, accepting, sending, data, interrupts>>

--------------------------------------------------------------------------------
Handshakes == ClientHello \/ ClientHandshakes \/ ClientHandshakeFails \/ ServerHandshakes \/ ServerHandshakeFails
Sends == SendBegin \/ Write \/ SendReturns \/ WriteInterrupted \/ WriteFails
Receives == Receive \/ ReceiveInterrupted \/ ReceiveEnds

Next ==
    \/ listen \/ CloseListener \/ ConnectTcp \/ Accept \/ Handshakes \/ Sends \/ Receives
    \/ \E s \in Sides : Disconnect(s) \/ \E should_block \in BOOLEAN : set_blocking(s, should_block)

Spec == Init /\ [][Next]_vars

\* Threads run, a server without a connection accepts, an application goes on sending and
\* receiving and disconnects what has failed.  Signals, and closing what works, are nobody's
\* duty.
FairSpec ==
    /\ Spec
    /\ WF_vars(ClientHello) /\ WF_vars(ClientHandshakes \/ ClientHandshakeFails)
    /\ WF_vars(ServerHandshakes \/ ServerHandshakeFails)
    /\ WF_vars(Accept /\ sock["server"].fd = NoFile)
    /\ WF_vars(SendBegin) /\ WF_vars(Write \/ WriteFails) /\ WF_vars(SendReturns)
    /\ WF_vars(Receive \/ ReceiveEnds)
    /\ \A s \in Sides : WF_vars(pc[s] = "failed" /\ Disconnect(s))

--------------------------------------------------------------------------------
(* What must hold.                                                             *)

\* The context of a socket reads and writes through the socket's own descriptor
\* (mbedtls_ssl_set_bio keeps a pointer to it), and only a handshake on that descriptor
\* makes it ready.
ContextsMatch ==
    \A s \in Sides :
        /\ sock[s].bio # NoFile => sock[s].bio = sock[s].fd
        /\ sock[s].ready => sock[s].bio # NoFile /\ hello[sock[s].bio] = "answered"

\* Connections are made one by one, no more is read than was written, a call that accepts,
\* and no other, has a descriptor of its own, a socket with a session has one, and contexts match.
TypeOK ==
    /\ open \subseteq Connections \X Sides /\ made \in 0..MaxConnections
    /\ backlog \in Seq(1..made)
    /\ pc \in [Sides -> {"idle", "handshake", "sending", "failed"}]
    /\ accepting # NoFile <=> pc["server"] = "handshake"
    /\ \A s \in Sides : sock[s].fd \in 0..made /\ (sock[s].ready => sock[s].fd # NoFile)
    /\ pc["client"] = "sending" => sock["client"].ready /\ tx \in DOMAIN Messages
    /\ \A c \in Connections : taken[c] <= Len(stream[c]) /\ Len(stream[c]) <= taken[c] + Capacity
    /\ ContextsMatch

\* Every open file is held by exactly one object or by the accept that runs, and what these
\* hold is open: through the stolen descriptor of connect, every failure of a handshake, a
\* second connect, and an accept into an object that was connected, nothing leaks and
\* nothing is closed twice.
FilesHeld ==
    open = {<<sock[s].fd, s>> : s \in {side \in Sides : sock[side].fd # NoFile}}
             \cup (IF accepting # NoFile THEN {<<accepting, "server">>} ELSE {})

\* What is written on a connection is what was sent on it, from the start, in order and
\* once, whatever signals interrupt (SSLSocket.h:33: after WouldBlock "you must call this
\* function again with the *same* arguments").
SentOnce == \A c \in Connections : IsPrefix(stream[c], Records)

\* A connect does not stay in the handshake for ever, when the server's thread runs: the
\* server answers, or it is told that an earlier client has gone and takes the next.
ConnectReturns == (pc["client"] = "handshake") ~> (pc["client"] # "handshake")

\* On a connection that both ends keep, the client in blocking mode, everything is sent and
\* received, through any number of full buffers.
AllTaken ==
    \A c \in Connections :
        <>[](/\ \A s \in Sides : sock[s].ready /\ sock[s].bio = c
             /\ sock["client"].is_blocking) => <>(taken[c] = Len(Records))
================================================================================
