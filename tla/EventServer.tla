------------------------------ MODULE EventServer ------------------------------
(***************************************************************************)
(* The server of examples/concurrent_http_server: one thread that waits on *)
(* a SocketSelector, accepts connections, reads requests in pieces and     *)
(* answers them.  Each client socket has a SessionState as its opaque      *)
(* data; the vector wait() returned holds references to the sockets of the *)
(* batch until the batch is over.                                          *)
(***************************************************************************)
EXTENDS Selector

CONSTANTS
    listener,         \* the TcpListener
    Segments,         \* pieces in which a request reaches the server
    MaxPending,       \* bound: connections waiting to be accepted
    MaxEvents         \* size of the array given to epoll_wait (100 in the code)

ASSUME ServerAssumption ==
    /\ Listeners = {listener} /\ TableSize > 1
    /\ Segments \in Nat \ {0}
    /\ MaxPending \in Nat \ {0}
    /\ MaxEvents \in Nat \ {0}

VARIABLES
    at,               \* where the loop stands
    ready,            \* ready_sockets
    batch,            \* those of them the for loop has still to visit
    current,          \* the client being accepted or answered
    session,          \* session[s]: is the SessionState of s allocated?
    parsed,           \* segments in session[s]'s partial_request
    pending,          \* connections in the listener's backlog
    sent,             \* segments of its current request the peer of s has sent
    arrived,          \* those of them waiting in the kernel
    garbage,          \* the peer of s has sent something that is no HTTP request
    hungup            \* the peer of s has closed or reset the connection

loop == <<at, ready, batch, current>>
peers == <<pending, sent, arrived, garbage, hungup>>
evars == <<vars, loop, session, parsed, peers>>

Nobody == "nobody"

\* main() has called listen and added the listener.
ServerInit ==
    /\ file = [d \in Descriptors |-> IF d = 0 THEN Stdin ELSE IF d = 1 THEN listener ELSE Free]
    /\ nonblocking = [d \in Descriptors |-> FALSE]
    /\ descriptor = [o \in Objects |-> IF o = listener THEN 1 ELSE None]
    /\ is_blocking = [s \in Sockets |-> TRUE]
    /\ pc = [o \in Objects |-> "idle"]
    /\ candidates = [o \in Objects |-> 0]
    /\ status = [o \in Objects |-> IF o = listener THEN "Success" ELSE "Unknown"]
    /\ added = [o \in {listener} |-> 1]
    /\ interest = [d \in Descriptors |-> IF d = 1 THEN listener ELSE Free]
    /\ tidy = TRUE
    /\ at = "wait" /\ ready = {} /\ batch = {} /\ current = Nobody
    /\ session = [s \in Sockets |-> FALSE]
    /\ parsed = [s \in Sockets |-> 0]
    /\ pending = 0
    /\ sent = [s \in Sockets |-> 0] /\ arrived = [s \in Sockets |-> 0]
    /\ garbage = [s \in Sockets |-> FALSE] /\ hungup = [s \in Sockets |-> FALSE]

--------------------------------------------------------------------------------
(* The peers.                                                                  *)

PeerConnects ==
    /\ pending < MaxPending
    /\ pending' = pending + 1
    /\ UNCHANGED <<vars, loop, session, parsed, sent, arrived, garbage, hungup>>

\* A peer sends its request piece by piece and waits for the answer to it.
PeerSends(s) ==
    /\ connected(s) /\ ~hungup[s] /\ sent[s] < Segments
    /\ sent' = [sent EXCEPT ![s] = @ + 1]
    /\ arrived' = [arrived EXCEPT ![s] = @ + 1]
    /\ \E bad \in BOOLEAN : garbage' = [garbage EXCEPT ![s] = @ \/ bad]
    /\ UNCHANGED <<vars, loop, session, parsed, pending, hungup>>

PeerHangsUp(s) ==
    /\ connected(s) /\ ~hungup[s]
    /\ hungup' = [hungup EXCEPT ![s] = TRUE]
    /\ UNCHANGED <<vars, loop, session, parsed, pending, sent, arrived, garbage>>

--------------------------------------------------------------------------------
(* SocketSelector::wait.                                                       *)

HasEvent(o) ==
    IF o = listener THEN pending > 0 ELSE arrived[o] > 0 \/ hungup[o]

\* What the kernel's interest list can report; it points at the members' Opaques.
Reportable == {o \in {interest[d] : d \in Descriptors} \ {Free} : HasEvent(o)}

Wait ==
    /\ at = "wait"
    /\ \E events \in SUBSET Reportable :
          /\ events # {} /\ Cardinality(events) <= MaxEvents
          /\ ready' = events /\ batch' = events
    /\ at' = "handle"
    /\ UNCHANGED <<vars, current, session, parsed, peers>>

--------------------------------------------------------------------------------
(* The for loop: the listener.                                                 *)

Visited(o) == at = "handle" /\ o \in batch /\ batch' = batch \ {o}

\* make_shared gives a socket object that nobody refers to.
AcceptClient ==
    /\ Visited(listener)
    /\ \E s \in Sockets :
          /\ s \notin ready /\ ~connected(s) /\ Accept(listener, s)
          /\ current' = s
    /\ pending' = pending - 1
    /\ at' = "accepted"
    /\ UNCHANGED <<svars, ready, session, parsed, sent, arrived, garbage, hungup>>

\* ::accept fails (EMFILE): the listener stays ready.
AcceptFails ==
    /\ Visited(listener) /\ TableFull
    /\ UNCHANGED <<vars, at, ready, current, session, parsed, peers>>

SetsNonBlocking ==
    /\ at = "accepted"
    /\ SetBlocking(current, FALSE)
    /\ at' = "adding"
    /\ UNCHANGED <<svars, ready, batch, current, session, parsed, peers>>

AddsClient ==
    /\ at = "adding"
    /\ Add(current)
    /\ session' = [session EXCEPT ![current] = TRUE]
    /\ parsed' = [parsed EXCEPT ![current] = 0]
    /\ at' = "handle" /\ current' = Nobody
    /\ UNCHANGED <<ready, batch, peers>>

--------------------------------------------------------------------------------
(* The for loop: a client.                                                     *)

\* Slip: a second segment starts the request over.
RequestRestarted(s, n) == IF parsed[s] = 0 THEN n ELSE 0

\* What partial_request holds after n more segments.
ParsedAfter(s, n) == parsed[s] + n

\* Slip: a request that is complete is taken for a part of one.
ReceivesPartAlways(s) ==
    /\ Visited(s) /\ ~garbage[s]
    /\ \E n \in 1..arrived[s] :
          /\ parsed' = [parsed EXCEPT ![s] = ParsedAfter(s, n)]
          /\ arrived' = [arrived EXCEPT ![s] = @ - n]
    /\ UNCHANGED <<vars, at, ready, current, session, pending, sent, garbage, hungup>>

\* receive_raw took n segments, and the request is not complete.
ReceivesPart(s) ==
    /\ Visited(s) /\ ~garbage[s]
    /\ \E n \in 1..arrived[s] :
          /\ ParsedAfter(s, n) < Segments
          /\ parsed' = [parsed EXCEPT ![s] = ParsedAfter(s, n)]
          /\ arrived' = [arrived EXCEPT ![s] = @ - n]
    /\ UNCHANGED <<vars, at, ready, current, session, pending, sent, garbage, hungup>>

\* It is complete: process_complete_request sends the response.
ReceivesRequest(s) ==
    /\ Visited(s) /\ ~garbage[s]
    /\ \E n \in 1..arrived[s] :
          /\ ParsedAfter(s, n) = Segments
          /\ arrived' = [arrived EXCEPT ![s] = @ - n]
    /\ at' = "respond" /\ current' = s
    /\ UNCHANGED <<vars, ready, session, parsed, pending, sent, garbage, hungup>>

\* Http::send goes round while send_raw returns WouldBlock: it returns when the peer
\* has taken the response or is gone, and its status is ignored.
Responds ==
    /\ at = "respond"
    /\ parsed' = [parsed EXCEPT ![current] = 0]
    /\ sent' = [sent EXCEPT ![current] = 0]
    /\ at' = "handle" /\ current' = Nobody
    /\ UNCHANGED <<vars, ready, batch, session, pending, arrived, garbage, hungup>>

\* Slip: the session is deleted, and the remove() is forgotten.
DeletesOnly(s) ==
    /\ session' = [session EXCEPT ![s] = FALSE]
    /\ UNCHANGED vars

\* delete (SessionState *)selector.remove(client)
RemovesAndDeletes(s) ==
    /\ Remove(s)
    /\ session' = [session EXCEPT ![s] = FALSE]

\* Slip: the end of the connection is taken for a WouldBlock.
DropsBadClient(s) ==
    /\ Visited(s)
    /\ \/ /\ garbage[s] /\ arrived[s] > 0
          /\ RemovesAndDeletes(s)
       \/ /\ hungup[s] /\ arrived[s] = 0
          /\ UNCHANGED <<vars, session>>
    /\ UNCHANGED <<at, ready, current, parsed, peers>>

\* A parse error, or the end of the connection (a reset may lose bytes not yet read).
DropsClient(s) ==
    /\ Visited(s)
    /\ \/ garbage[s] /\ arrived[s] > 0
       \/ hungup[s]
    /\ RemovesAndDeletes(s)
    /\ UNCHANGED <<at, ready, current, parsed, peers>>

--------------------------------------------------------------------------------
(* The end of the batch: ready_sockets releases its references, and a socket   *)
(* the selector no longer holds is destroyed, which closes it.                 *)

Destroys(s) ==
    /\ at = "handle" /\ batch = {}
    /\ s \in ready \ Members
    /\ CloseFile(descriptor[s])
    /\ descriptor' = [descriptor EXCEPT ![s] = None]
    /\ is_blocking' = [is_blocking EXCEPT ![s] = TRUE]
    /\ status' = [status EXCEPT ![s] = "Unknown"]
    /\ interest' = Forget
    /\ ready' = ready \ {s}
    /\ sent' = [sent EXCEPT ![s] = 0] /\ arrived' = [arrived EXCEPT ![s] = 0]
    /\ garbage' = [garbage EXCEPT ![s] = FALSE] /\ hungup' = [hungup EXCEPT ![s] = FALSE]
    /\ parsed' = [parsed EXCEPT ![s] = 0]
    /\ UNCHANGED <<pc, candidates, added, tidy, at, batch, current, session, pending>>

EndOfBatch ==
    /\ at = "handle" /\ batch = {} /\ ready \subseteq Members
    /\ at' = "wait" /\ ready' = {}
    /\ UNCHANGED <<vars, batch, current, session, parsed, peers>>

--------------------------------------------------------------------------------
HandlesClient(s) == ReceivesPart(s) \/ ReceivesRequest(s) \/ DropsClient(s) \/ Destroys(s)

Server ==
    \/ Wait \/ AcceptClient \/ AcceptFails \/ SetsNonBlocking \/ AddsClient
    \/ \E s \in Sockets : HandlesClient(s)
    \/ Responds \/ EndOfBatch

Peers == PeerConnects \/ \E s \in Sockets : PeerSends(s) \/ PeerHangsUp(s)

ServerNext == Server \/ Peers

\* The thread runs, peers read the responses sent to them, and epoll_wait rotates its
\* list: a socket that is ready again and again is reported.
ServerSpec ==
    /\ ServerInit /\ [][ServerNext]_evars
    /\ WF_evars(Server)
    /\ \A s \in Sockets : SF_evars(Wait /\ s \in ready')

--------------------------------------------------------------------------------
(* Properties.                                                                 *)

ServerTypeOK ==
    /\ TypeOK
    /\ at \in {"wait", "handle", "accepted", "adding", "respond"}
    /\ ready \subseteq Objects /\ batch \subseteq ready
    /\ current \in Sockets \cup {Nobody}
    /\ session \in [Sockets -> BOOLEAN]
    /\ parsed \in [Sockets -> 0..Segments - 1]
    /\ pending \in 0..MaxPending
    /\ sent \in [Sockets -> 0..Segments] /\ arrived \in [Sockets -> 0..Segments]
    /\ garbage \in [Sockets -> BOOLEAN] /\ hungup \in [Sockets -> BOOLEAN]

\* The session a batch points to has not been deleted when the loop comes to use it,
\* although earlier clients of the batch were removed and sockets were accepted.
SessionsLive ==
    \A s \in Sockets : s \in batch \/ (at = "respond" /\ s = current) => session[s]

\* Between batches nothing is left behind: a socket is open exactly while the selector
\* holds it and its session is allocated, and every open file belongs to one.
NothingLeaks ==
    at = "wait" =>
        /\ \A s \in Sockets :
              /\ connected(s) <=> s \in Members
              /\ session[s] <=> s \in Members
        /\ \A d \in Descriptors : file[d] \notin {Free, Stdin} => descriptor[file[d]] = d

\* Sessions are neither used after they are deleted nor kept after they are over.
SessionsKept == SessionsLive /\ NothingLeaks

\* A peer that has sent its whole request is answered or dropped.
Served == \A s \in Sockets : (sent[s] = Segments /\ session[s]) ~> (sent[s] = 0)

\* A connection the peer has left is closed.
Reaped == \A s \in Sockets : hungup[s] ~> ~hungup[s]
================================================================================
