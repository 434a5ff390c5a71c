---------------------------- MODULE SecureSocketProofs ----------------------------
(* Proofs about SecureSocket, for all messages, capacities and bounds. *)
EXTENDS SecureSocket, TLAPS, SequenceTheorems, WellFoundedInduction

Rec == Nat \X Nat

SSLSocket == [fd : Nat, bio : Nat, ready : BOOLEAN, is_blocking : BOOLEAN]

\* The types TypeOK leaves out.
Typed ==
    /\ sock \in [Sides -> SSLSocket]
    /\ hello \in [Connections -> {"none", "hello", "answered"}]
    /\ accepting \in Nat
    /\ tx \in Nat /\ sent \in Nat /\ out \in Rec
    /\ stream \in [Connections -> Seq(Rec)] /\ taken \in [Connections -> Nat]

\* Connections are accepted in the order in which they were made, so that the one that is
\* being accepted is never the one the server's object has.
InOrder ==
    /\ \A i \in 1..Len(backlog) : accepting < backlog[i] /\ sock["server"].fd < backlog[i]
    /\ \A i, j \in 1..Len(backlog) : i < j => backlog[i] < backlog[j]
    /\ accepting \in 0..made
    /\ accepting # NoFile => sock["server"].fd < accepting

\* A client in its handshake has the descriptor its context reads.
Handshaking ==
    pc["client"] = "handshake" =>
        sock["client"].fd # NoFile /\ sock["client"].bio = sock["client"].fd

SecureInv == TypeOK /\ Typed /\ InOrder /\ Handshaking /\ FilesHeld

--------------------------------------------------------------------------------
LEMMA Constants ==
    /\ MaxConnections \in Nat /\ Capacity \in Nat \ {0}
    /\ Connections = 1..MaxConnections /\ Sides = {"client", "server"}
    /\ \A m \in DOMAIN Messages : m \in Nat
  BY SecureAssumption, LenProperties DEF Connections, Sides

\* What is open, file by file: each side's object has one, and so has the accept that runs.
HasFile(sockets, s, p) == sockets[s].fd # NoFile /\ p = <<sockets[s].fd, s>>
Accepts(accepted, p) == accepted # NoFile /\ p = <<accepted, "server">>

HeldBy(sockets, accepted, p) ==
    HasFile(sockets, "client", p) \/ HasFile(sockets, "server", p) \/ Accepts(accepted, p)

\* The union that FilesHeld is about, for any values of the variables.
LEMMA HeldOneByOne ==
    ASSUME NEW files0, NEW sockets, NEW accepted
    PROVE  files0 = {<<sockets[s].fd, s>> : s \in {side \in Sides : sockets[side].fd # NoFile}}
                      \cup (IF accepted # NoFile THEN {<<accepted, "server">>} ELSE {})
           <=> \A p : p \in files0 <=> HeldBy(sockets, accepted, p)
<1> DEFINE connected == {side \in Sides : sockets[side].fd # NoFile}
           objects == {<<sockets[s].fd, s>> : s \in connected}
           accept == IF accepted # NoFile THEN {<<accepted, "server">>} ELSE {}
<1>1. ASSUME NEW p
      PROVE  p \in objects \cup accept <=> HeldBy(sockets, accepted, p)
  <2>1. p \in accept <=> Accepts(accepted, p)
    BY DEF Accepts
  <2>2. p \in objects <=> \E s \in connected : p = <<sockets[s].fd, s>>
    OBVIOUS
  <2>3. \A s : s \in connected <=> s \in Sides /\ sockets[s].fd # NoFile
    OBVIOUS
  <2>4. p \in objects \cup accept <=> p \in objects \/ p \in accept
    OBVIOUS
  <2> HIDE DEF connected, objects, accept
  <2>5. p \in objects <=> \E s \in Sides : HasFile(sockets, s, p)
    BY <2>2, <2>3 DEF HasFile
  <2>6. p \in objects <=> HasFile(sockets, "client", p) \/ HasFile(sockets, "server", p)
    BY <2>5 DEF Sides
  <2> QED  BY <2>1, <2>4, <2>6 DEF HeldBy
<1> HIDE DEF connected, objects, accept
<1>2. files0 = objects \cup accept <=> \A p : p \in files0 <=> p \in objects \cup accept
  OBVIOUS
<1>3. files0 = objects \cup accept <=> \A p : p \in files0 <=> HeldBy(sockets, accepted, p)
  BY <1>1, <1>2
<1> QED  BY <1>3 DEF connected, objects, accept

LEMMA HeldNow == FilesHeld <=> \A p : p \in open <=> HeldBy(sock, accepting, p)
  BY HeldOneByOne DEF FilesHeld

LEMMA HeldNext == FilesHeld' <=> \A p : p \in open' <=> HeldBy(sock', accepting', p)
  BY HeldOneByOne DEF FilesHeld

\* Steps that open, close and hand over nothing.
Kept ==
    /\ UNCHANGED <<files, accepting>>
    /\ \A s \in Sides : sock'[s].fd = sock[s].fd

LEMMA KeptFiles ==
    ASSUME SecureInv, Kept
    PROVE  FilesHeld' /\ InOrder'
<1>1. sock'["client"].fd = sock["client"].fd /\ sock'["server"].fd = sock["server"].fd
  BY DEF Kept, Sides
<1>2. UNCHANGED <<open, made, backlog, accepting>>
  BY DEF Kept, files
<1>3. FilesHeld'
  BY <1>1, <1>2 DEF FilesHeld, SecureInv, Sides
<1>4. InOrder'
  BY <1>1, <1>2 DEF InOrder, SecureInv
<1> QED  BY <1>3, <1>4

LEMMA SecureInit == Init => SecureInv
<1> SUFFICES ASSUME Init PROVE SecureInv
  OBVIOUS
<1>1. Typed
  BY Constants DEF Init, Typed, SSLSocket, Rec, NoFile, NoRecord
<1>2. TypeOK
  BY Constants DEF Init, TypeOK, ContextsMatch, NoFile
<1>3. InOrder /\ Handshaking
  BY Constants DEF Init, InOrder, Handshaking, NoFile
<1>4. FilesHeld
  BY DEF Init, FilesHeld, NoFile, Sides
<1> QED  BY <1>1, <1>2, <1>3, <1>4 DEF SecureInv

LEMMA ClientHelloKeeps ==
    ASSUME SecureInv, ClientHello
    PROVE  SecureInv'
<1>1. TypeOK /\ Typed /\ Handshaking /\ pc["client"] = "handshake"
  BY DEF SecureInv, ClientHello
<1> DEFINE c == sock["client"].fd
<1>2. sock["client"].fd \in 0..made /\ made \in 0..MaxConnections
  BY <1>1 DEF TypeOK, Sides
<1>3. c \in Connections /\ sock["client"].bio = c
  BY <1>1, <1>2, Constants DEF Handshaking, NoFile
<1>4. /\ hello[c] = "none" /\ hello' = [hello EXCEPT ![c] = "hello"]
      /\ UNCHANGED <<files, sock, accepting, pc, status, sending, data, interrupts>>
  BY DEF ClientHello
<1> HIDE DEF c
<1>5. Typed'
  BY <1>1, <1>3, <1>4 DEF Typed, sending, data
<1>6. ContextsMatch'
  BY <1>1, <1>3, <1>4 DEF TypeOK, Typed, ContextsMatch
<1>7. TypeOK'
  BY <1>1, <1>4, <1>6 DEF TypeOK, files, sending, data
<1>8. Handshaking' /\ Kept
  BY <1>1, <1>4 DEF Handshaking, Kept
<1> QED  BY <1>5, <1>7, <1>8, KeptFiles DEF SecureInv

\* The handshake made the client ready, or it failed.
LEMMA ClientHandshakeEnds ==
    ASSUME SecureInv, ClientHandshakes \/ ClientHandshakeFails
    PROVE  SecureInv'
<1>1. TypeOK /\ Typed /\ Handshaking /\ pc["client"] = "handshake"
  BY DEF SecureInv, ClientHandshakes, ClientHandshakeFails
<1>2. sock["client"].fd # NoFile /\ sock["client"].bio = sock["client"].fd
  BY <1>1 DEF Handshaking
<1>3. /\ UNCHANGED <<files, hello, accepting, sending, data, interrupts>>
      /\ \/ UNCHANGED sock
         \/ /\ hello[sock["client"].fd] = "answered"
            /\ sock' = [sock EXCEPT !["client"].ready = TRUE]
      /\ \E next \in {"idle", "failed"} : pc' = [pc EXCEPT !["client"] = next]
  BY DEF ClientHandshakes, ClientHandshakeFails, Returns
<1>4. /\ sock' \in [Sides -> SSLSocket]
      /\ \A s \in Sides : /\ sock'[s].fd = sock[s].fd /\ sock'[s].bio = sock[s].bio
                          /\ \/ sock'[s].ready = sock[s].ready
                             \/ s = "client" /\ hello[sock[s].fd] = "answered"
  <2>1. sock \in [Sides -> SSLSocket]
    BY <1>1 DEF Typed
  <2>2. CASE UNCHANGED sock
    BY <2>1, <2>2
  <2>3. CASE hello[sock["client"].fd] = "answered" /\ sock' = [sock EXCEPT !["client"].ready = TRUE]
    BY <2>1, <2>3 DEF SSLSocket
  <2> QED  BY <1>3, <2>2, <2>3
<1>5. Typed'
  BY <1>1, <1>3, <1>4 DEF Typed, sending, data
<1>6. ContextsMatch'
  BY <1>1, <1>2, <1>3, <1>4 DEF TypeOK, ContextsMatch
<1>7. /\ pc' \in [Sides -> {"idle", "handshake", "sending", "failed"}]
      /\ pc'["client"] \in {"idle", "failed"} /\ pc'["server"] = pc["server"]
  BY <1>1, <1>3 DEF TypeOK, Sides
<1>8. \A s \in Sides : sock'[s].fd \in 0..made /\ (sock'[s].ready => sock'[s].fd # NoFile)
  BY <1>1, <1>2, <1>4 DEF TypeOK
<1>9. TypeOK'
  BY <1>1, <1>3, <1>6, <1>7, <1>8 DEF TypeOK, files, sending, data
<1>10. Handshaking' /\ Kept
  BY <1>3, <1>4, <1>7 DEF Handshaking, Kept
<1> QED  BY <1>5, <1>9, <1>10, KeptFiles DEF SecureInv

LEMMA ModeKeeps ==
    ASSUME SecureInv, NEW s \in Sides, NEW should_block \in BOOLEAN, set_blocking(s, should_block)
    PROVE  SecureInv'
<1>1. TypeOK /\ Typed /\ Handshaking
  BY DEF SecureInv
<1>2. /\ sock' = [sock EXCEPT ![s].is_blocking = should_block]
      /\ UNCHANGED <<files, hello, accepting, pc, status, sending, data, interrupts>>
  BY DEF set_blocking
<1>3. /\ sock' \in [Sides -> SSLSocket]
      /\ \A x \in Sides : /\ sock'[x].fd = sock[x].fd /\ sock'[x].bio = sock[x].bio
                          /\ sock'[x].ready = sock[x].ready
  BY <1>1, <1>2 DEF Typed, SSLSocket
<1>4. Typed'
  BY <1>1, <1>2, <1>3 DEF Typed, sending, data
<1>5. ContextsMatch'
  BY <1>1, <1>2, <1>3 DEF TypeOK, ContextsMatch
<1>6. "client" \in Sides
  BY DEF Sides
<1>7. TypeOK'
  BY <1>1, <1>2, <1>3, <1>5, <1>6 DEF TypeOK, files, sending, data
<1>8. Handshaking' /\ Kept
  BY <1>1, <1>2, <1>3, <1>6 DEF Handshaking, Kept
<1> QED  BY <1>4, <1>7, <1>8, KeptFiles DEF SecureInv

\* Sending: the stream grows by a record only while there is room for it.
LEMMA SendKeeps ==
    ASSUME SecureInv, Sends
    PROVE  SecureInv'
<1>1. TypeOK /\ Typed
  BY DEF SecureInv
<1>2. /\ UNCHANGED <<files, hello, sock, accepting, taken>>
      /\ pc' \in [Sides -> {"idle", "handshake", "sending", "failed"}]
      /\ pc'["client"] # "handshake" /\ pc'["server"] = pc["server"]
  BY <1>1 DEF Sends, SendBegin, Write, SendReturns, WriteInterrupted, WriteFails, Returns,
              TypeOK, Sides, data
<1>3. sock["client"].ready
  BY <1>1 DEF Sends, SendBegin, Write, SendReturns, WriteInterrupted, WriteFails, TypeOK
<1>4. tx \in DOMAIN Messages /\ tx \in Nat /\ sent \in Nat
  BY <1>1 DEF Sends, SendBegin, Write, SendReturns, WriteInterrupted, WriteFails, TypeOK, Typed
<1>5. NextRecord \in Rec
  BY <1>1, <1>4 DEF NextRecord, Record, Rec, Typed
<1>6. /\ tx' \in Nat /\ sent' \in Nat /\ out' \in Rec
      /\ pc'["client"] = "sending" => tx' = tx
  <2>1. out \in Rec /\ NoRecord \in Rec /\ pc["client"] \in {"idle", "sending"}
    BY <1>1 DEF Typed, NoRecord, Rec, Sends, SendBegin, Write, SendReturns, WriteInterrupted, WriteFails
  <2>2. tx' \in Nat /\ sent' \in Nat /\ out' \in Rec
    BY <1>4, <1>5, <2>1 DEF Sends, SendBegin, Write, SendReturns, WriteInterrupted, WriteFails,
              data, sending
  <2>3. SendReturns => pc'["client"] # "sending"
    BY <1>1 DEF SendReturns, Returns, TypeOK, Sides
  <2>4. ~SendReturns => tx' = tx
    BY DEF Sends, SendBegin, Write, WriteInterrupted, WriteFails, sending
  <2> QED  BY <2>2, <2>3, <2>4
<1> DEFINE c == sock["client"].bio
<1>7. c \in Connections
  <2>1. c # NoFile /\ c = sock["client"].fd /\ sock["client"].fd \in 0..made
        /\ made \in 0..MaxConnections
    BY <1>1, <1>3 DEF TypeOK, ContextsMatch, Sides
  <2> QED  BY <2>1, Constants DEF NoFile
<1> HIDE DEF c
<1>8. /\ stream' \in [Connections -> Seq(Rec)]
      /\ \A x \in Connections : /\ taken'[x] <= Len(stream'[x])
                                /\ Len(stream'[x]) <= taken'[x] + Capacity
  <2>1. CASE UNCHANGED stream
    BY <1>1, <1>2, <2>1 DEF TypeOK, Typed
  <2>2. CASE Write
    <3>1. /\ Len(stream[c]) - taken[c] < Capacity
          /\ stream' = [stream EXCEPT ![c] = Append(stream[c], NextRecord)]
      BY <2>2 DEF Write, c
    <3>2. stream[c] \in Seq(Rec) /\ taken[c] \in Nat
      BY <1>1, <1>7 DEF Typed
    <3>3. /\ Append(stream[c], NextRecord) \in Seq(Rec) /\ Len(stream[c]) \in Nat
          /\ Len(Append(stream[c], NextRecord)) = Len(stream[c]) + 1
      BY <1>5, <3>2, AppendProperties, LenProperties
    <3>4. taken[c] <= Len(stream[c])
      BY <1>1, <1>7 DEF TypeOK
    <3>5. taken[c] <= Len(stream[c]) + 1 /\ Len(stream[c]) + 1 <= taken[c] + Capacity
      BY ONLY <3>1, <3>2, <3>3, <3>4, Constants
    <3>6. \A x \in Connections : stream'[x] = IF x = c THEN Append(stream[c], NextRecord)
                                             ELSE stream[x]
      BY <1>1, <3>1 DEF Typed
    <3>7. stream' \in [Connections -> Seq(Rec)]
      BY <1>1, <3>1, <3>3 DEF Typed
    <3> QED  BY <1>1, <1>2, <3>3, <3>5, <3>6, <3>7 DEF TypeOK
  <2> QED  BY <2>1, <2>2 DEF Sends, SendBegin, SendReturns, WriteInterrupted, WriteFails, data
<1>9. Typed'
  BY <1>1, <1>2, <1>6, <1>8 DEF Typed
<1>10. ContextsMatch'
  BY <1>1, <1>2 DEF TypeOK, ContextsMatch
<1>11. TypeOK'
  BY <1>1, <1>2, <1>3, <1>4, <1>6, <1>8, <1>10 DEF TypeOK, files
<1>12. Handshaking' /\ Kept
  BY <1>2 DEF Handshaking, Kept
<1> QED  BY <1>9, <1>11, <1>12, KeptFiles DEF SecureInv

\* Receiving takes no more than was written.
LEMMA ReceiveKeeps ==
    ASSUME SecureInv, Receives
    PROVE  SecureInv'
<1>1. TypeOK /\ Typed /\ Handshaking
  BY DEF SecureInv
<1>2. /\ UNCHANGED <<files, hello, sock, accepting, sending, stream>>
      /\ pc' \in [Sides -> {"idle", "handshake", "sending", "failed"}]
      /\ pc["server"] = "idle" /\ pc'["server"] \in {"idle", "failed"}
      /\ pc'["client"] = pc["client"]
  BY <1>1 DEF Receives, Receive, ReceiveInterrupted, ReceiveEnds, Returns, TypeOK, Sides, data
<1> DEFINE c == sock["server"].bio
<1>3. c \in Connections
  <2>1. sock["server"].ready
    BY DEF Receives, Receive, ReceiveInterrupted, ReceiveEnds
  <2>2. c # NoFile /\ c = sock["server"].fd /\ sock["server"].fd \in 0..made
        /\ made \in 0..MaxConnections
    BY <1>1, <2>1 DEF TypeOK, ContextsMatch, Sides
  <2> QED  BY <2>2, Constants DEF NoFile
<1> HIDE DEF c
<1>4. /\ taken' \in [Connections -> Nat]
      /\ \A x \in Connections : /\ taken'[x] <= Len(stream[x])
                                /\ Len(stream[x]) <= taken'[x] + Capacity
  <2>1. CASE UNCHANGED taken
    BY <1>1, <2>1 DEF TypeOK, Typed
  <2>2. CASE Receive
    <3>1. taken[c] < Len(stream[c]) /\ taken' = [taken EXCEPT ![c] = taken[c] + 1]
      BY <2>2 DEF Receive, c
    <3>2. \A x \in Connections : taken[x] \in Nat /\ Len(stream[x]) \in Nat
      BY <1>1, LenProperties DEF Typed
    <3>3. \A x \in Connections : taken'[x] = IF x = c THEN taken[c] + 1 ELSE taken[x]
      BY <1>1, <3>1 DEF Typed
    <3>4. taken' \in [Connections -> Nat]
      BY <1>1, <1>3, <3>1, <3>2 DEF Typed
    <3>5. \A x \in Connections : taken[x] <= Len(stream[x]) /\ Len(stream[x]) <= taken[x] + Capacity
      BY <1>1 DEF TypeOK
    <3> QED  BY <1>3, <3>1, <3>2, <3>3, <3>4, <3>5, Constants
  <2> QED  BY <2>1, <2>2 DEF Receives, ReceiveInterrupted, ReceiveEnds, data
<1>5. Typed'
  BY <1>1, <1>2, <1>4 DEF Typed, sending
<1>6. ContextsMatch'
  BY <1>1, <1>2 DEF TypeOK, ContextsMatch
<1>7. TypeOK'
  BY <1>1, <1>2, <1>4, <1>6 DEF TypeOK, files, sending
<1>8. Handshaking' /\ Kept
  BY <1>1, <1>2 DEF Handshaking, Kept
<1> QED  BY <1>5, <1>7, <1>8, KeptFiles DEF SecureInv

--------------------------------------------------------------------------------
(* Files are opened, closed and handed over.                                   *)

LEMMA ListenKeeps ==
    ASSUME SecureInv, listen \/ CloseListener
    PROVE  SecureInv'
<1>1. TypeOK /\ Typed /\ InOrder /\ Handshaking /\ FilesHeld
  BY DEF SecureInv
<1>2. backlog' = <<>>
      /\ UNCHANGED <<open, made, hello, sock, accepting, pc, sending, data>>
  BY DEF listen, CloseListener
<1>3. Typed' /\ Handshaking'
  BY <1>1, <1>2 DEF Typed, Handshaking, sending, data
<1>4. ContextsMatch'
  BY <1>1, <1>2 DEF TypeOK, ContextsMatch
<1>5. TypeOK'
  BY <1>1, <1>2, <1>4 DEF TypeOK, sending, data
<1>6. InOrder'
  BY <1>1, <1>2 DEF InOrder
<1>7. FilesHeld'
  BY <1>1, <1>2 DEF FilesHeld
<1> QED  BY <1>3, <1>5, <1>6, <1>7 DEF SecureInv

LEMMA ConnectKeeps ==
    ASSUME SecureInv, ConnectTcp
    PROVE  SecureInv'
<1>1. TypeOK /\ Typed /\ InOrder /\ FilesHeld
  BY DEF SecureInv
<1> DEFINE old == <<sock["client"].fd, "client">>
           c == made + 1
<1>2. /\ pc["client"] = "idle" /\ made < MaxConnections
      /\ tx' = 1 /\ sent' = 0 /\ out' = NoRecord
      /\ UNCHANGED <<hello, accepting, stream, taken>>
      /\ pc'["server"] = pc["server"]
      /\ pc' \in [Sides -> {"idle", "handshake", "sending", "failed"}]
      /\ pc'["client"] \in {"idle", "handshake", "failed"}
  BY <1>1 DEF ConnectTcp, NewContext, data, Returns, TypeOK, Typed, Sides
<1>3. /\ made \in Nat /\ MaxConnections \in Nat /\ c \in 0..MaxConnections /\ c # 0
      /\ c \in Connections /\ c > made /\ NoFile = 0 /\ 0 \in Nat /\ c \in Nat
  BY <1>1, <1>2, Constants DEF TypeOK, NoFile
<1>4. /\ sock["client"] \in SSLSocket /\ "client" \in Sides /\ sock \in [Sides -> SSLSocket]
  BY <1>1 DEF Typed, Sides
\* What becomes of the socket, and of the files.
<1> DEFINE Refused == /\ sock' = [sock EXCEPT !["client"] = Closed("client")]
                      /\ open' = open \ {old} /\ UNCHANGED <<made, backlog>>
                      /\ pc'["client"] = "idle"
           Opened(bio) ==
               /\ sock' = [sock EXCEPT !["client"] =
                              [[Closed("client") EXCEPT !.fd = c] EXCEPT !.bio = bio]]
               /\ made' = c /\ backlog' = Append(backlog, c)
               /\ open' = (open \ {old}) \cup {<<c, "client">>}
<1>5. Refused \/ (Opened(NoFile) /\ pc'["client"] = "failed") \/ Opened(c)
  <2>1. [[Closed("client") EXCEPT !.fd = c] EXCEPT !.bio = NoFile] = [Closed("client") EXCEPT !.fd = c]
    BY <1>4 DEF Closed, SSLSocket
  <2>2. pc \in [Sides -> {"idle", "handshake", "sending", "failed"}]
    BY <1>1 DEF TypeOK
  <2> QED  BY <2>1, <2>2, <1>4 DEF ConnectTcp, Returns
<1>6. Refused => /\ sock' \in [Sides -> SSLSocket] /\ sock'["server"] = sock["server"]
                 /\ sock'["client"].fd = NoFile /\ sock'["client"].bio = NoFile
                 /\ sock'["client"].ready = FALSE
  <2>1. /\ Closed("client") \in SSLSocket /\ Closed("client").fd = NoFile
        /\ Closed("client").bio = NoFile /\ Closed("client").ready = FALSE
    BY <1>3, <1>4 DEF Closed, SSLSocket
  <2> QED  BY <1>4, <2>1 DEF Sides
<1>7. \A bio \in {NoFile, c} :
          Opened(bio) => /\ sock' \in [Sides -> SSLSocket] /\ sock'["server"] = sock["server"]
                         /\ sock'["client"].fd = c /\ sock'["client"].bio = bio
                         /\ sock'["client"].ready = FALSE
  <2> TAKE bio \in {NoFile, c}
  <2> DEFINE new == [[Closed("client") EXCEPT !.fd = c] EXCEPT !.bio = bio]
  <2>1. new \in SSLSocket /\ new.fd = c /\ new.bio = bio /\ new.ready = FALSE
    BY <1>3, <1>4 DEF Closed, SSLSocket
  <2>2. Opened(bio) => sock' = [sock EXCEPT !["client"] = new]
    OBVIOUS
  <2> HIDE DEF new, Opened
  <2> QED  BY <1>4, <2>1, <2>2 DEF Sides
<1>8. /\ sock' \in [Sides -> SSLSocket] /\ sock'["server"] = sock["server"]
      /\ sock'["client"].ready = FALSE
      /\ \/ /\ sock'["client"].fd = NoFile /\ sock'["client"].bio = NoFile /\ pc'["client"] = "idle"
            /\ open' = open \ {old} /\ UNCHANGED <<made, backlog>>
         \/ /\ sock'["client"].fd = c /\ made' = c /\ backlog' = Append(backlog, c)
            /\ open' = (open \ {old}) \cup {<<c, "client">>}
            /\ \/ sock'["client"].bio = NoFile /\ pc'["client"] = "failed"
               \/ sock'["client"].bio = c
  <2>1. CASE Refused
    BY <2>1, <1>6
  <2>2. CASE Opened(NoFile) /\ pc'["client"] = "failed"
    BY <2>2, <1>7
  <2>3. CASE Opened(c)
    BY <2>3, <1>7
  <2> QED  BY <1>5, <2>1, <2>2, <2>3
<1> HIDE DEF Refused, Opened
<1>9. Typed'
  BY <1>1, <1>2, <1>8 DEF Typed, NoRecord, Rec
<1>10. /\ backlog \in Seq(1..made) /\ Len(backlog) \in Nat
       /\ \A i \in 1..Len(backlog) : backlog[i] \in 1..made
  BY <1>1, LenProperties, ElementOfSeq DEF TypeOK
<1>11. backlog \in Seq(Nat) /\ backlog \in Seq(1..c)
  <2>1. 1..made \subseteq 1..c /\ 1..made \subseteq Nat
    BY <1>3
  <2> QED  BY <1>10, <2>1, SeqMonotonic
<1>12. c \in 1..c
  BY <1>3
<1> HIDE DEF c
<1>13. /\ Append(backlog, c) \in Seq(1..c)
       /\ Len(Append(backlog, c)) = Len(backlog) + 1
       /\ \A i \in 1..Len(backlog) : Append(backlog, c)[i] = backlog[i]
       /\ Append(backlog, c)[Len(backlog) + 1] = c
  BY <1>11, <1>12, AppendProperties
<1>14. ContextsMatch'
  BY <1>1, <1>2, <1>8 DEF TypeOK, ContextsMatch, Sides, NoFile
<1>15. open' \subseteq Connections \X Sides
  BY <1>1, <1>3, <1>4, <1>8 DEF TypeOK
<1>16. backlog' \in Seq(1..made') /\ made' \in 0..MaxConnections
  BY <1>1, <1>3, <1>8, <1>10, <1>13 DEF TypeOK
<1>17. \A s \in Sides : sock'[s].fd \in 0..made' /\ (sock'[s].ready => sock'[s].fd # NoFile)
  <2>1. \A s \in Sides : sock[s].fd \in 0..made /\ (sock[s].ready => sock[s].fd # NoFile)
    BY <1>1 DEF TypeOK
  <2>2. 0..made \subseteq 0..c /\ c \in 0..c /\ 0 \in 0..made
    BY <1>3
  <2> QED  BY <1>3, <1>8, <2>1, <2>2 DEF Sides
<1>18. TypeOK'
  <2>1. accepting' # NoFile <=> pc'["server"] = "handshake"
    BY <1>1, <1>2 DEF TypeOK
  <2>2. \A x \in Connections : taken'[x] <= Len(stream'[x]) /\ Len(stream'[x]) <= taken'[x] + Capacity
    BY <1>1, <1>2 DEF TypeOK
  <2> QED  BY <1>2, <1>14, <1>15, <1>16, <1>17, <2>1, <2>2 DEF TypeOK
<1>19. Handshaking'
  BY <1>2, <1>3, <1>8 DEF Handshaking, NoFile
<1>20. InOrder'
  <2>1. accepting \in 0..made /\ sock["server"].fd \in 0..made
    BY <1>1 DEF InOrder, TypeOK, Sides
  <2>2. CASE UNCHANGED <<backlog, made>>
    BY <1>1, <1>2, <1>8, <2>2 DEF InOrder
  <2>3. CASE backlog' = Append(backlog, c) /\ made' = c
    <3>1. accepting < c /\ sock["server"].fd < c /\ accepting \in 0..c
      BY <1>3, <2>1
    <3>2. /\ Len(backlog') = Len(backlog) + 1 /\ backlog'[Len(backlog) + 1] = c
          /\ \A i \in 1..Len(backlog) : backlog'[i] = backlog[i] /\ backlog[i] < c
      BY <1>3, <1>10, <1>13, <2>3
    <3>3. 1..Len(backlog') = 1..Len(backlog) \cup {Len(backlog) + 1}
      BY ONLY <1>10, <3>2
    <3>4. \A i \in 1..Len(backlog') : accepting < backlog'[i] /\ sock["server"].fd < backlog'[i]
      BY <1>1, <3>1, <3>2, <3>3 DEF InOrder
    <3>5. ASSUME NEW i \in 1..Len(backlog'), NEW j \in 1..Len(backlog'), i < j
          PROVE  backlog'[i] < backlog'[j]
      <4>1. i \in 1..Len(backlog)
        BY ONLY <1>10, <3>2, <3>5
      <4>2. CASE j = Len(backlog) + 1
        BY <3>2, <4>1, <4>2
      <4>3. CASE j \in 1..Len(backlog)
        BY <1>1, <3>2, <3>5, <4>1, <4>3 DEF InOrder
      <4> QED  BY <3>3, <4>2, <4>3
    <3> QED  BY <1>1, <1>2, <1>8, <2>3, <3>1, <3>4, <3>5 DEF InOrder
  <2> QED  BY <1>8, <2>2, <2>3
<1>21. FilesHeld'
  <2>1. \A p : p \in open <=> HeldBy(sock, accepting, p)
    BY <1>1, HeldNow
  <2>2. \A p : p \in open \ {old} <=> HasFile(sock, "server", p) \/ Accepts(accepting, p)
    <3> TAKE p
    <3>1. HasFile(sock, "server", p) \/ Accepts(accepting, p) => p # old
      BY DEF HasFile, Accepts
    <3>2. HasFile(sock, "client", p) => p = old
      BY DEF HasFile
    <3>3. p \in open \ {old} <=> p \in open /\ p # old
      OBVIOUS
    <3> HIDE DEF old
    <3> QED  BY <2>1, <3>1, <3>2, <3>3 DEF HeldBy
  <2> HIDE DEF old
  <2>3. ASSUME NEW p PROVE p \in open' <=> HeldBy(sock', accepting', p)
    <3>1. /\ HasFile(sock', "server", p) <=> HasFile(sock, "server", p)
          /\ Accepts(accepting', p) <=> Accepts(accepting, p)
      BY <1>2, <1>8 DEF HasFile, Accepts
    <3>2. CASE sock'["client"].fd = NoFile /\ open' = open \ {old}
      <4>1. ~HasFile(sock', "client", p)
        BY <3>2 DEF HasFile
      <4> QED  BY <2>2, <3>1, <3>2, <4>1 DEF HeldBy
    <3>3. CASE sock'["client"].fd = c /\ open' = (open \ {old}) \cup {<<c, "client">>}
      <4>1. p \in open' <=> p \in open \ {old} \/ p = <<c, "client">>
        BY <3>3
      <4>2. HasFile(sock', "client", p) <=> p = <<c, "client">>
        BY <1>3, <3>3 DEF HasFile
      <4> QED  BY <2>2, <3>1, <4>1, <4>2 DEF HeldBy
    <3> QED  BY <1>8, <3>2, <3>3
  <2> QED  BY <2>3, HeldNext
<1> QED  BY <1>9, <1>18, <1>19, <1>20, <1>21 DEF SecureInv

\* The connection that is accepted is the oldest, and newer than the object's own.
LEMMA AcceptKeeps ==
    ASSUME SecureInv, Accept
    PROVE  SecureInv'
<1>1. TypeOK /\ Typed /\ InOrder /\ Handshaking /\ FilesHeld
  BY DEF SecureInv
<1> DEFINE c == Head(backlog)
<1>2. /\ pc["server"] = "idle" /\ backlog # <<>>
      /\ accepting' = c /\ backlog' = Tail(backlog) /\ open' = open \cup {<<c, "server">>}
      /\ pc' = [pc EXCEPT !["server"] = "handshake"]
      /\ UNCHANGED <<made, hello, sock, sending, data>>
  BY DEF Accept
<1>3. /\ backlog \in Seq(1..made) /\ made \in 0..MaxConnections /\ Len(backlog) \in Nat
      /\ \A i \in 1..Len(backlog) : backlog[i] \in 1..made
  BY <1>1, LenProperties, ElementOfSeq DEF TypeOK
<1>4. /\ Tail(backlog) \in Seq(1..made) /\ Len(Tail(backlog)) = Len(backlog) - 1
      /\ \A i \in 1..Len(Tail(backlog)) : Tail(backlog)[i] = backlog[i + 1]
      /\ c = backlog[1] /\ Len(backlog) > 0
  BY <1>2, <1>3, HeadTailProperties, EmptySeq
<1>5. c \in 1..made /\ c \in Connections /\ c # NoFile /\ c \in Nat
  BY <1>3, <1>4, Constants DEF NoFile
<1> HIDE DEF c
<1>6. accepting = NoFile
  BY <1>1, <1>2 DEF TypeOK
<1>7. Typed' /\ Handshaking'
  <2>1. pc'["client"] = pc["client"]
    BY <1>1, <1>2 DEF TypeOK, Sides
  <2> QED  BY <1>1, <1>2, <1>5, <2>1 DEF Typed, Handshaking, sending, data
<1>8. ContextsMatch'
  BY <1>1, <1>2 DEF TypeOK, ContextsMatch
<1>9. TypeOK'
  <2>1. /\ pc' \in [Sides -> {"idle", "handshake", "sending", "failed"}]
        /\ pc'["server"] = "handshake" /\ pc'["client"] = pc["client"]
    BY <1>1, <1>2 DEF TypeOK, Sides
  <2>2. open' \subseteq Connections \X Sides
    BY <1>1, <1>2, <1>5, Constants DEF TypeOK
  <2>3. /\ \A x \in Connections : /\ taken'[x] <= Len(stream'[x])
                                  /\ Len(stream'[x]) <= taken'[x] + Capacity
        /\ tx' = tx
    BY <1>1, <1>2 DEF TypeOK, data, sending
  <2> QED  BY <1>1, <1>2, <1>4, <1>5, <1>8, <2>1, <2>2, <2>3 DEF TypeOK
<1>10. InOrder'
  <2> DEFINE n == Len(Tail(backlog))
  <2>1. \A i \in 1..n : i + 1 \in 1..Len(backlog) /\ 1 < i + 1 /\ i \in 1..Len(backlog)
    BY <1>3, <1>4
  <2>2. 1 \in 1..Len(backlog)
    BY <1>3, <1>4
  <2> HIDE DEF n
  <2>3. \A i \in 1..n : c < Tail(backlog)[i] /\ sock["server"].fd < Tail(backlog)[i]
    BY <1>1, <1>4, <2>1, <2>2 DEF InOrder, n
  <2>4. ASSUME NEW i \in 1..n, NEW j \in 1..n, i < j
        PROVE  Tail(backlog)[i] < Tail(backlog)[j]
    <3>1. i + 1 < j + 1 /\ i + 1 \in 1..Len(backlog) /\ j + 1 \in 1..Len(backlog)
      BY <2>1, <2>4
    <3>2. backlog[i + 1] < backlog[j + 1]
      BY <1>1, <3>1 DEF InOrder
    <3> QED  BY <1>4, <3>2 DEF n
  <2>5. sock["server"].fd < c /\ c \in 0..made
    BY <1>1, <1>3, <1>4, <1>5, <2>2 DEF InOrder
  <2> QED  BY <1>2, <2>3, <2>4, <2>5 DEF InOrder, n
<1>11. FilesHeld'
  <2>1. \A p : p \in open <=> HeldBy(sock, accepting, p)
    BY <1>1, HeldNow
  <2>2. ASSUME NEW p PROVE p \in open' <=> HeldBy(sock', accepting', p)
    <3>1. p \in open' <=> p \in open \/ p = <<c, "server">>
      BY <1>2
    <3>2. ~Accepts(accepting, p) /\ (Accepts(accepting', p) <=> p = <<c, "server">>)
      BY <1>2, <1>5, <1>6 DEF Accepts
    <3> QED  BY <1>2, <2>1, <3>1, <3>2 DEF HeldBy
  <2> QED  BY <2>2, HeldNext
<1> QED  BY <1>7, <1>9, <1>10, <1>11 DEF SecureInv

\* What the end of an accept, one way or the other, relies on.
LEMMA AcceptRuns ==
    ASSUME SecureInv, pc["server"] = "handshake"
    PROVE  /\ accepting \in Connections /\ accepting \in 0..made /\ accepting # NoFile
           /\ accepting # sock["server"].fd
           /\ <<NoFile, "server">> \notin open
<1>1. TypeOK /\ InOrder /\ Typed
  BY DEF SecureInv
<1>2. accepting # NoFile /\ accepting \in 0..made /\ sock["server"].fd < accepting
  BY <1>1 DEF TypeOK, InOrder
<1>3. sock["server"].fd \in 0..made /\ made \in 0..MaxConnections
  BY <1>1 DEF TypeOK, Sides
<1>4. <<NoFile, "server">> \notin open
  BY <1>1, Constants DEF TypeOK, NoFile
<1> QED  BY <1>2, <1>3, <1>4, Constants DEF NoFile

LEMMA ServerHandshakesKeeps ==
    ASSUME SecureInv, ServerHandshakes
    PROVE  SecureInv'
<1>1. TypeOK /\ Typed /\ InOrder /\ Handshaking /\ FilesHeld
  BY DEF SecureInv
<1>2. /\ pc["server"] = "handshake"
      /\ hello' = [hello EXCEPT ![accepting] = "answered"]
      /\ open' = open \ {<<sock["server"].fd, "server">>}
      /\ sock' = [sock EXCEPT !["server"] = Moved] /\ accepting' = NoFile
      /\ pc' = [pc EXCEPT !["server"] = "idle"]
      /\ UNCHANGED <<made, backlog, sending, data>>
  BY DEF ServerHandshakes, Returns
<1>3. /\ accepting \in Connections /\ accepting \in 0..made /\ accepting # NoFile
      /\ accepting # sock["server"].fd /\ <<NoFile, "server">> \notin open
  BY <1>2, AcceptRuns
<1>4. accepting \in Nat /\ NoFile = 0 /\ made \in Nat
  BY <1>1 DEF Typed, TypeOK, NoFile
<1>5. /\ sock' \in [Sides -> SSLSocket] /\ sock'["client"] = sock["client"]
      /\ sock'["server"].fd = accepting /\ sock'["server"].bio = accepting
  <2>1. sock \in [Sides -> SSLSocket] /\ "server" \in Sides /\ sock["server"] \in SSLSocket
    BY <1>1 DEF Typed, Sides
  <2>2. Moved \in SSLSocket /\ Moved.fd = accepting /\ Moved.bio = accepting
    BY <1>4, <2>1 DEF Moved, SSLSocket
  <2> QED  BY <1>2, <2>1, <2>2 DEF Sides
<1>6. /\ hello' \in [Connections -> {"none", "hello", "answered"}]
      /\ hello'[accepting] = "answered"
      /\ \A x \in Connections : hello[x] = "answered" => hello'[x] = "answered"
  BY <1>1, <1>2, <1>3 DEF Typed
<1>7. /\ pc' \in [Sides -> {"idle", "handshake", "sending", "failed"}]
      /\ pc'["server"] = "idle" /\ pc'["client"] = pc["client"]
  BY <1>1, <1>2 DEF TypeOK, Sides
<1>8. Typed' /\ Handshaking'
  BY <1>1, <1>2, <1>4, <1>5, <1>6, <1>7 DEF Typed, Handshaking, sending, data
<1>9. ContextsMatch'
  <2>1. sock["client"].ready => sock["client"].bio \in Connections
    BY <1>1, Constants DEF TypeOK, ContextsMatch, Sides, NoFile
  <2>2. /\ sock["client"].bio # NoFile => sock["client"].bio = sock["client"].fd
        /\ sock["client"].ready => sock["client"].bio # NoFile /\ hello[sock["client"].bio] = "answered"
    BY <1>1 DEF TypeOK, ContextsMatch, Sides
  <2> QED  BY <1>3, <1>5, <1>6, <2>1, <2>2 DEF ContextsMatch, Sides
<1>10. TypeOK'
  <2>1. open' \subseteq Connections \X Sides
    BY <1>1, <1>2 DEF TypeOK
  <2>2. \A s \in Sides : sock'[s].fd \in 0..made /\ (sock'[s].ready => sock'[s].fd # NoFile)
    BY <1>1, <1>3, <1>5 DEF TypeOK, Sides
  <2>3. /\ \A x \in Connections : /\ taken'[x] <= Len(stream'[x])
                                  /\ Len(stream'[x]) <= taken'[x] + Capacity
        /\ tx' = tx
    BY <1>1, <1>2 DEF TypeOK, data, sending
  <2> QED  BY <1>1, <1>2, <1>5, <1>7, <1>9, <2>1, <2>2, <2>3 DEF TypeOK
<1>11. InOrder'
  BY <1>1, <1>2, <1>4, <1>5 DEF InOrder, TypeOK
<1>12. FilesHeld'
  <2>1. \A p : p \in open <=> HeldBy(sock, accepting, p)
    BY <1>1, HeldNow
  <2>2. ASSUME NEW p PROVE p \in open' <=> HeldBy(sock', accepting', p)
    <3>1. p \in open' <=> p \in open /\ p # <<sock["server"].fd, "server">>
      BY <1>2
    <3>2. /\ HasFile(sock', "client", p) <=> HasFile(sock, "client", p)
          /\ HasFile(sock', "server", p) <=> Accepts(accepting, p)
          /\ ~Accepts(accepting', p)
      BY <1>2, <1>3, <1>5 DEF HasFile, Accepts
    <3>3. /\ HasFile(sock, "client", p) => p # <<sock["server"].fd, "server">>
          /\ HasFile(sock, "server", p) => p = <<sock["server"].fd, "server">>
          /\ Accepts(accepting, p) => p # <<sock["server"].fd, "server">>
      BY <1>3 DEF HasFile, Accepts
    <3> QED  BY <2>1, <3>1, <3>2, <3>3 DEF HeldBy
  <2> QED  BY <2>2, HeldNext
<1> QED  BY <1>8, <1>10, <1>11, <1>12 DEF SecureInv

LEMMA ServerHandshakeFailsKeeps ==
    ASSUME SecureInv, ServerHandshakeFails
    PROVE  SecureInv'
<1>1. TypeOK /\ Typed /\ InOrder /\ Handshaking /\ FilesHeld
  BY DEF SecureInv
<1>2. /\ pc["server"] = "handshake"
      /\ open' = open \ {<<accepting, "server">>} /\ accepting' = NoFile
      /\ pc' = [pc EXCEPT !["server"] = "idle"]
      /\ UNCHANGED <<made, backlog, hello, sock, sending, data>>
  BY DEF ServerHandshakeFails, Returns, FreedContexts
<1>3. accepting # NoFile /\ accepting # sock["server"].fd
  BY <1>2, AcceptRuns
<1>4. NoFile = 0 /\ made \in Nat
  BY <1>1 DEF TypeOK, NoFile
<1>5. /\ pc' \in [Sides -> {"idle", "handshake", "sending", "failed"}]
      /\ pc'["server"] = "idle" /\ pc'["client"] = pc["client"]
  BY <1>1, <1>2 DEF TypeOK, Sides
<1>6. Typed' /\ Handshaking'
  BY <1>1, <1>2, <1>4, <1>5 DEF Typed, Handshaking, sending, data
<1>7. ContextsMatch'
  BY <1>1, <1>2 DEF TypeOK, ContextsMatch
<1>8. TypeOK'
  <2>1. open' \subseteq Connections \X Sides
    BY <1>1, <1>2 DEF TypeOK
  <2> QED  BY <1>1, <1>2, <1>5, <1>7, <2>1 DEF TypeOK, data, sending
<1>9. InOrder'
  <2>1. \A i \in 1..Len(backlog) : 0 < backlog[i]
    BY <1>1, ElementOfSeq DEF TypeOK
  <2> QED  BY <1>1, <1>2, <1>4, <2>1 DEF InOrder
<1>10. FilesHeld'
  <2>1. \A p : p \in open <=> HeldBy(sock, accepting, p)
    BY <1>1, HeldNow
  <2>2. ASSUME NEW p PROVE p \in open' <=> HeldBy(sock', accepting', p)
    <3>1. p \in open' <=> p \in open /\ p # <<accepting, "server">>
      BY <1>2
    <3>2. /\ HasFile(sock, "client", p) => p # <<accepting, "server">>
          /\ HasFile(sock, "server", p) => p # <<accepting, "server">>
          /\ Accepts(accepting, p) => p = <<accepting, "server">>
          /\ ~Accepts(accepting', p)
      BY <1>2, <1>3 DEF HasFile, Accepts
    <3> QED  BY <1>2, <2>1, <3>1, <3>2 DEF HeldBy
  <2> QED  BY <2>2, HeldNext
<1> QED  BY <1>6, <1>8, <1>9, <1>10 DEF SecureInv

LEMMA DisconnectKeeps ==
    ASSUME SecureInv, NEW s \in Sides, Disconnect(s)
    PROVE  SecureInv'
<1>1. TypeOK /\ Typed /\ InOrder /\ Handshaking /\ FilesHeld
  BY DEF SecureInv
<1>2. /\ pc[s] \in {"idle", "failed"}
      /\ open' = open \ {<<sock[s].fd, s>>} /\ sock' = [sock EXCEPT ![s] = Closed(s)]
      /\ pc' = [pc EXCEPT ![s] = "idle"]
      /\ UNCHANGED <<made, backlog, hello, accepting, sending, data>>
  BY DEF Disconnect
<1>3. NoFile = 0 /\ made \in Nat /\ 0 \in 0..made
  BY <1>1 DEF TypeOK, NoFile
<1>4. /\ sock' \in [Sides -> SSLSocket] /\ \A x \in Sides \ {s} : sock'[x] = sock[x]
      /\ sock'[s].fd = NoFile /\ sock'[s].bio = NoFile /\ sock'[s].ready = FALSE
  <2>1. sock \in [Sides -> SSLSocket] /\ sock[s] \in SSLSocket
    BY <1>1 DEF Typed
  <2>2. /\ Closed(s) \in SSLSocket /\ Closed(s).fd = NoFile /\ Closed(s).bio = NoFile
        /\ Closed(s).ready = FALSE
    BY <1>3, <2>1 DEF Closed, SSLSocket
  <2> QED  BY <1>2, <2>1, <2>2
<1>5. /\ pc' \in [Sides -> {"idle", "handshake", "sending", "failed"}]
      /\ pc'[s] = "idle" /\ \A x \in Sides \ {s} : pc'[x] = pc[x]
  BY <1>1, <1>2 DEF TypeOK
<1>6. "client" \in Sides /\ "server" \in Sides
  BY DEF Sides
<1>7. Typed'
  BY <1>1, <1>2, <1>4 DEF Typed, sending, data
<1>8. Handshaking'
  BY <1>1, <1>4, <1>5, <1>6 DEF Handshaking
<1>9. ContextsMatch'
  BY <1>1, <1>2, <1>4 DEF TypeOK, ContextsMatch
<1>10. TypeOK'
  <2>1. open' \subseteq Connections \X Sides
    BY <1>1, <1>2 DEF TypeOK
  <2>2. \A x \in Sides : sock'[x].fd \in 0..made /\ (sock'[x].ready => sock'[x].fd # NoFile)
    BY <1>1, <1>3, <1>4 DEF TypeOK
  <2>3. accepting' # NoFile <=> pc'["server"] = "handshake"
    BY <1>1, <1>2, <1>5, <1>6 DEF TypeOK
  <2>4. /\ \A x \in Connections : /\ taken'[x] <= Len(stream'[x])
                                  /\ Len(stream'[x]) <= taken'[x] + Capacity
        /\ tx' = tx /\ made' \in 0..MaxConnections /\ backlog' \in Seq(1..made')
    BY <1>1, <1>2 DEF TypeOK, data, sending
  <2>5. pc'["client"] = "sending" => sock'["client"].ready /\ tx \in DOMAIN Messages
    BY <1>1, <1>4, <1>5, <1>6 DEF TypeOK
  <2> QED  BY <1>2, <1>5, <1>9, <2>1, <2>2, <2>3, <2>4, <2>5 DEF TypeOK
<1>11. InOrder'
  <2>1. \A i \in 1..Len(backlog) : 0 < backlog[i]
    BY <1>1, ElementOfSeq DEF TypeOK
  <2>2. accepting \in Nat
    BY <1>1 DEF Typed
  <2>3. sock'["server"].fd \in {sock["server"].fd, 0}
    BY <1>3, <1>4, <1>6
  <2> QED  BY <1>1, <1>2, <1>3, <2>1, <2>2, <2>3 DEF InOrder
<1>12. FilesHeld'
  <2>1. \A p : p \in open <=> HeldBy(sock, accepting, p)
    BY <1>1, HeldNow
  <2>2. ASSUME NEW p PROVE p \in open' <=> HeldBy(sock', accepting', p)
    <3>1. p \in open' <=> p \in open /\ p # <<sock[s].fd, s>>
      BY <1>2
    <3>2. /\ ~HasFile(sock', s, p)
          /\ \A x \in Sides \ {s} : HasFile(sock', x, p) <=> HasFile(sock, x, p)
          /\ Accepts(accepting', p) <=> Accepts(accepting, p)
      BY <1>2, <1>4 DEF HasFile, Accepts
    <3>3. /\ HasFile(sock, s, p) => p = <<sock[s].fd, s>>
          /\ \A x \in Sides \ {s} : HasFile(sock, x, p) => p # <<sock[s].fd, s>>
      BY DEF HasFile
    <3>4. Accepts(accepting, p) => p # <<sock[s].fd, s>>
      <4>1. CASE s = "server"
        BY <1>1, <1>2, <4>1 DEF TypeOK, Accepts
      <4>2. CASE s = "client"
        BY <4>2 DEF Accepts
      <4> QED  BY <4>1, <4>2 DEF Sides
    <3>5. /\ HeldBy(sock, accepting, p) <=>
             (\E x \in Sides : HasFile(sock, x, p)) \/ Accepts(accepting, p)
          /\ HeldBy(sock', accepting', p) <=>
             (\E x \in Sides : HasFile(sock', x, p)) \/ Accepts(accepting', p)
      BY DEF HeldBy, Sides
    <3> QED  BY <2>1, <3>1, <3>2, <3>3, <3>4, <3>5
  <2> QED  BY <2>2, HeldNext
<1> QED  BY <1>7, <1>8, <1>10, <1>11, <1>12 DEF SecureInv

--------------------------------------------------------------------------------
LEMMA SecureNext == SecureInv /\ [Next]_vars => SecureInv'
<1> SUFFICES ASSUME SecureInv, [Next]_vars PROVE SecureInv'
  OBVIOUS
<1>1. CASE UNCHANGED vars
  <2>1. UNCHANGED <<files, hello, sock, accepting, pc, sending, data>>
    BY <1>1 DEF vars
  <2>2. TypeOK /\ Typed /\ Handshaking
    BY DEF SecureInv
  <2>3. Typed' /\ Handshaking' /\ Kept
    BY <2>1, <2>2 DEF Typed, Handshaking, Kept, sending, data
  <2>4. ContextsMatch'
    BY <2>1, <2>2 DEF TypeOK, ContextsMatch
  <2>5. TypeOK'
    BY <2>1, <2>2, <2>4 DEF TypeOK, files, sending, data
  <2> QED  BY <2>3, <2>5, KeptFiles DEF SecureInv
<1>2. CASE listen \/ CloseListener
  BY <1>2, ListenKeeps
<1>3. CASE ConnectTcp
  BY <1>3, ConnectKeeps
<1>4. CASE Accept
  BY <1>4, AcceptKeeps
<1>5. CASE Handshakes
  BY <1>5, ClientHelloKeeps, ClientHandshakeEnds, ServerHandshakesKeeps,
     ServerHandshakeFailsKeeps DEF Handshakes
<1>6. CASE Sends
  BY <1>6, SendKeeps
<1>7. CASE Receives
  BY <1>7, ReceiveKeeps
<1>8. CASE \E s \in Sides : Disconnect(s)
  BY <1>8, DisconnectKeeps
<1>9. CASE \E s \in Sides : \E should_block \in BOOLEAN : set_blocking(s, should_block)
  BY <1>9, ModeKeeps
<1> QED  BY <1>1, <1>2, <1>3, <1>4, <1>5, <1>6, <1>7, <1>8, <1>9 DEF Next

\* The contexts of both sockets match their descriptors, whatever is connected, accepted,
\* refused and interrupted (SSLSocket::connect, SSLListener::accept).
THEOREM SecureTypes == Spec => []TypeOK
<1>1. SecureInv => TypeOK
  BY DEF SecureInv
<1> QED  BY SecureInit, SecureNext, <1>1, PTL DEF Spec

\* Connect, accept, their failures and disconnect close every descriptor once and none that
\* is held: each open file is an object's or the running accept's (SSLListener.cpp:44).
THEOREM FilesAlwaysHeld == Spec => []FilesHeld
<1>1. SecureInv => FilesHeld
  BY DEF SecureInv
<1> QED  BY SecureInit, SecureNext, <1>1, PTL DEF Spec

--------------------------------------------------------------------------------
(* The records of the messages.                                                *)

\* A set of numbers has a least one.
LEMMA LeastOne ==
    ASSUME NEW numbers \in SUBSET Nat, numbers # {}
    PROVE  \E n \in numbers : \A m \in numbers : n <= m
<1> DEFINE below == {p \in Nat \X Nat : p[1] < p[2]}
<1>1. IsWellFoundedOn(below, Nat)
  BY NatLessThanWellFounded DEF OpToRel
<1>2. \A p, q \in Nat : q < p => <<q, p>> \in below
  OBVIOUS
<1> HIDE DEF below
<1>3. PICK n \in numbers : \A q \in numbers : <<q, n>> \notin below
  BY <1>1, WFMin, Zenon
<1>4. ASSUME NEW q \in numbers PROVE n <= q
  <2>1. n \in Nat /\ q \in Nat
    OBVIOUS
  <2>2. ~(q < n)
    BY <1>2, <1>3, <2>1
  <2> QED  BY <2>1, <2>2
<1> QED  BY <1>4

\* The first k records of message m.
FirstOf(m, k) == [j \in 1..k |-> Record(m, j)]

\* all[m] is what the messages up to m are on a connection.
Chain(n, all) ==
    /\ all \in [0..n -> Seq(Rec)]
    /\ all[0] = <<>>
    /\ \A m \in 1..n : all[m] = all[m - 1] \o FirstOf(m, Messages[m])

LEMMA FirstOfType ==
    ASSUME NEW m \in Nat, NEW k \in Nat
    PROVE  /\ FirstOf(m, k) \in Seq(Rec) /\ Len(FirstOf(m, k)) = k
           /\ \A j \in 1..k : FirstOf(m, k)[j] = Record(m, j)
<1>1. \A j \in 1..k : Record(m, j) \in Rec
  BY DEF Record, Rec
<1>2. FirstOf(m, k) \in [1..k -> Rec]
  BY <1>1 DEF FirstOf
<1>3. FirstOf(m, k) \in Seq(Rec)
  BY <1>2, SeqDef
<1>4. DOMAIN FirstOf(m, k) = 1..k
  BY DEF FirstOf
<1>5. Len(FirstOf(m, k)) = k
  BY <1>3, <1>4, LenProperties
<1> QED  BY <1>3, <1>5 DEF FirstOf

LEMMA MessageTypes ==
    /\ Len(Messages) \in Nat /\ DOMAIN Messages = 1..Len(Messages)
    /\ \A m \in 1..Len(Messages) : Messages[m] \in Nat \ {0}
<1>1. Messages \in Seq(Nat \ {0})
  BY SecureAssumption
<1> QED  BY <1>1, LenProperties, ElementOfSeq

\* One message more.
LEMMA ChainMore ==
    ASSUME NEW n \in Nat, NEW all, Chain(n, all), Messages[n + 1] \in Nat
    PROVE  \E more : Chain(n + 1, more)
<1> DEFINE new == all[n] \o FirstOf(n + 1, Messages[n + 1])
           more == [m \in 0..n + 1 |-> IF m = n + 1 THEN new ELSE all[m]]
<1>1. all \in [0..n -> Seq(Rec)] /\ n \in 0..n
  BY DEF Chain
<1>2. new \in Seq(Rec)
  <2>1. FirstOf(n + 1, Messages[n + 1]) \in Seq(Rec) /\ all[n] \in Seq(Rec)
    <3>1. n + 1 \in Nat
      OBVIOUS
    <3> QED  BY <1>1, <3>1, FirstOfType
  <2> QED  BY <2>1, ConcatProperties
<1>3. more \in [0..n + 1 -> Seq(Rec)]
  <2> HIDE DEF new
  <2> QED  BY <1>1, <1>2
<1>4. more[0] = <<>>
  BY DEF Chain
<1>5. ASSUME NEW m \in 1..n + 1
      PROVE  more[m] = more[m - 1] \o FirstOf(m, Messages[m])
  <2>1. more[m - 1] = all[m - 1]
    OBVIOUS
  <2>2. CASE m = n + 1
    <3>1. more[m] = new /\ m - 1 = n
      BY <2>2
    <3> HIDE DEF more
    <3> QED  BY <2>1, <2>2, <3>1
  <2>3. CASE m \in 1..n
    <3>1. more[m] = all[m]
      BY <2>3
    <3>2. all[m] = all[m - 1] \o FirstOf(m, Messages[m])
      BY <2>3 DEF Chain
    <3> HIDE DEF more, new
    <3> QED  BY ONLY <2>1, <3>1, <3>2, Zenon
  <2>4. m = n + 1 \/ m \in 1..n
    OBVIOUS
  <2> HIDE DEF more, new
  <2> QED  BY <2>2, <2>3, <2>4
<1> HIDE DEF more
<1> QED  BY <1>3, <1>4, <1>5 DEF Chain

LEMMA ChainAll == \E all : Chain(Len(Messages), all)
<1> DEFINE Bad == {n \in 0..Len(Messages) : ~ \E all : Chain(n, all)}
<1>1. Len(Messages) \in Nat
  BY MessageTypes
<1>2. Bad \in SUBSET Nat
  BY <1>1
<1>3. ASSUME NEW n \in Bad, \A m \in Bad : n <= m PROVE FALSE
  <2>1. CASE n = 0
    <3> DEFINE all == [m \in 0..0 |-> <<>>]
    <3>1. <<>> \in Seq(Rec) /\ 1..0 = {}
      OBVIOUS
    <3>2. Chain(0, all)
      BY <3>1 DEF Chain
    <3> QED  BY <2>1, <3>2
  <2>2. CASE n # 0
    <3>1. n - 1 \in Nat /\ n - 1 \in 0..Len(Messages) /\ n \in 1..Len(Messages) /\ (n - 1) + 1 = n
          /\ n - 1 \notin Bad
      BY <1>1, <1>3, <2>2
    <3>2. \E all : Chain(n - 1, all)
      BY <3>1
    <3>3. Messages[n] \in Nat
      BY <3>1, MessageTypes
    <3>4. \E all : Chain((n - 1) + 1, all)
      <4> DEFINE k == n - 1
      <4>1. k \in Nat /\ (\E all : Chain(k, all)) /\ Messages[k + 1] \in Nat
        BY <3>1, <3>2, <3>3
      <4> HIDE DEF k
      <4>2. \E all : Chain(k + 1, all)
        BY <4>1, ChainMore
      <4> QED  BY <4>2 DEF k
    <3>5. \E all : Chain(n, all)
      BY <3>1, <3>4
    <3> QED  BY <3>5
  <2> QED  BY <2>1, <2>2
<1> HIDE DEF Bad
<1>4. Bad = {}
  BY <1>2, <1>3, LeastOne
<1>5. Len(Messages) \in 0..Len(Messages)
  BY <1>1
<1> QED  BY <1>4, <1>5 DEF Bad

\* Records is the last of them.
LEMMA ChainRecords ==
    ASSUME NEW all, Chain(Len(Messages), all)
    PROVE  Records = all[Len(Messages)]
<1> DEFINE N == Len(Messages)
           seqs == [m \in DOMAIN Messages |-> [k \in 1..Messages[m] |-> Record(m, k)]]
<1>1. N \in Nat /\ DOMAIN Messages = 1..N
  BY MessageTypes
<1>2. \A m \in 1..N : seqs[m] = FirstOf(m, Messages[m]) /\ seqs[m] \in Seq(Rec)
  <2> TAKE m \in 1..N
  <2>1. seqs[m] = FirstOf(m, Messages[m])
    BY <1>1 DEF FirstOf
  <2>2. m \in Nat /\ Messages[m] \in Nat
    BY <1>1, MessageTypes
  <2>3. FirstOf(m, Messages[m]) \in Seq(Rec)
    BY <2>2, FirstOfType
  <2> HIDE DEF seqs
  <2> QED  BY <2>1, <2>3
<1>3. seqs \in Seq(Seq(Rec)) /\ Len(seqs) = N
  <2>1. DOMAIN seqs = 1..N
    BY <1>1
  <2>2. seqs = [m \in 1..N |-> seqs[m]]
    BY <1>1
  <2> HIDE DEF seqs
  <2>3. seqs \in [1..N -> Seq(Rec)]
    BY <1>2, <2>2
  <2>4. seqs \in Seq(Seq(Rec))
    BY <1>1, <2>3, SeqDef
  <2> QED  BY <1>1, <2>1, <2>4, LenProperties
<1>4. Records = FlattenSeq(seqs)
  BY DEF Records
<1> HIDE DEF seqs
<1>5. CASE N = 0
  <2>1. seqs = <<>>
    BY <1>3, <1>5, EmptySeq
  <2>2. FlattenSeq(seqs) = seqs
    BY <1>3, <1>5 DEF FlattenSeq
  <2> QED  BY <1>4, <1>5, <2>1, <2>2 DEF Chain
<1>6. CASE N # 0
  <2> DEFINE Is(f) == f = [i \in 1..N |-> IF i = 1 THEN seqs[i] ELSE f[i - 1] \o seqs[i]]
             flatten == CHOOSE f : Is(f)
             same == [i \in 1..N |-> all[i]]
  <2>1. FlattenSeq(seqs) = flatten[N]
    BY <1>3, <1>6 DEF FlattenSeq
  <2>2. Is(same)
    <3>1. ASSUME NEW i \in 1..N PROVE same[i] = IF i = 1 THEN seqs[i] ELSE same[i - 1] \o seqs[i]
      <4>1. same[i] = all[i - 1] \o seqs[i] /\ same[i] = all[i]
        BY <1>2 DEF Chain
      <4>2. CASE i = 1
        <5>1. all[i - 1] = <<>> /\ seqs[i] \in Seq(Rec)
          BY <1>2, <4>2 DEF Chain
        <5> HIDE DEF same
        <5> QED  BY <4>1, <4>2, <5>1, ConcatEmptySeq
      <4>3. CASE i # 1
        <5>1. i - 1 \in 1..N
          BY <1>1, <4>3
        <5>2. same[i - 1] = all[i - 1]
          BY <5>1
        <5> HIDE DEF same
        <5> QED  BY <4>1, <4>3, <5>2
      <4> QED  BY <4>2, <4>3
    <3>2. same = [i \in 1..N |-> same[i]]
      OBVIOUS
    <3> HIDE DEF same
    <3> QED  BY <3>1, <3>2
  <2>3. Is(flatten)
    <3> HIDE DEF Is
    <3> QED  BY <2>2
  <2> HIDE DEF flatten, same
  <2>4. \A i \in 1..N : flatten[i] = same[i]
    <3> DEFINE Bad == {i \in 1..N : flatten[i] # same[i]}
    <3>1. Bad \in SUBSET Nat
      BY <1>1
    <3>2. ASSUME NEW i \in Bad, \A m \in Bad : i <= m PROVE FALSE
      <4>1. flatten[1] = seqs[1] /\ same[1] = seqs[1] /\ 1 \in 1..N
        BY <1>1, <1>6, <2>2, <2>3
      <4>2. i # 1 /\ i \in 1..N /\ flatten[i] # same[i]
        BY <4>1
      <4>3. i - 1 \in 1..N /\ i - 1 \notin Bad
        BY <1>1, <3>2, <4>2
      <4>4. flatten[i - 1] = same[i - 1]
        BY <4>3
      <4>5. flatten[i] = flatten[i - 1] \o seqs[i]
        BY <2>3, <4>2
      <4>6. same[i] = same[i - 1] \o seqs[i]
        BY <2>2, <4>2
      <4> QED  BY <4>2, <4>4, <4>5, <4>6
    <3> HIDE DEF Bad
    <3>3. Bad = {}
      BY <3>1, <3>2, LeastOne
    <3> QED  BY <3>3 DEF Bad
  <2>5. N \in 1..N
    BY <1>1, <1>6
  <2> QED  BY <1>4, <2>1, <2>4, <2>5 DEF same
<1> QED  BY <1>5, <1>6

--------------------------------------------------------------------------------
(* What is on a connection.                                                    *)

\* The messages before m, and k records of m.
Upto(all, m, k) == all[m - 1] \o FirstOf(m, k)

LEMMA UptoType ==
    ASSUME NEW all, Chain(Len(Messages), all), NEW m \in 1..Len(Messages), NEW k \in 0..Messages[m]
    PROVE  /\ all[m - 1] \in Seq(Rec) /\ all[m] \in Seq(Rec) /\ m \in Nat /\ k \in Nat
           /\ Upto(all, m, k) \in Seq(Rec)
           /\ Len(Upto(all, m, k)) = Len(all[m - 1]) + k
           /\ \A i \in 1..Len(all[m - 1]) : Upto(all, m, k)[i] = all[m - 1][i]
           /\ \A i \in 1..k : Upto(all, m, k)[Len(all[m - 1]) + i] = Record(m, i)
<1> DEFINE s == all[m - 1]
           t == FirstOf(m, k)
<1>1. Len(Messages) \in Nat /\ Messages[m] \in Nat
  BY MessageTypes
<1>2. m \in Nat /\ k \in Nat /\ m - 1 \in 0..Len(Messages) /\ m \in 0..Len(Messages)
  BY <1>1
<1>3. s \in Seq(Rec) /\ all[m] \in Seq(Rec)
  BY <1>2 DEF Chain
<1>4. t \in Seq(Rec) /\ Len(t) = k /\ \A i \in 1..k : t[i] = Record(m, i)
  BY <1>2, FirstOfType
<1> HIDE DEF s, t
<1>5. /\ s \o t \in Seq(Rec) /\ Len(s \o t) = Len(s) + k
      /\ \A i \in 1..Len(s) : (s \o t)[i] = s[i]
      /\ \A i \in 1..k : (s \o t)[Len(s) + i] = t[i]
  <2>1. Len(s) \in Nat
    BY <1>3, LenProperties
  <2>2. s \o t \in Seq(Rec) /\ Len(s \o t) = Len(s) + Len(t)
    BY <1>3, <1>4, ConcatProperties
  <2>3. \A i \in 1..Len(s) + Len(t) : (s \o t)[i] = IF i <= Len(s) THEN s[i] ELSE t[i - Len(s)]
    BY <1>3, <1>4, ConcatProperties
  <2>4. ASSUME NEW i \in 1..k PROVE (s \o t)[Len(s) + i] = t[i]
    <3>1. Len(s) + i \in 1..Len(s) + Len(t) /\ ~(Len(s) + i <= Len(s)) /\ (Len(s) + i) - Len(s) = i
      BY <1>2, <1>4, <2>1
    <3> QED  BY <2>3, <3>1
  <2>5. ASSUME NEW i \in 1..Len(s) PROVE (s \o t)[i] = s[i]
    <3>1. i \in 1..Len(s) + Len(t) /\ i <= Len(s)
      BY <1>2, <1>4, <2>1
    <3> QED  BY <2>3, <3>1
  <2> QED  BY <1>4, <2>2, <2>4, <2>5
<1> QED  BY <1>2, <1>3, <1>4, <1>5 DEF Upto, s, t

LEMMA UptoNone ==
    ASSUME NEW all, Chain(Len(Messages), all), NEW m \in 1..Len(Messages)
    PROVE  Upto(all, m, 0) = all[m - 1] /\ 0 \in 0..Messages[m]
<1>1. Messages[m] \in Nat
  BY MessageTypes
<1>2. 0 \in 0..Messages[m]
  BY <1>1
<1>3. m \in Nat /\ all[m - 1] \in Seq(Rec)
  BY <1>2, UptoType
<1>4. FirstOf(m, 0) = <<>>
  <2>1. FirstOf(m, 0) \in Seq(Rec) /\ Len(FirstOf(m, 0)) = 0
    BY <1>3, FirstOfType
  <2> QED  BY <2>1, EmptySeq
<1> QED  BY <1>2, <1>3, <1>4, ConcatEmptySeq DEF Upto

LEMMA UptoWhole ==
    ASSUME NEW all, Chain(Len(Messages), all), NEW m \in 1..Len(Messages)
    PROVE  Upto(all, m, Messages[m]) = all[m] /\ Messages[m] \in 0..Messages[m]
<1>1. Messages[m] \in Nat
  BY MessageTypes
<1>2. all[m] = all[m - 1] \o FirstOf(m, Messages[m])
  BY DEF Chain
<1>3. Messages[m] \in 0..Messages[m]
  BY <1>1
<1> QED  BY <1>2, <1>3 DEF Upto

\* The next record is the one that is written next.
LEMMA UptoMore ==
    ASSUME NEW all, Chain(Len(Messages), all), NEW m \in 1..Len(Messages),
           NEW k \in 0..Messages[m], k < Messages[m]
    PROVE  /\ k + 1 \in 0..Messages[m]
           /\ Append(Upto(all, m, k), Record(m, k + 1)) = Upto(all, m, k + 1)
<1> DEFINE s == Upto(all, m, k)
           t == Upto(all, m, k + 1)
           n == Len(all[m - 1])
           r == Record(m, k + 1)
<1>1. Messages[m] \in Nat
  BY MessageTypes
<1>2. k \in Nat /\ k + 1 \in 0..Messages[m] /\ k + 1 \in Nat
  BY <1>1
<1>3. /\ all[m - 1] \in Seq(Rec) /\ s \in Seq(Rec) /\ Len(s) = n + k
      /\ \A i \in 1..n : s[i] = all[m - 1][i]
      /\ \A i \in 1..k : s[n + i] = Record(m, i)
  BY UptoType
<1>4. /\ t \in Seq(Rec) /\ Len(t) = n + (k + 1)
      /\ \A i \in 1..n : t[i] = all[m - 1][i]
      /\ \A i \in 1..k + 1 : t[n + i] = Record(m, i)
  BY <1>2, UptoType
<1>5. n \in Nat
  BY <1>3, LenProperties
<1>6. r \in Rec
  <2>1. m \in Nat
    BY UptoType
  <2> QED  BY <1>2, <2>1 DEF Record, Rec
<1>7. r = t[n + (k + 1)]
  <2>1. k + 1 \in 1..k + 1
    BY <1>2
  <2> QED  BY <1>4, <2>1
<1> HIDE DEF s, t, n, r
<1>8. /\ Append(s, r) \in Seq(Rec) /\ Len(Append(s, r)) = Len(s) + 1
      /\ Append(s, r)[Len(s) + 1] = r
      /\ \A i \in 1..Len(s) : Append(s, r)[i] = s[i]
  BY <1>3, <1>6, AppendProperties
<1>9. ASSUME NEW i \in 1..n + (k + 1) PROVE Append(s, r)[i] = t[i]
  <2>1. CASE i \in 1..n
    <3>1. i \in 1..Len(s)
      BY <1>2, <1>3, <1>5, <2>1
    <3> QED  BY <1>3, <1>4, <1>8, <2>1, <3>1
  <2>2. CASE i - n \in 1..k
    <3>1. i \in 1..Len(s) /\ n + (i - n) = i /\ i - n \in 1..k + 1
      BY <1>2, <1>3, <1>5, <2>2
    <3>2. s[i] = Record(m, i - n) /\ t[i] = Record(m, i - n)
      BY <1>3, <1>4, <2>2, <3>1
    <3> QED  BY <1>8, <3>1, <3>2
  <2>3. CASE i = n + (k + 1)
    <3>1. i = Len(s) + 1
      BY <1>2, <1>3, <1>5, <2>3
    <3> QED  BY <1>7, <1>8, <2>3, <3>1
  <2>4. i \in 1..n \/ i - n \in 1..k \/ i = n + (k + 1)
    BY <1>2, <1>5
  <2> QED  BY <2>1, <2>2, <2>3, <2>4
<1>10. Len(Append(s, r)) = Len(t)
  BY <1>2, <1>3, <1>4, <1>5, <1>8
<1>11. Append(s, r) = t
  BY <1>4, <1>8, <1>9, <1>10, SeqEqual
<1> QED  BY <1>2, <1>11 DEF s, t, r

\* The pieces of a sequence are sequences.
LEMMA PieceType ==
    ASSUME NEW S, NEW s \in Seq(S), NEW n \in 0..Len(s)
    PROVE  /\ SubSeq(s, 1, n) \in Seq(S)
           /\ SubSeq(s, n + 1, Len(s)) \in Seq(S)
<1>1. Len(s) \in Nat /\ \A i \in 1..Len(s) : s[i] \in S
  BY LenProperties, ElementOfSeq
<1>2. SubSeq(s, 1, n) \in Seq(S)
  BY <1>1, SubSeqProperties
<1>3. SubSeq(s, n + 1, Len(s)) \in Seq(S)
  BY <1>1, SubSeqProperties
<1> QED  BY <1>2, <1>3

\* A prefix, element by element.
LEMMA LeadsIsPrefix ==
    ASSUME NEW S, NEW s \in Seq(S), NEW t \in Seq(S), Len(s) <= Len(t),
           \A i \in 1..Len(s) : s[i] = t[i]
    PROVE  IsPrefix(s, t)
<1>1. Len(s) \in Nat /\ Len(t) \in Nat
  BY LenProperties
<1>2. SubSeq(t, 1, Len(s)) \in Seq(S)
  BY <1>1, PieceType
<1>3. /\ Len(SubSeq(t, 1, Len(s))) = Len(s)
      /\ \A i \in 1..Len(s) : SubSeq(t, 1, Len(s))[i] = t[i]
  BY <1>1, SubSeqProperties, ElementOfSeq
<1>4. SubSeq(t, 1, Len(s)) = s
  BY <1>2, <1>3, SeqEqual
<1>5. SubSeq(s, 1, Len(s)) = s
  BY SubSeqFull
<1> QED  BY <1>4, <1>5 DEF IsPrefix

\* s is what t starts with, element by element.
Leads(s, t) == Len(s) <= Len(t) /\ \A i \in 1..Len(s) : s[i] = t[i]

\* The messages up to m lead all that is sent.
LEMMA ChainLeads ==
    ASSUME NEW all, Chain(Len(Messages), all), NEW m \in 0..Len(Messages)
    PROVE  Leads(all[m], Records)
<1> DEFINE N == Len(Messages)
           Bad == {d \in 0..N : ~Leads(all[N - d], Records)}
<1>1. N \in Nat
  BY MessageTypes
<1>2. Records = all[N] /\ \A x \in 0..N : all[x] \in Seq(Rec)
  BY ChainRecords DEF Chain
<1> HIDE DEF N
<1>3. ASSUME NEW d \in Bad, \A x \in Bad : d <= x PROVE FALSE
  <2>1. d \in 0..N /\ ~Leads(all[N - d], Records)
    OBVIOUS
  <2>2. CASE d = 0
    <3>1. Leads(all[N], Records)
      BY <1>1, <1>2, LenProperties DEF Leads
    <3>2. N - d = N
      BY <1>1, <2>2
    <3> QED  BY <2>1, <3>1, <3>2
  <2>3. CASE d # 0
    <3> DEFINE x == N - d
    <3>1. /\ x \in 0..N /\ x + 1 \in 1..N /\ d - 1 \in 0..N /\ N - (d - 1) = x + 1 /\ (x + 1) - 1 = x
          /\ d - 1 \notin Bad
      <4>1. d - 1 \in 0..N /\ ~(d <= d - 1)
        BY <1>1, <2>1, <2>3
      <4>2. d - 1 \notin Bad
        BY <1>3, <4>1
      <4> HIDE DEF Bad
      <4> QED  BY <1>1, <2>1, <2>3, <4>1, <4>2
    <3>2. Leads(all[x + 1], Records)
      BY <3>1
    <3>3. ~Leads(all[x], Records)
      BY <2>1
    <3> HIDE DEF x
    <3>4. Upto(all, x + 1, Messages[x + 1]) = all[x + 1]
          /\ Messages[x + 1] \in 0..Messages[x + 1]
      BY <3>1, UptoWhole DEF N
    <3>5. /\ all[x] \in Seq(Rec) /\ all[x + 1] \in Seq(Rec)
          /\ Len(all[x + 1]) = Len(all[x]) + Messages[x + 1]
          /\ \A i \in 1..Len(all[x]) : all[x + 1][i] = all[x][i]
          /\ Messages[x + 1] \in Nat
      <4> DEFINE y == x + 1
      <4>1. y \in 1..Len(Messages) /\ y - 1 = x /\ Messages[y] \in 0..Messages[y]
            /\ Upto(all, y, Messages[y]) = all[y] /\ Messages[y] \in Nat
        BY <3>1, <3>4, MessageTypes DEF N
      <4> HIDE DEF y
      <4>2. /\ all[y - 1] \in Seq(Rec) /\ all[y] \in Seq(Rec)
            /\ Len(Upto(all, y, Messages[y])) = Len(all[y - 1]) + Messages[y]
            /\ \A i \in 1..Len(all[y - 1]) : Upto(all, y, Messages[y])[i] = all[y - 1][i]
        BY <4>1, UptoType
      <4>3. /\ all[x] \in Seq(Rec) /\ all[y] \in Seq(Rec)
            /\ Len(all[y]) = Len(all[x]) + Messages[y]
            /\ \A i \in 1..Len(all[x]) : all[y][i] = all[x][i]
            /\ Messages[y] \in Nat
        BY <4>1, <4>2
      <4> QED  BY <4>3 DEF y
    <3>6. Len(all[x]) \in Nat /\ Len(all[x + 1]) \in Nat /\ Len(Records) \in Nat
      BY <1>1, <1>2, <3>5, LenProperties
    <3>7. Leads(all[x], Records)
      BY <3>2, <3>5, <3>6 DEF Leads
    <3> QED  BY <3>3, <3>7
  <2> QED  BY <2>2, <2>3
<1>4. Bad \in SUBSET Nat
  BY <1>1
<1>5. N - m \in 0..N /\ N - (N - m) = m
  BY <1>1 DEF N
<1>6. Bad = {}
  <2> HIDE DEF Bad
  <2> QED  BY <1>3, <1>4, LeastOne
<1>7. N - m \notin Bad
  BY <1>6
<1>8. Leads(all[N - (N - m)], Records)
  BY <1>5, <1>7
<1> QED  BY <1>5, <1>8

\* And so does any part of a message after them.
LEMMA UptoLeads ==
    ASSUME NEW all, Chain(Len(Messages), all), NEW m \in 1..Len(Messages), NEW k \in 0..Messages[m]
    PROVE  IsPrefix(Upto(all, m, k), Records)
<1> DEFINE s == Upto(all, m, k)
           t == Upto(all, m, Messages[m])
           n == Len(all[m - 1])
<1>1. Messages[m] \in Nat /\ Len(Messages) \in Nat
  BY MessageTypes
<1>2. t = all[m] /\ Messages[m] \in 0..Messages[m]
  BY UptoWhole
<1>3. /\ all[m - 1] \in Seq(Rec) /\ s \in Seq(Rec) /\ Len(s) = n + k /\ k \in Nat
      /\ \A i \in 1..n : s[i] = all[m - 1][i]
      /\ \A i \in 1..k : s[n + i] = Record(m, i)
  BY UptoType
<1>4. /\ t \in Seq(Rec) /\ Len(t) = n + Messages[m]
      /\ \A i \in 1..n : t[i] = all[m - 1][i]
      /\ \A i \in 1..Messages[m] : t[n + i] = Record(m, i)
  BY <1>2, UptoType
<1>5. Leads(t, Records) /\ Records \in Seq(Rec)
  <2>1. m \in 0..Len(Messages) /\ Len(Messages) \in 0..Len(Messages)
    BY <1>1
  <2>2. Records \in Seq(Rec)
    <3>1. all[Len(Messages)] \in Seq(Rec)
      BY <2>1 DEF Chain
    <3> QED  BY <3>1, ChainRecords
  <2> HIDE DEF t
  <2> QED  BY <1>2, <2>1, <2>2, ChainLeads
<1>6. n \in Nat /\ Len(Records) \in Nat
  BY <1>3, <1>5, LenProperties
<1> HIDE DEF s, t, n
<1>7. ASSUME NEW i \in 1..n + k PROVE s[i] = t[i] /\ i \in 1..Len(t)
  <2>1. CASE i \in 1..n
    BY <1>1, <1>3, <1>4, <1>6, <2>1
  <2>2. CASE i - n \in 1..k
    <3>1. n + (i - n) = i /\ i - n \in 1..Messages[m] /\ i \in 1..Len(t)
      BY <1>1, <1>4, <1>6, <2>2
    <3>2. s[i] = Record(m, i - n) /\ t[i] = Record(m, i - n)
      BY <1>3, <1>4, <2>2, <3>1
    <3> QED  BY <3>1, <3>2
  <2>3. i \in 1..n \/ i - n \in 1..k
    BY <1>3, <1>6
  <2> QED  BY <2>1, <2>2, <2>3
<1>8. Len(s) <= Len(Records) /\ \A i \in 1..Len(s) : s[i] = Records[i]
  <2>1. Len(s) <= Len(t)
    BY <1>1, <1>3, <1>4, <1>6
  <2>2. Len(t) <= Len(Records) /\ \A i \in 1..Len(t) : t[i] = Records[i]
    BY <1>5 DEF Leads
  <2>3. Len(s) \in Nat /\ Len(t) \in Nat
    BY <1>3, <1>4, LenProperties
  <2>4. Len(s) <= Len(Records)
    BY <1>6, <2>1, <2>2, <2>3
  <2> QED  BY <1>3, <1>7, <2>2, <2>4
<1>9. IsPrefix(s, Records)
  BY <1>3, <1>5, <1>8, LeadsIsPrefix DEF Leads
<1> QED  BY <1>9 DEF s

--------------------------------------------------------------------------------
(* The client's sends.                                                         *)

\* What the messages up to m are, for every m.
Sums == CHOOSE all : Chain(Len(Messages), all)

LEMMA SumsChain ==
    /\ Chain(Len(Messages), Sums)
    /\ \A m \in 1..Len(Messages) : Upto(Sums, m, Messages[m]) = Sums[m]
  BY ChainAll, UptoWhole DEF Sums

\* A new connection starts from the first message.
Greets ==
    pc["client"] = "handshake" => tx = 1 /\ out = NoRecord /\ stream[sock["client"].fd] = <<>>

\* Between two calls the messages before tx are written, and nothing is left over.
Rests ==
    pc["client"] = "idle" /\ sock["client"].ready =>
        /\ tx \in 1..Len(Messages) + 1 /\ out = NoRecord
        /\ stream[sock["client"].bio] = Sums[tx - 1]

\* In a call so are the first records of tx.  A record is left over only from an attempt that
\* was interrupted at the start.
Writes ==
    pc["client"] = "sending" =>
        /\ sent \in 0..Messages[tx] /\ stream[sock["client"].bio] = Upto(Sums, tx, sent)
        /\ sock["client"].is_blocking \/ Messages[tx] = 1
        /\ out # NoRecord => sent = 0 /\ out = Record(tx, 1)

SentInv ==
    /\ SecureInv
    /\ SentOnce
    /\ \A c \in Connections : c > made => stream[c] = <<>>
    /\ Greets /\ Rests /\ Writes

LEMMA NothingIsPrefix == Records \in Seq(Rec) /\ IsPrefix(<<>>, Records)
<1>1. Len(Messages) \in 0..Len(Messages)
  BY MessageTypes
<1>2. Sums[Len(Messages)] \in Seq(Rec)
  BY <1>1, SumsChain DEF Chain
<1>3. Records \in Seq(Rec)
  BY <1>2, SumsChain, ChainRecords
<1>4. <<>> \in Seq(Rec) /\ Len(<<>>) = 0 /\ Len(Records) \in Nat
  BY <1>3, LenProperties
<1>5. Len(<<>>) <= Len(Records) /\ \A i \in 1..Len(<<>>) : <<>>[i] = Records[i]
  BY <1>4
<1> QED  BY <1>3, <1>4, <1>5, LeadsIsPrefix

LEMMA SentInit == Init => SentInv
<1> SUFFICES ASSUME Init PROVE SentInv
  OBVIOUS
<1>1. SecureInv
  BY SecureInit
<1>2. \A c \in Connections : stream[c] = <<>>
  BY DEF Init
<1>3. pc["client"] = "idle" /\ ~sock["client"].ready
  BY DEF Init, Sides
<1>4. SentOnce
  BY <1>2, NothingIsPrefix DEF SentOnce
<1> QED  BY <1>1, <1>2, <1>3, <1>4 DEF SentInv, Greets, Rests, Writes

\* Steps that leave the client alone.
LEMMA OthersSend ==
    ASSUME SentInv, SecureInv', UNCHANGED <<made, sending, stream>>,
           pc'["client"] = pc["client"], sock'["client"] = sock["client"]
    PROVE  SentInv'
<1>1. SentOnce' /\ \A c \in Connections : c > made' => stream'[c] = <<>>
  BY DEF SentInv, SentOnce
<1>2. Greets' /\ Rests' /\ Writes'
  BY DEF SentInv, Greets, Rests, Writes, sending
<1> QED  BY <1>1, <1>2 DEF SentInv

\* Steps after which the client has no session.
LEMMA NoSession ==
    ASSUME SentInv, SecureInv', UNCHANGED <<made, stream>>,
           pc'["client"] \in {"idle", "failed"}, pc'["client"] = "idle" => ~sock'["client"].ready
    PROVE  SentInv'
<1>1. SentOnce' /\ \A c \in Connections : c > made' => stream'[c] = <<>>
  BY DEF SentInv, SentOnce
<1>2. Greets' /\ Rests' /\ Writes'
  BY DEF Greets, Rests, Writes
<1> QED  BY <1>1, <1>2 DEF SentInv

LEMMA ConnectSends ==
    ASSUME SentInv, SecureInv', ConnectTcp
    PROVE  SentInv'
<1>1. TypeOK /\ Typed
  BY DEF SentInv, SecureInv
<1>2. /\ made < MaxConnections /\ tx' = 1 /\ out' = NoRecord /\ UNCHANGED stream
      /\ \/ made' = made /\ pc'["client"] = "idle" /\ ~sock'["client"].ready
         \/ made' = made + 1 /\ pc'["client"] = "failed"
         \/ made' = made + 1 /\ pc'["client"] = "handshake" /\ sock'["client"].fd = made + 1
  <2>1. made \in Nat /\ "client" \in Sides /\ pc \in [Sides -> {"idle", "handshake", "sending", "failed"}]
        /\ sock \in [Sides -> SSLSocket]
    BY <1>1 DEF TypeOK, Typed, Sides
  <2>2. sock["client"] \in SSLSocket
    BY <2>1
  <2>3. ~Closed("client").ready /\ Closed("client") \in SSLSocket
    BY <2>2 DEF Closed, SSLSocket, NoFile
  <2>4. /\ made < MaxConnections /\ tx' = 1 /\ out' = NoRecord /\ UNCHANGED stream
        /\ \/ /\ sock' = [sock EXCEPT !["client"] = Closed("client")]
              /\ pc' = [pc EXCEPT !["client"] = "idle"] /\ made' = made
           \/ /\ made' = made + 1 /\ pc' = [pc EXCEPT !["client"] = "failed"]
           \/ /\ made' = made + 1 /\ pc' = [pc EXCEPT !["client"] = "handshake"]
              /\ sock' = [sock EXCEPT !["client"] =
                            [[Closed("client") EXCEPT !.fd = made + 1] EXCEPT !.bio = made + 1]]
    BY DEF ConnectTcp, NewContext, Returns, data
  <2>5. [[Closed("client") EXCEPT !.fd = made + 1] EXCEPT !.bio = made + 1].fd = made + 1
    BY <2>3 DEF SSLSocket
  <2> QED  BY <2>1, <2>3, <2>4, <2>5
<1>3. made + 1 \in Connections /\ made + 1 > made /\ made \in Nat
  BY <1>1, <1>2, Constants DEF TypeOK
<1>4. \A c \in Connections : c > made' => stream'[c] = <<>>
  BY <1>2, <1>3, Constants DEF SentInv
<1>5. SentOnce'
  BY <1>2 DEF SentInv, SentOnce
<1>6. Greets'
  BY <1>2, <1>3 DEF SentInv, Greets
<1>7. Rests' /\ Writes'
  BY <1>2, <1>3 DEF Rests, Writes
<1> QED  BY <1>4, <1>5, <1>6, <1>7 DEF SentInv

LEMMA HandshakeSends ==
    ASSUME SentInv, SecureInv', ClientHandshakes \/ ClientHandshakeFails
    PROVE  SentInv'
<1>1. TypeOK /\ Typed /\ Handshaking /\ Greets
  BY DEF SentInv, SecureInv
<1>2. /\ pc["client"] = "handshake" /\ UNCHANGED <<made, sending, stream>>
      /\ \/ pc' = [pc EXCEPT !["client"] = "failed"]
         \/ /\ pc' = [pc EXCEPT !["client"] = "idle"]
            /\ sock' = [sock EXCEPT !["client"].ready = TRUE]
  BY DEF ClientHandshakes, ClientHandshakeFails, Returns, files, data
<1>3. /\ \/ pc'["client"] = "failed"
         \/ pc'["client"] = "idle" /\ sock'["client"].bio = sock["client"].bio
  BY <1>1, <1>2 DEF TypeOK, Typed, Sides, SSLSocket
<1>4. SentOnce' /\ \A c \in Connections : c > made' => stream'[c] = <<>>
  BY <1>2 DEF SentInv, SentOnce
<1>5. Greets' /\ Writes'
  BY <1>3 DEF Greets, Writes
<1>6. Rests'
  <2>1. tx = 1 /\ out = NoRecord /\ stream[sock["client"].bio] = <<>>
    BY <1>1, <1>2 DEF Greets, Handshaking
  <2>2. Sums[1 - 1] = <<>> /\ 1 \in 1..Len(Messages) + 1
    BY SumsChain, MessageTypes DEF Chain
  <2> QED  BY <1>2, <1>3, <2>1, <2>2 DEF Rests, sending
<1> QED  BY <1>4, <1>5, <1>6 DEF SentInv

\* What the client is in the middle of a send.
LEMMA Sending ==
    ASSUME SentInv, pc["client"] = "sending"
    PROVE  /\ sock["client"].bio \in Connections /\ sock["client"].bio <= made
           /\ tx \in 1..Len(Messages) /\ sent \in 0..Messages[tx] /\ Messages[tx] \in Nat
<1>1. /\ sock["client"].ready /\ tx \in DOMAIN Messages /\ ContextsMatch
      /\ sock["client"].fd \in 0..made /\ made \in 0..MaxConnections
  BY DEF SentInv, SecureInv, TypeOK, Sides
<1>2. sock["client"].bio = sock["client"].fd /\ sock["client"].bio # 0
  BY <1>1 DEF ContextsMatch, Sides, NoFile
<1>3. sent \in 0..Messages[tx]
  BY DEF SentInv, Writes
<1> QED  BY <1>1, <1>2, <1>3, MessageTypes, Constants

LEMMA SendBeginSends ==
    ASSUME SentInv, SecureInv', SendBegin, ~LongResends
    PROVE  SentInv'
<1>1. pc \in [Sides -> {"idle", "handshake", "sending", "failed"}]
  BY DEF SentInv, SecureInv, TypeOK
<1>2. /\ pc["client"] = "idle" /\ sock["client"].ready /\ tx \in DOMAIN Messages
      /\ sock["client"].is_blocking \/ Messages[tx] = 1
      /\ sent' = 0 /\ pc' = [pc EXCEPT !["client"] = "sending"]
      /\ UNCHANGED <<made, sock, tx, out, stream>>
  BY DEF SendBegin, files, data
<1>3. pc'["client"] = "sending"
  BY <1>1, <1>2 DEF Sides
<1>4. out = NoRecord /\ stream[sock["client"].bio] = Sums[tx - 1]
  BY <1>2 DEF SentInv, Rests
<1>5. tx \in 1..Len(Messages)
  BY <1>2, MessageTypes
<1>6. Upto(Sums, tx, 0) = Sums[tx - 1] /\ 0 \in 0..Messages[tx]
  BY <1>5, SumsChain, UptoNone
<1>7. Writes'
  BY <1>2, <1>4, <1>6 DEF Writes
<1>8. Greets' /\ Rests'
  BY <1>3 DEF Greets, Rests
<1>9. SentOnce' /\ \A c \in Connections : c > made' => stream'[c] = <<>>
  BY <1>2 DEF SentInv, SentOnce
<1> QED  BY <1>7, <1>8, <1>9 DEF SentInv

LEMMA WriteSends ==
    ASSUME SentInv, SecureInv', Write
    PROVE  SentInv'
<1> DEFINE c == sock["client"].bio
<1>1. /\ pc["client"] = "sending" /\ ~(sent >= Messages[tx])
      /\ stream' = [stream EXCEPT ![c] = Append(stream[c], NextRecord)]
      /\ out' = NoRecord /\ sent' = sent + 1
      /\ UNCHANGED <<made, sock, pc, tx>>
  BY DEF Write, Whole, files
<1>2. /\ c \in Connections /\ c <= made
      /\ tx \in 1..Len(Messages) /\ sent \in 0..Messages[tx] /\ Messages[tx] \in Nat
  BY <1>1, Sending
<1>3. /\ stream[c] = Upto(Sums, tx, sent)
      /\ sock["client"].is_blocking \/ Messages[tx] = 1
      /\ out # NoRecord => sent = 0 /\ out = Record(tx, 1)
  BY <1>1 DEF SentInv, Writes
<1>4. stream \in [Connections -> Seq(Rec)] /\ made \in 0..MaxConnections
  BY DEF SentInv, SecureInv, TypeOK, Typed
<1> HIDE DEF c
<1>5. NextRecord = Record(tx, sent + 1)
  <2>1. CASE out # NoRecord
    <3>1. sent = 0 /\ out = Record(tx, 1) /\ 0 + 1 = 1
      BY <1>3, <2>1
    <3> QED  BY <2>1, <3>1 DEF NextRecord
  <2>2. CASE out = NoRecord
    BY <2>2 DEF NextRecord
  <2> QED  BY <2>1, <2>2
<1>6. sent < Messages[tx]
  BY <1>1, <1>2
<1>7. /\ sent + 1 \in 0..Messages[tx]
      /\ Append(stream[c], NextRecord) = Upto(Sums, tx, sent + 1)
  BY <1>2, <1>3, <1>5, <1>6, SumsChain, UptoMore
<1>8. stream'[c] = Upto(Sums, tx, sent + 1) /\ \A x \in Connections \ {c} : stream'[x] = stream[x]
  BY <1>1, <1>2, <1>4, <1>7
<1>9. IsPrefix(Upto(Sums, tx, sent + 1), Records)
  BY <1>2, <1>7, SumsChain, UptoLeads
<1>10. SentOnce'
  <2>1. \A x \in Connections : IsPrefix(stream'[x], Records)
    BY <1>8, <1>9 DEF SentInv, SentOnce
  <2> QED  BY <2>1 DEF SentOnce
<1>11. ASSUME NEW x \in Connections, x > made' PROVE stream'[x] = <<>>
  <2>1. x # c /\ x > made
    BY <1>1, <1>2, <1>4, <1>11, Constants
  <2> QED  BY <1>8, <2>1 DEF SentInv
<1>12. Writes'
  BY <1>1, <1>3, <1>7, <1>8 DEF Writes, c
<1>13. Greets' /\ Rests'
  BY <1>1 DEF Greets, Rests
<1> QED  BY <1>10, <1>11, <1>12, <1>13 DEF SentInv

LEMMA SendReturnsSends ==
    ASSUME SentInv, SecureInv', SendReturns
    PROVE  SentInv'
<1>1. /\ pc["client"] = "sending" /\ sent >= Messages[tx] /\ tx' = tx + 1
      /\ pc' = [pc EXCEPT !["client"] = "idle"]
      /\ UNCHANGED <<made, sock, sent, out, stream>>
  BY DEF SendReturns, Whole, Returns, files, data
<1>2. pc'["client"] = "idle"
  BY <1>1 DEF SentInv, SecureInv, TypeOK, Sides
<1>3. tx \in 1..Len(Messages) /\ sent \in 0..Messages[tx] /\ Messages[tx] \in Nat \ {0}
  BY <1>1, Sending, MessageTypes
<1>4. sent = Messages[tx] /\ sent # 0
  BY <1>1, <1>3
<1>5. /\ stream[sock["client"].bio] = Upto(Sums, tx, sent)
      /\ out # NoRecord => sent = 0
  BY <1>1 DEF SentInv, Writes
<1>6. Upto(Sums, tx, Messages[tx]) = Sums[tx] /\ (tx + 1) - 1 = tx /\ tx + 1 \in 1..Len(Messages) + 1
  BY <1>3, SumsChain, MessageTypes
<1>7. Rests'
  BY <1>1, <1>4, <1>5, <1>6 DEF Rests
<1>8. Greets' /\ Writes'
  BY <1>2 DEF Greets, Writes
<1>9. SentOnce' /\ \A c \in Connections : c > made' => stream'[c] = <<>>
  BY <1>1 DEF SentInv, SentOnce
<1> QED  BY <1>7, <1>8, <1>9 DEF SentInv

\* The record is left over; a blocking socket gives up, and another one had written nothing.
LEMMA InterruptedSends ==
    ASSUME SentInv, SecureInv', WriteInterrupted
    PROVE  SentInv'
<1>1. /\ pc["client"] = "sending" /\ ~(sent >= Messages[tx])
      /\ out' = NextRecord /\ sent' = 0
      /\ UNCHANGED <<made, sock, tx, stream>>
      /\ IF sock["client"].is_blocking THEN pc' = [pc EXCEPT !["client"] = "failed"]
         ELSE pc' = [pc EXCEPT !["client"] = "sending"]
  BY DEF WriteInterrupted, Whole, Returns, files, data
<1>2. pc \in [Sides -> {"idle", "handshake", "sending", "failed"}]
  BY DEF SentInv, SecureInv, TypeOK
<1>3. CASE sock["client"].is_blocking
  <2>1. pc'["client"] = "failed"
    BY <1>1, <1>2, <1>3 DEF Sides
  <2> QED  BY <1>1, <2>1, NoSession
<1>4. CASE ~sock["client"].is_blocking
  <2>1. pc'["client"] = "sending"
    BY <1>1, <1>2, <1>4 DEF Sides
  <2>2. /\ Messages[tx] = 1 /\ stream[sock["client"].bio] = Upto(Sums, tx, sent)
        /\ out # NoRecord => sent = 0 /\ out = Record(tx, 1)
    BY <1>1, <1>4 DEF SentInv, Writes
  <2>3. sent \in 0..Messages[tx]
    BY <1>1, Sending
  <2>4. sent = 0
    BY <1>1, <2>2, <2>3
  <2>5. NextRecord = Record(tx, 1)
    BY <2>2, <2>4 DEF NextRecord
  <2>6. Writes'
    BY <1>1, <2>2, <2>3, <2>4, <2>5 DEF Writes
  <2>7. Greets' /\ Rests'
    BY <2>1 DEF Greets, Rests
  <2>8. SentOnce' /\ \A c \in Connections : c > made' => stream'[c] = <<>>
    BY <1>1 DEF SentInv, SentOnce
  <2> QED  BY <2>6, <2>7, <2>8 DEF SentInv
<1> QED  BY <1>3, <1>4

LEMMA FailsSends ==
    ASSUME SentInv, SecureInv', WriteFails
    PROVE  SentInv'
<1>1. pc' = [pc EXCEPT !["client"] = "failed"] /\ UNCHANGED <<made, stream>>
  BY DEF WriteFails, Returns, files, data
<1>2. pc'["client"] = "failed"
  BY <1>1 DEF SentInv, SecureInv, TypeOK, Sides
<1> QED  BY <1>1, <1>2, NoSession

\* Disconnecting the client ends its session.
LEMMA DisconnectSends ==
    ASSUME SentInv, SecureInv', NEW s \in Sides, Disconnect(s)
    PROVE  SentInv'
<1>1. /\ UNCHANGED <<made, sending, stream>> /\ sock' = [sock EXCEPT ![s] = Closed(s)]
      /\ pc' = [pc EXCEPT ![s] = "idle"]
  BY DEF Disconnect, data
<1>2. /\ pc \in [Sides -> {"idle", "handshake", "sending", "failed"}]
      /\ sock \in [Sides -> SSLSocket] /\ "client" \in Sides
  BY DEF SentInv, SecureInv, TypeOK, Typed, Sides
<1>3. CASE s = "client"
  <2>1. ~Closed("client").ready
    BY <1>2 DEF Closed, SSLSocket
  <2>2. pc'["client"] = "idle" /\ ~sock'["client"].ready
    BY <1>1, <1>2, <1>3, <2>1
  <2> QED  BY <1>1, <2>2, NoSession
<1>4. CASE s # "client"
  <2>1. pc'["client"] = pc["client"] /\ sock'["client"] = sock["client"]
    BY <1>1, <1>2, <1>4
  <2> QED  BY <1>1, <2>1, OthersSend
<1> QED  BY <1>3, <1>4

\* The mode is not changed in the middle of a send.
LEMMA ModeSends ==
    ASSUME SentInv, SecureInv', NEW s \in Sides, NEW should_block \in BOOLEAN,
           set_blocking(s, should_block)
    PROVE  SentInv'
<1>1. /\ pc[s] = "idle" /\ sock' = [sock EXCEPT ![s].is_blocking = should_block]
      /\ UNCHANGED <<made, pc, sending, stream>>
  BY DEF set_blocking, files, data
<1>2. sock \in [Sides -> SSLSocket] /\ "client" \in Sides
  BY DEF SentInv, SecureInv, Typed, Sides
<1>3. CASE s = "client"
  <2>1. /\ sock'["client"].fd = sock["client"].fd /\ sock'["client"].bio = sock["client"].bio
        /\ sock'["client"].ready = sock["client"].ready
    BY <1>1, <1>2, <1>3 DEF SSLSocket
  <2>2. Greets' /\ Rests'
    BY <1>1, <2>1 DEF SentInv, Greets, Rests, sending
  <2>3. Writes'
    BY <1>1, <1>3 DEF Writes
  <2>4. SentOnce' /\ \A c \in Connections : c > made' => stream'[c] = <<>>
    BY <1>1 DEF SentInv, SentOnce
  <2> QED  BY <2>2, <2>3, <2>4 DEF SentInv
<1>4. CASE s # "client"
  <2>1. sock'["client"] = sock["client"]
    BY <1>1, <1>2, <1>4
  <2> QED  BY <1>1, <2>1, OthersSend
<1> QED  BY <1>3, <1>4

LEMMA SentNext == ~LongResends => (SentInv /\ [Next]_vars => SentInv')
<1> SUFFICES ASSUME ~LongResends, SentInv, [Next]_vars PROVE SentInv'
  OBVIOUS
<1>1. SecureInv /\ SecureInv'
  BY SecureNext DEF SentInv
<1>2. pc \in [Sides -> {"idle", "handshake", "sending", "failed"}] /\ sock \in [Sides -> SSLSocket]
  BY <1>1 DEF SecureInv, TypeOK, Typed
<1>3. CASE UNCHANGED vars
  BY <1>1, <1>3, OthersSend DEF vars, files, data
<1>4. CASE listen \/ CloseListener \/ ClientHello
  BY <1>1, <1>4, OthersSend DEF listen, CloseListener, ClientHello, files, data
<1>5. CASE Accept \/ ServerHandshakes \/ ServerHandshakeFails \/ Receives
  <2>1. pc'["client"] = pc["client"] /\ sock'["client"] = sock["client"]
    BY <1>2, <1>5 DEF Accept, ServerHandshakes, ServerHandshakeFails, Receives, Receive,
                      ReceiveInterrupted, ReceiveEnds, Returns, Moved, Sides
  <2>2. UNCHANGED <<made, sending, stream>>
    BY <1>5 DEF Accept, ServerHandshakes, ServerHandshakeFails, Receives, Receive,
                ReceiveInterrupted, ReceiveEnds, files, data
  <2> QED  BY <1>1, <2>1, <2>2, OthersSend
<1>6. CASE ConnectTcp
  BY <1>1, <1>6, ConnectSends
<1>7. CASE ClientHandshakes \/ ClientHandshakeFails
  BY <1>1, <1>7, HandshakeSends
<1>8. CASE Sends
  BY <1>1, <1>8, SendBeginSends, WriteSends, SendReturnsSends, InterruptedSends, FailsSends DEF Sends
<1>9. CASE \E s \in Sides : Disconnect(s)
  BY <1>1, <1>9, DisconnectSends
<1>10. CASE \E s \in Sides : \E should_block \in BOOLEAN : set_blocking(s, should_block)
  BY <1>1, <1>10, ModeSends
<1> QED  BY <1>3, <1>4, <1>5, <1>6, <1>7, <1>8, <1>9, <1>10 DEF Next, Handshakes

\* Where a socket that does not block sends no message of several records, what is on every
\* connection is what was sent on it, in order and once, whatever signals interrupt; with
\* longer ones a call that is made again sends what it had already sent (SSLSocket.h:33).
THEOREM RecordsSentOnce == ASSUME ~LongResends PROVE Spec => []SentOnce
<1>1. SentInv => SentOnce
  BY DEF SentInv
<1>2. SentInv /\ [Next]_vars => SentInv'
  BY SentNext
<1> QED  BY SentInit, <1>1, <1>2, PTL DEF Spec
================================================================================
