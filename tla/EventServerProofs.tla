---------------------------- MODULE EventServerProofs ----------------------------
(* Proofs about EventServer, for all sets of sockets, table sizes and bounds. *)
EXTENDS EventServer, TLAPS

\* An object that has a number has the file of that number, and the other way round.
Owned ==
    /\ \A o \in Objects : connected(o) => file[descriptor[o]] = o
    /\ \A d \in Descriptors : file[d] \in Objects => descriptor[file[d]] = d

\* The two registries name the same objects, which are connected.
Registered ==
    /\ listener \in Members
    /\ \A o \in Members :
          connected(o) /\ added[o] = descriptor[o] /\ interest[descriptor[o]] = o
    /\ \A d \in Descriptors : interest[d] # Free =>
          interest[d] \in Members /\ descriptor[interest[d]] = d

\* Sessions and members are created and deleted together.
Paired == \A s \in Sockets : session[s] <=> s \in Members

\* Who keeps a connected socket, and what a batch and `current` denote.
Held ==
    /\ \A s \in Sockets : connected(s) =>
          s \in Members \/ s \in ready \/ (at \in {"accepted", "adding"} /\ s = current)
    /\ \A o \in ready : connected(o)
    /\ batch \subseteq Members
    /\ at \in {"accepted", "adding"} =>
          current \in Sockets /\ connected(current) /\ current \notin Members \cup ready
    /\ at = "respond" => current \in Sockets \cap Members
    /\ at = "wait" => ready = {}

\* No more arrives, and no more is parsed, than was sent; a request that is answered was
\* taken in full; an event of the listener stands for a connection.
Counted ==
    /\ \A s \in Sockets : parsed[s] + arrived[s] <= sent[s]
    /\ at = "respond" => arrived[current] = 0 /\ sent[current] = Segments
    /\ listener \in batch => pending > 0

ServerInv == ServerTypeOK /\ Owned /\ Registered /\ Paired /\ Held /\ Counted

--------------------------------------------------------------------------------
LEMMA Facts ==
    /\ Objects = Sockets \cup {listener} /\ listener \notin Sockets
    /\ Free \notin Objects /\ Stdin \notin Objects
    /\ 1 \in Descriptors /\ None \notin Descriptors /\ Descriptors \subseteq Nat
    /\ Segments \in Nat \ {0} /\ MaxPending \in Nat \ {0}
<1>1. 1 \in 0..TableSize - 1 /\ -1 \notin 0..TableSize - 1 /\ 0..TableSize - 1 \subseteq Nat
  BY DescriptorsAssumption, ServerAssumption
<1> QED  BY <1>1, DescriptorsAssumption, ObjectsAssumption, ServerAssumption
         DEF Objects, Descriptors, None

\* connected() is having a number.
LEMMA Numbered ==
    ASSUME descriptor \in [Objects -> Descriptors \cup {None}]
    PROVE  \A o \in Objects : connected(o) <=> descriptor[o] \in Descriptors
<1>1. \A d \in Descriptors \cup {None} : d > -1 <=> d \in Descriptors
  BY Facts DEF None
<1> QED  BY <1>1 DEF connected

\* Steps of the peers and of the loop alone leave the registries alone.
LEMMA RegistryKept ==
    ASSUME ServerInv, UNCHANGED <<vars, session>>
    PROVE  /\ TypeOK' /\ Owned' /\ Registered' /\ Paired'
           /\ UNCHANGED <<added, descriptor>> /\ Members' = Members
           /\ \A o : connected(o)' <=> connected(o)
<1>1. UNCHANGED <<file, nonblocking, descriptor, is_blocking, pc, candidates, status,
                  added, interest, tidy>>
  BY DEF vars, dvars, svars
<1>2. TypeOK /\ Owned /\ Registered /\ Paired
  BY DEF ServerInv, ServerTypeOK
<1>3. TypeOK'
  BY <1>1, <1>2 DEF TypeOK, DescriptorsTypeOK, Members
<1>4. Owned' /\ Registered' /\ Paired'
  BY <1>1, <1>2 DEF Owned, Registered, Paired, Members, connected
<1> QED  BY <1>1, <1>3, <1>4 DEF Members, connected

LEMMA ServerStarts == ServerInit => ServerInv
<1> SUFFICES ASSUME ServerInit PROVE ServerInv
  OBVIOUS
<1>1. DescriptorsTypeOK
  <2>1. 0 \in 0..MaxCandidates
    BY DescriptorsAssumption
  <2> QED  BY <2>1, Facts DEF ServerInit, DescriptorsTypeOK
<1>2. Members = {listener} /\ added[listener] = 1 /\ added \in [Members -> Descriptors]
  BY Facts DEF ServerInit, Members
<1>3. TypeOK
  BY <1>1, <1>2, Facts DEF ServerInit, TypeOK
<1>4. ServerTypeOK
  BY <1>3, Facts DEF ServerInit, ServerTypeOK
<1>5. \A o \in Objects : connected(o) <=> o = listener
  <2>1. descriptor[listener] = 1 /\ \A o \in Objects \ {listener} : descriptor[o] = None
    BY Facts DEF ServerInit
  <2> QED  BY <2>1, Facts, <1>1, Numbered DEF DescriptorsTypeOK
<1>6. descriptor[listener] = 1 /\ file[1] = listener /\ interest[1] = listener
  BY Facts DEF ServerInit
<1>7. \A d \in Descriptors : /\ file[d] \in Objects => d = 1
                             /\ interest[d] # Free => d = 1
  BY Facts DEF ServerInit
<1>8. Owned
  BY <1>5, <1>6, <1>7 DEF Owned
<1>9. Registered
  BY <1>2, <1>5, <1>6, <1>7, Facts DEF Registered
<1>10. Paired /\ Held
  BY <1>2, <1>5, Facts DEF ServerInit, Paired, Held
<1>11. Counted
  BY Facts DEF ServerInit, Counted
<1> QED  BY <1>4, <1>8, <1>9, <1>10, <1>11 DEF ServerInv

--------------------------------------------------------------------------------
LEMMA PeersKeep ==
    ASSUME ServerInv, Peers
    PROVE  ServerInv'
<1>1. UNCHANGED <<vars, session, loop, parsed>>
  BY DEF Peers, PeerConnects, PeerSends, PeerHangsUp
<1>2. /\ TypeOK' /\ Owned' /\ Registered' /\ Paired' /\ Members' = Members
      /\ \A o : connected(o)' <=> connected(o)
  BY <1>1, RegistryKept
<1>3. UNCHANGED <<at, ready, batch, current, session, parsed>>
  BY <1>1 DEF loop
<1>4. Held'
  BY <1>2, <1>3 DEF ServerInv, Held
<1>5. ServerTypeOK /\ Counted
  BY DEF ServerInv
<1>6. ServerTypeOK' /\ Counted'
  <2>1. CASE PeerConnects
    BY <1>2, <1>3, <1>5, <2>1, Facts DEF PeerConnects, ServerTypeOK, Counted
  <2>2. ASSUME NEW s \in Sockets, PeerSends(s) PROVE ServerTypeOK' /\ Counted'
    <3>1. /\ sent[s] < Segments /\ sent' = [sent EXCEPT ![s] = sent[s] + 1]
          /\ arrived' = [arrived EXCEPT ![s] = arrived[s] + 1]
          /\ garbage' \in [Sockets -> BOOLEAN] /\ UNCHANGED <<pending, hungup>>
      BY <1>5, <2>2 DEF PeerSends, ServerTypeOK
    <3>2. \A x \in Sockets : /\ parsed[x] \in Nat /\ arrived[x] \in Nat /\ sent[x] \in Nat
                             /\ parsed[x] + arrived[x] <= sent[x]
      BY <1>5, Facts DEF ServerTypeOK, Counted
    <3>3. sent[s] + 1 \in 0..Segments /\ arrived[s] + 1 \in 0..Segments
          /\ parsed[s] + (arrived[s] + 1) <= sent[s] + 1
      BY <3>1, <3>2, Facts
    <3>4. sent' \in [Sockets -> 0..Segments] /\ arrived' \in [Sockets -> 0..Segments]
      BY <1>5, <3>1, <3>3 DEF ServerTypeOK
    <3>5. \A x \in Sockets : /\ sent'[x] = IF x = s THEN sent[s] + 1 ELSE sent[x]
                             /\ arrived'[x] = IF x = s THEN arrived[s] + 1 ELSE arrived[x]
      BY <1>5, <3>1 DEF ServerTypeOK
    <3>6. at = "respond" => current \in Sockets /\ current # s
      BY <1>5, <3>1, Facts DEF ServerInv, Held, Counted
    <3>7. Counted'
      BY <1>3, <1>5, <3>1, <3>2, <3>3, <3>5, <3>6 DEF Counted
    <3> QED  BY <1>2, <1>3, <1>5, <3>1, <3>4, <3>7 DEF ServerTypeOK
  <2>3. ASSUME NEW s \in Sockets, PeerHangsUp(s) PROVE ServerTypeOK' /\ Counted'
    BY <1>2, <1>3, <1>5, <2>3 DEF PeerHangsUp, ServerTypeOK, Counted
  <2> QED  BY <2>1, <2>2, <2>3 DEF Peers
<1> QED  BY <1>2, <1>4, <1>6 DEF ServerInv

\* The vector that wait returns holds members only.
LEMMA WaitKeeps ==
    ASSUME ServerInv, Wait
    PROVE  ServerInv'
<1>1. /\ at = "wait" /\ at' = "handle" /\ ready' = batch' /\ batch' \subseteq Reportable
      /\ UNCHANGED <<vars, session, current, parsed, pending, sent, arrived, garbage, hungup>>
  BY DEF Wait, peers
<1>2. /\ TypeOK' /\ Owned' /\ Registered' /\ Paired' /\ Members' = Members
      /\ \A o : connected(o)' <=> connected(o)
  BY <1>1, RegistryKept
<1>3. ServerTypeOK /\ Registered /\ Held /\ Counted
  BY DEF ServerInv
<1>4. \A o \in Reportable : o \in Members /\ (o = listener => pending > 0)
  <2> SUFFICES ASSUME NEW o \in Reportable
               PROVE  o \in Members /\ (o = listener => pending > 0)
    OBVIOUS
  <2>1. PICK d \in Descriptors : o = interest[d] /\ o # Free /\ HasEvent(o)
    BY DEF Reportable
  <2> QED  BY <1>3, <2>1 DEF Registered, HasEvent
<1>5. Held'
  BY <1>1, <1>2, <1>3, <1>4 DEF Held, Registered
<1>6. Counted'
  BY <1>1, <1>3, <1>4 DEF Counted
<1>7. Members \subseteq Objects
  BY <1>3 DEF ServerTypeOK, TypeOK
<1>8. ServerTypeOK'
  BY <1>1, <1>2, <1>3, <1>4, <1>7 DEF ServerTypeOK
<1> QED  BY <1>2, <1>5, <1>6, <1>8 DEF ServerInv

LEMMA AcceptFailsKeeps ==
    ASSUME ServerInv, AcceptFails
    PROVE  ServerInv'
<1>1. /\ batch' = batch \ {listener}
      /\ UNCHANGED <<vars, session, at, ready, current, parsed, pending, sent, arrived,
                     garbage, hungup>>
  BY DEF AcceptFails, Visited, peers
<1>2. /\ TypeOK' /\ Owned' /\ Registered' /\ Paired' /\ Members' = Members
      /\ \A o : connected(o)' <=> connected(o)
  BY <1>1, RegistryKept
<1> QED  BY <1>1, <1>2 DEF ServerInv, ServerTypeOK, Held, Counted

LEMMA EndOfBatchKeeps ==
    ASSUME ServerInv, EndOfBatch
    PROVE  ServerInv'
<1>1. /\ at = "handle" /\ at' = "wait" /\ batch = {} /\ ready \subseteq Members /\ ready' = {}
      /\ UNCHANGED <<vars, session, batch, current, parsed, pending, sent, arrived,
                     garbage, hungup>>
  BY DEF EndOfBatch, peers
<1>2. /\ TypeOK' /\ Owned' /\ Registered' /\ Paired' /\ Members' = Members
      /\ \A o : connected(o)' <=> connected(o)
  BY <1>1, RegistryKept
<1>3. Held'
  BY <1>1, <1>2 DEF ServerInv, Held
<1> QED  BY <1>1, <1>2, <1>3 DEF ServerInv, ServerTypeOK, Counted

\* A client is visited: a part of its request, or all of it, is taken.
LEMMA ReceivesKeep ==
    ASSUME ServerInv, NEW s \in Sockets, ReceivesPart(s) \/ ReceivesRequest(s)
    PROVE  ServerInv'
<1>1. /\ at = "handle" /\ s \in batch /\ batch' = batch \ {s}
      /\ UNCHANGED <<vars, session, ready, pending, sent, garbage, hungup>>
  BY DEF ReceivesPart, ReceivesRequest, Visited
<1>2. /\ TypeOK' /\ Owned' /\ Registered' /\ Paired' /\ Members' = Members
      /\ \A o : connected(o)' <=> connected(o)
  BY <1>1, RegistryKept
<1>3. ServerTypeOK /\ Held /\ Counted
  BY DEF ServerInv
<1>4. PICK n \in 1..arrived[s] :
         /\ arrived' = [arrived EXCEPT ![s] = arrived[s] - n]
         /\ \/ /\ parsed[s] + n < Segments /\ parsed' = [parsed EXCEPT ![s] = parsed[s] + n]
               /\ UNCHANGED <<at, current>>
            \/ /\ parsed[s] + n = Segments /\ UNCHANGED parsed
               /\ at' = "respond" /\ current' = s
  BY DEF ReceivesPart, ReceivesRequest, ParsedAfter
<1>5. \A x \in Sockets : /\ parsed[x] \in 0..Segments - 1 /\ arrived[x] \in 0..Segments
                         /\ sent[x] \in 0..Segments /\ parsed[x] + arrived[x] <= sent[x]
  BY <1>3 DEF ServerTypeOK, Counted
<1>6. /\ n \in Nat /\ arrived[s] - n \in 0..Segments
      /\ parsed[s] + (arrived[s] - n) <= sent[s]
      /\ (parsed[s] + n) + (arrived[s] - n) <= sent[s]
      /\ parsed[s] + n < Segments => parsed[s] + n \in 0..Segments - 1
      /\ parsed[s] + n = Segments => arrived[s] - n = 0 /\ sent[s] = Segments
  BY <1>4, <1>5, Facts
<1>7. arrived' \in [Sockets -> 0..Segments] /\ parsed' \in [Sockets -> 0..Segments - 1]
  BY <1>3, <1>4, <1>6 DEF ServerTypeOK
<1>8. \A x \in Sockets : /\ arrived'[x] = IF x = s THEN arrived[s] - n ELSE arrived[x]
                         /\ x # s => parsed'[x] = parsed[x]
                         /\ parsed'[s] \in {parsed[s], parsed[s] + n}
  BY <1>3, <1>4 DEF ServerTypeOK
<1>9. ServerTypeOK'
  BY <1>1, <1>2, <1>3, <1>4, <1>7 DEF ServerTypeOK
<1>10. Held'
  BY <1>1, <1>2, <1>3, <1>4 DEF Held
<1>11. Counted'
  <2>1. \A x \in Sockets : parsed'[x] + arrived'[x] <= sent[x]
    BY <1>5, <1>6, <1>8
  <2> QED  BY <1>1, <1>3, <1>4, <1>6, <1>8, <2>1 DEF Counted
<1> QED  BY <1>2, <1>9, <1>10, <1>11 DEF ServerInv

LEMMA RespondsKeeps ==
    ASSUME ServerInv, Responds
    PROVE  ServerInv'
<1>1. /\ at = "respond" /\ at' = "handle" /\ current' = Nobody
      /\ parsed' = [parsed EXCEPT ![current] = 0] /\ sent' = [sent EXCEPT ![current] = 0]
      /\ UNCHANGED <<vars, session, ready, batch, pending, arrived, garbage, hungup>>
  BY DEF Responds
<1>2. /\ TypeOK' /\ Owned' /\ Registered' /\ Paired' /\ Members' = Members
      /\ \A o : connected(o)' <=> connected(o)
  BY <1>1, RegistryKept
<1>3. ServerTypeOK /\ Held /\ Counted
  BY DEF ServerInv
<1>4. current \in Sockets /\ arrived[current] = 0
  BY <1>1, <1>3 DEF Held, Counted
<1>5. 0 \in 0..Segments /\ 0 \in 0..Segments - 1
  BY Facts
<1>6. ServerTypeOK'
  BY <1>1, <1>2, <1>3, <1>4, <1>5 DEF ServerTypeOK
<1>7. Held'
  BY <1>1, <1>2, <1>3 DEF Held
<1>8. \A x \in Sockets : /\ x # current => parsed'[x] = parsed[x] /\ sent'[x] = sent[x]
                         /\ parsed'[current] = 0 /\ sent'[current] = 0
  BY <1>1, <1>3, <1>4 DEF ServerTypeOK
<1>9. Counted'
  BY <1>1, <1>3, <1>4, <1>8 DEF Counted
<1> QED  BY <1>2, <1>6, <1>7, <1>9 DEF ServerInv

--------------------------------------------------------------------------------
(* Steps that change the registries.                                           *)

\* The new socket is nobody's yet: no member, not in the batch, without a session.
LEMMA AcceptClientKeeps ==
    ASSUME ServerInv, AcceptClient
    PROVE  ServerInv'
<1>1. PICK s \in Sockets : s \notin ready /\ ~connected(s) /\ Accept(listener, s) /\ current' = s
  BY DEF AcceptClient
<1>2. /\ at = "handle" /\ at' = "accepted" /\ listener \in batch /\ batch' = batch \ {listener}
      /\ pending' = pending - 1
      /\ UNCHANGED <<added, interest, tidy, ready, session, parsed, sent, arrived, garbage, hungup>>
  BY DEF AcceptClient, Visited, svars
<1>3. /\ ServerTypeOK /\ TypeOK /\ DescriptorsTypeOK /\ Owned /\ Registered /\ Paired /\ Held
      /\ Counted
  BY DEF ServerInv, ServerTypeOK, TypeOK
<1>4. PICK d \in Descriptors :
         /\ file[d] = Free /\ file' = [file EXCEPT ![d] = s]
         /\ nonblocking' = [nonblocking EXCEPT ![d] = FALSE]
         /\ descriptor' = [descriptor EXCEPT ![s] = d]
  BY <1>1 DEF Accept, Open, LowestFree
<1>5. /\ pc' = [pc EXCEPT ![s] = "idle"] /\ status' = [status EXCEPT ![s] = "Success"]
      /\ candidates' = [candidates EXCEPT ![s] = 0] /\ UNCHANGED is_blocking
  BY <1>1 DEF Accept, Returns
<1>6. DescriptorsTypeOK'
  <2>1. 0 \in 0..MaxCandidates /\ s \in Objects
    BY DescriptorsAssumption, Facts
  <2> QED  BY <1>3, <1>4, <1>5, <2>1 DEF DescriptorsTypeOK
<1>7. TypeOK' /\ Members' = Members
  BY <1>2, <1>3, <1>6 DEF TypeOK, Members
<1>8. /\ s \in Objects /\ descriptor'[s] = d /\ file'[d] = s
      /\ \A o \in Objects \ {s} : descriptor'[o] = descriptor[o]
      /\ \A e \in Descriptors \ {d} : file'[e] = file[e]
  BY <1>3, <1>4, Facts DEF DescriptorsTypeOK
<1>9. /\ \A o \in Objects : connected(o) <=> descriptor[o] \in Descriptors
      /\ \A o \in Objects : connected(o)' <=> descriptor'[o] \in Descriptors
  <2>1. \A x \in Descriptors \cup {None} : x > -1 <=> x \in Descriptors
    BY Facts DEF None
  <2> QED  BY <1>3, <1>6, <2>1 DEF DescriptorsTypeOK, connected
<1>10. connected(s)' /\ \A o \in Objects \ {s} : connected(o)' <=> connected(o)
  BY <1>8, <1>9
<1>11. s \notin Members /\ Members \subseteq Objects
  BY <1>1, <1>3 DEF Registered, TypeOK
<1>12. \A o \in Objects \ {s} : connected(o) => descriptor[o] # d
  BY <1>3, <1>4, Facts DEF Owned
<1>13. Owned'
  <2>1. ASSUME NEW o \in Objects, connected(o)' PROVE file'[descriptor'[o]] = o
    <3>1. CASE o = s
      BY <1>8, <3>1
    <3>2. CASE o # s
      BY <1>3, <1>8, <1>9, <1>10, <1>12, <2>1, <3>2 DEF Owned
    <3> QED  BY <3>1, <3>2
  <2>2. ASSUME NEW e \in Descriptors, file'[e] \in Objects PROVE descriptor'[file'[e]] = e
    <3>1. CASE e = d
      BY <1>8, <3>1
    <3>2. CASE e # d
      <4>1. file'[e] = file[e] /\ descriptor[file[e]] = e
        BY <1>3, <1>8, <2>2, <3>2 DEF Owned
      <4>2. file[e] # s
        BY <1>1, <1>8, <1>9, <4>1
      <4> QED  BY <1>8, <2>2, <4>1, <4>2
    <3> QED  BY <3>1, <3>2
  <2> QED  BY <2>1, <2>2 DEF Owned
<1>14. Registered'
  BY <1>2, <1>3, <1>7, <1>8, <1>10, <1>11 DEF Registered
<1>15. Paired'
  BY <1>2, <1>3, <1>7 DEF Paired
<1>16. ready \subseteq Objects /\ pending \in 0..MaxPending /\ pending > 0
  BY <1>2, <1>3 DEF ServerTypeOK, Counted
<1>17. Held'
  BY <1>1, <1>2, <1>3, <1>7, <1>8, <1>10, <1>11, <1>16, Facts DEF Held
<1>18. Counted'
  BY <1>2, <1>3 DEF Counted
<1>19. ServerTypeOK'
  <2>1. pending' \in 0..MaxPending
    BY <1>2, <1>16, Facts
  <2> QED  BY <1>1, <1>2, <1>3, <1>7, <2>1 DEF ServerTypeOK
<1> QED  BY <1>13, <1>14, <1>15, <1>17, <1>18, <1>19 DEF ServerInv

LEMMA SetsNonBlockingKeeps ==
    ASSUME ServerInv, SetsNonBlocking
    PROVE  ServerInv'
<1>1. /\ at = "accepted" /\ at' = "adding" /\ connected(current)
      /\ nonblocking' = Flip(descriptor[current], is_blocking[current], FALSE)
      /\ is_blocking' = [is_blocking EXCEPT ![current] = FALSE]
      /\ UNCHANGED <<file, descriptor, pc, candidates, status, added, interest, tidy,
                     ready, batch, current, session, parsed, pending, sent, arrived, garbage,
                     hungup>>
  BY DEF SetsNonBlocking, SetBlocking, svars, peers
<1>2. ServerTypeOK /\ TypeOK /\ DescriptorsTypeOK /\ Owned /\ Registered /\ Paired /\ Held /\ Counted
  BY DEF ServerInv, ServerTypeOK, TypeOK
<1>3. current \in Sockets /\ descriptor[current] \in Descriptors
  BY <1>1, <1>2, Facts, Numbered DEF Held, DescriptorsTypeOK
<1>4. nonblocking' \in [Descriptors -> BOOLEAN] /\ is_blocking' \in [Sockets -> BOOLEAN]
  BY <1>1, <1>2, <1>3 DEF DescriptorsTypeOK, Flip
<1>5. TypeOK' /\ Members' = Members
  BY <1>1, <1>2, <1>4 DEF TypeOK, DescriptorsTypeOK, Members
<1>6. \A o : connected(o)' <=> connected(o)
  BY <1>1 DEF connected
<1>7. Owned' /\ Registered' /\ Paired'
  BY <1>1, <1>2, <1>5, <1>6 DEF Owned, Registered, Paired
<1>8. Held' /\ Counted'
  BY <1>1, <1>2, <1>5, <1>6 DEF Held, Counted
<1>9. ServerTypeOK'
  BY <1>1, <1>2, <1>5 DEF ServerTypeOK
<1> QED  BY <1>7, <1>8, <1>9 DEF ServerInv

LEMMA AddsClientKeeps ==
    ASSUME ServerInv, AddsClient
    PROVE  ServerInv'
<1> DEFINE d == descriptor[current]
<1>1. /\ at = "adding" /\ at' = "handle" /\ current' = Nobody
      /\ current \notin Members /\ interest[d] = Free
      /\ added' = [p \in Members \cup {current} |-> IF p = current THEN d ELSE added[p]]
      /\ interest' = [interest EXCEPT ![d] = current]
      /\ session' = [session EXCEPT ![current] = TRUE]
      /\ parsed' = [parsed EXCEPT ![current] = 0]
      /\ UNCHANGED <<file, nonblocking, descriptor, is_blocking, pc, candidates, status, tidy,
                     ready, batch, pending, sent, arrived, garbage, hungup>>
  BY DEF AddsClient, Add, dvars, peers
<1>2. ServerTypeOK /\ TypeOK /\ DescriptorsTypeOK /\ Owned /\ Registered /\ Paired /\ Held /\ Counted
  BY DEF ServerInv, ServerTypeOK, TypeOK
<1>3. current \in Sockets /\ current \in Objects /\ connected(current) /\ d \in Descriptors
  BY <1>1, <1>2, Facts, Numbered DEF Held, DescriptorsTypeOK
<1>4. /\ Members' = Members \cup {current} /\ added'[current] = d /\ interest'[d] = current
      /\ \A p \in Members : added'[p] = added[p]
      /\ \A e \in Descriptors \ {d} : interest'[e] = interest[e]
  BY <1>1, <1>2, <1>3 DEF Members, TypeOK
<1>5. TypeOK'
  <2>1. added' \in [Members' -> Descriptors]
    BY <1>1, <1>2, <1>3, <1>4 DEF TypeOK
  <2>2. interest' \in [Descriptors -> Objects \cup {Free}]
    BY <1>1, <1>2, <1>3 DEF TypeOK
  <2>3. DescriptorsTypeOK'
    BY <1>1, <1>2 DEF DescriptorsTypeOK
  <2> QED  BY <1>1, <1>2, <1>3, <1>4, <2>1, <2>2, <2>3 DEF TypeOK
<1>6. \A o : connected(o)' <=> connected(o)
  BY <1>1 DEF connected
<1>7. Owned'
  BY <1>1, <1>2, <1>6 DEF Owned
<1>8. Registered'
  <2>1. ASSUME NEW o \in Members'
        PROVE  connected(o) /\ added'[o] = descriptor[o] /\ interest'[descriptor[o]] = o
    <3>1. CASE o = current
      BY <1>3, <1>4, <3>1
    <3>2. CASE o # current
      <4>1. o \in Members /\ connected(o) /\ added[o] = descriptor[o] /\ interest[descriptor[o]] = o
        BY <1>2, <1>4, <2>1, <3>2 DEF Registered
      <4>2. o \in Objects /\ descriptor[o] \in Descriptors
        BY <1>2, <4>1, Numbered DEF TypeOK, DescriptorsTypeOK
      <4>3. descriptor[o] # d
        BY <1>1, <4>1, <4>2, Facts
      <4> QED  BY <1>4, <4>1, <4>2, <4>3
    <3> QED  BY <3>1, <3>2
  <2>2. ASSUME NEW e \in Descriptors, interest'[e] # Free
        PROVE  interest'[e] \in Members' /\ descriptor[interest'[e]] = e
    <3>1. CASE e = d
      BY <1>4, <3>1
    <3>2. CASE e # d
      BY <1>2, <1>4, <2>2, <3>2 DEF Registered
    <3> QED  BY <3>1, <3>2
  <2>3. listener \in Members'
    BY <1>2, <1>4 DEF Registered
  <2> HIDE DEF d
  <2> QED  BY <1>1, <1>6, <2>1, <2>2, <2>3 DEF Registered
<1>9. /\ session' \in [Sockets -> BOOLEAN] /\ session'[current] = TRUE
      /\ \A s \in Sockets \ {current} : session'[s] = session[s]
  BY <1>1, <1>2, <1>3 DEF ServerTypeOK
<1>10. Paired'
  BY <1>2, <1>3, <1>4, <1>9 DEF Paired
<1>11. Held'
  BY <1>1, <1>2, <1>3, <1>4, <1>6 DEF Held
<1>12. 0 \in 0..Segments - 1
  BY Facts
<1>13. parsed' \in [Sockets -> 0..Segments - 1]
  BY <1>1, <1>2, <1>12 DEF ServerTypeOK
<1>14. Counted'
  <2>1. \A s \in Sockets : parsed'[s] = IF s = current THEN 0 ELSE parsed[s]
    BY <1>1, <1>2 DEF ServerTypeOK
  <2>2. \A s \in Sockets : parsed[s] \in Nat /\ arrived[s] \in Nat /\ sent[s] \in Nat
    BY <1>2, Facts DEF ServerTypeOK
  <2> QED  BY <1>1, <1>2, <2>1, <2>2 DEF Counted
<1>15. ServerTypeOK'
  BY <1>1, <1>2, <1>5, <1>9, <1>13 DEF ServerTypeOK
<1> QED  BY <1>7, <1>8, <1>10, <1>11, <1>14, <1>15 DEF ServerInv

\* The client is off both registries, and the batch keeps it until Destroys.
LEMMA DropsClientKeeps ==
    ASSUME ServerInv, NEW s \in Sockets, DropsClient(s)
    PROVE  ServerInv'
<1>1. /\ at = "handle" /\ s \in batch /\ batch' = batch \ {s}
      /\ s \in Members /\ interest' = [interest EXCEPT ![added[s]] = Free]
      /\ added' = [p \in Members \ {s} |-> added[p]]
      /\ session' = [session EXCEPT ![s] = FALSE]
      /\ UNCHANGED <<file, nonblocking, descriptor, is_blocking, pc, candidates, status, tidy,
                     at, ready, current, parsed, pending, sent, arrived, garbage, hungup>>
  BY DEF DropsClient, Visited, RemovesAndDeletes, Remove, Deleted, dvars, peers
<1>2. ServerTypeOK /\ TypeOK /\ DescriptorsTypeOK /\ Owned /\ Registered /\ Paired /\ Held /\ Counted
  BY DEF ServerInv, ServerTypeOK, TypeOK
<1>3. /\ Members' = Members \ {s} /\ \A p \in Members \ {s} : added'[p] = added[p]
      /\ interest'[descriptor[s]] = Free /\ descriptor[s] \in Descriptors
      /\ \A e \in Descriptors \ {descriptor[s]} : interest'[e] = interest[e]
  <2>1. added[s] = descriptor[s] /\ added[s] \in Descriptors
    BY <1>1, <1>2 DEF Registered, TypeOK
  <2> QED  BY <1>1, <1>2, <2>1 DEF Members, TypeOK
<1>4. TypeOK'
  <2>1. added' \in [Members' -> Descriptors] /\ interest' \in [Descriptors -> Objects \cup {Free}]
    BY <1>1, <1>2, <1>3 DEF TypeOK
  <2>2. DescriptorsTypeOK'
    BY <1>1, <1>2 DEF DescriptorsTypeOK
  <2> QED  BY <1>1, <1>2, <1>3, <2>1, <2>2 DEF TypeOK
<1>5. \A o : connected(o)' <=> connected(o)
  BY <1>1 DEF connected
<1>6. Owned'
  BY <1>1, <1>2, <1>5 DEF Owned
<1>7. Registered'
  <2>1. ASSUME NEW o \in Members'
        PROVE  connected(o) /\ added'[o] = descriptor[o] /\ interest'[descriptor[o]] = o
    <3>1. o \in Members /\ o # s /\ connected(o) /\ added[o] = descriptor[o]
          /\ interest[descriptor[o]] = o
      BY <1>2, <1>3, <2>1 DEF Registered
    <3>2. descriptor[o] \in Descriptors /\ descriptor[o] # descriptor[s]
      <4>1. interest[descriptor[s]] = s
        BY <1>1, <1>2 DEF Registered
      <4> QED  BY <1>2, <3>1, <4>1, Numbered DEF TypeOK, DescriptorsTypeOK
    <3> QED  BY <1>3, <3>1, <3>2
  <2>2. ASSUME NEW e \in Descriptors, interest'[e] # Free
        PROVE  interest'[e] \in Members' /\ descriptor[interest'[e]] = e
    <3>1. e # descriptor[s] /\ interest'[e] = interest[e]
      BY <1>3, <2>2
    <3> QED  BY <1>2, <1>3, <2>2, <3>1 DEF Registered
  <2>3. listener \in Members'
    BY <1>2, <1>3, Facts DEF Registered
  <2> QED  BY <1>1, <1>5, <2>1, <2>2, <2>3 DEF Registered
<1>8. /\ session' \in [Sockets -> BOOLEAN] /\ session'[s] = FALSE
      /\ \A x \in Sockets \ {s} : session'[x] = session[x]
  BY <1>1, <1>2 DEF ServerTypeOK
<1>9. Paired'
  BY <1>2, <1>3, <1>8 DEF Paired
<1>10. Held'
  <2>1. s \in ready
    BY <1>1, <1>2 DEF ServerTypeOK
  <2> QED  BY <1>1, <1>2, <1>3, <1>5, <2>1 DEF Held
<1>11. Counted' /\ ServerTypeOK'
  BY <1>1, <1>2, <1>4, <1>8 DEF Counted, ServerTypeOK
<1> QED  BY <1>6, <1>7, <1>9, <1>10, <1>11 DEF ServerInv

\* A socket that the selector has let go of is closed: nothing else has its number.
LEMMA DestroysKeeps ==
    ASSUME ServerInv, NEW s \in Sockets, Destroys(s)
    PROVE  ServerInv'
<1> DEFINE d == descriptor[s]
<1>1. /\ at = "handle" /\ batch = {} /\ s \in ready /\ s \notin Members
      /\ file' = [file EXCEPT ![d] = Free] /\ nonblocking' = [nonblocking EXCEPT ![d] = FALSE]
      /\ descriptor' = [descriptor EXCEPT ![s] = None]
      /\ is_blocking' = [is_blocking EXCEPT ![s] = TRUE]
      /\ status' = [status EXCEPT ![s] = "Unknown"]
      /\ interest' = Forget /\ ready' = ready \ {s}
      /\ sent' = [sent EXCEPT ![s] = 0] /\ arrived' = [arrived EXCEPT ![s] = 0]
      /\ garbage' = [garbage EXCEPT ![s] = FALSE] /\ hungup' = [hungup EXCEPT ![s] = FALSE]
      /\ parsed' = [parsed EXCEPT ![s] = 0]
      /\ UNCHANGED <<pc, candidates, added, tidy, at, batch, current, session, pending>>
  BY DEF Destroys, CloseFile
<1>2. ServerTypeOK /\ TypeOK /\ DescriptorsTypeOK /\ Owned /\ Registered /\ Paired /\ Held /\ Counted
  BY DEF ServerInv, ServerTypeOK, TypeOK
<1>3. s \in Objects /\ connected(s) /\ d \in Descriptors /\ file[d] = s
  BY <1>1, <1>2, Facts, Numbered DEF Held, Owned, DescriptorsTypeOK
<1>4. DescriptorsTypeOK'
  BY <1>1, <1>2, <1>3 DEF DescriptorsTypeOK
<1>5. /\ file'[d] = Free /\ \A e \in Descriptors \ {d} : file'[e] = file[e]
      /\ descriptor'[s] = None /\ \A o \in Objects \ {s} : descriptor'[o] = descriptor[o]
  BY <1>1, <1>2, <1>3 DEF DescriptorsTypeOK
<1>6. ~connected(s)' /\ \A o \in Objects \ {s} : connected(o)' <=> connected(o)
  BY <1>5 DEF connected, None
<1>7. \A o \in Members : /\ o \in Objects \ {s} /\ connected(o) /\ descriptor[o] \in Descriptors
                         /\ file[descriptor[o]] = o /\ descriptor[o] # d
  BY <1>1, <1>2, <1>3, Numbered DEF Registered, Owned, TypeOK, DescriptorsTypeOK
<1> HIDE DEF d
<1>8. \A e \in Descriptors : interest'[e] = interest[e]
  <2> SUFFICES ASSUME NEW e \in Descriptors PROVE interest'[e] = interest[e]
    OBVIOUS
  <2>1. interest'[e] = IF file'[e] = Free THEN Free ELSE interest[e]
    BY <1>1 DEF Forget
  <2>2. interest[e] # Free => file[e] = interest[e] /\ e # d /\ interest[e] # Free
    <3>1. interest[e] # Free => interest[e] \in Members /\ descriptor[interest[e]] = e
      BY <1>2 DEF Registered
    <3> QED  BY <1>7, <3>1
  <2> QED  BY <1>5, <2>1, <2>2
<1>9. interest' \in [Descriptors -> Objects \cup {Free}]
  BY <1>1, <1>2 DEF TypeOK, Forget
<1>10. TypeOK' /\ Members' = Members
  BY <1>1, <1>2, <1>4, <1>9 DEF TypeOK, Members
<1>11. Owned'
  <2>1. ASSUME NEW o \in Objects, connected(o)' PROVE file'[descriptor'[o]] = o
    <3>1. o # s /\ connected(o) /\ file[descriptor[o]] = o /\ descriptor[o] \in Descriptors
      BY <1>2, <1>6, <2>1, Numbered DEF Owned, DescriptorsTypeOK
    <3> QED  BY <1>3, <1>5, <3>1
  <2>2. ASSUME NEW e \in Descriptors, file'[e] \in Objects PROVE descriptor'[file'[e]] = e
    <3>1. e # d /\ file'[e] = file[e]
      BY <1>5, <2>2, Facts
    <3>2. descriptor[file[e]] = e
      BY <1>2, <2>2, <3>1 DEF Owned
    <3>3. file[e] # s
      BY <3>1, <3>2 DEF d
    <3> QED  BY <1>5, <2>2, <3>1, <3>2, <3>3
  <2> QED  BY <2>1, <2>2 DEF Owned
<1>12. Registered'
  <2>1. \A o \in Members : connected(o)' /\ added'[o] = descriptor'[o] /\ interest'[descriptor'[o]] = o
    BY <1>1, <1>2, <1>5, <1>6, <1>7, <1>8 DEF Registered
  <2>2. ASSUME NEW e \in Descriptors, interest'[e] # Free
        PROVE  interest'[e] \in Members /\ descriptor'[interest'[e]] = e
    BY <1>2, <1>5, <1>7, <1>8, <2>2 DEF Registered
  <2> QED  BY <1>2, <1>10, <2>1, <2>2 DEF Registered
<1>13. Paired'
  BY <1>1, <1>2, <1>10 DEF Paired
<1>14. ready \subseteq Objects
  BY <1>2 DEF ServerTypeOK
<1>15. Held'
  BY <1>1, <1>2, <1>6, <1>10, <1>14, Facts DEF Held
<1>16. 0 \in 0..Segments /\ 0 \in 0..Segments - 1
  BY Facts
<1>17. ServerTypeOK'
  BY <1>1, <1>2, <1>10, <1>16 DEF ServerTypeOK
<1>18. Counted'
  <2>1. \A x \in Sockets :
           /\ x # s => parsed'[x] = parsed[x] /\ arrived'[x] = arrived[x] /\ sent'[x] = sent[x]
           /\ parsed'[s] = 0 /\ arrived'[s] = 0 /\ sent'[s] = 0
    BY <1>1, <1>2 DEF ServerTypeOK
  <2> QED  BY <1>1, <1>2, <2>1 DEF Counted
<1> QED  BY <1>11, <1>12, <1>13, <1>15, <1>17, <1>18 DEF ServerInv

--------------------------------------------------------------------------------
LEMMA ServerStep == ServerInv /\ [ServerNext]_evars => ServerInv'
<1> SUFFICES ASSUME ServerInv, [ServerNext]_evars PROVE ServerInv'
  OBVIOUS
<1>1. CASE UNCHANGED evars
  <2>1. UNCHANGED <<vars, session, at, ready, batch, current, parsed, pending, sent, arrived,
                    garbage, hungup>>
    BY <1>1 DEF evars, loop, peers
  <2>2. /\ TypeOK' /\ Owned' /\ Registered' /\ Paired' /\ Members' = Members
        /\ \A o : connected(o)' <=> connected(o)
    BY <2>1, RegistryKept
  <2> QED  BY <2>1, <2>2 DEF ServerInv, ServerTypeOK, Held, Counted
<1>2. CASE Peers
  BY <1>2, PeersKeep
<1>3. CASE Server
  <2>1. ASSUME NEW s \in Sockets, HandlesClient(s) PROVE ServerInv'
    BY <2>1, ReceivesKeep, DropsClientKeeps, DestroysKeeps DEF HandlesClient
  <2> QED  BY <1>3, <2>1, WaitKeeps, AcceptClientKeeps, AcceptFailsKeeps, SetsNonBlockingKeeps,
              AddsClientKeeps, RespondsKeeps, EndOfBatchKeeps DEF Server
<1> QED  BY <1>1, <1>2, <1>3 DEF ServerNext

LEMMA ServerInvariant == ServerSpec => []ServerInv
  BY ServerStarts, ServerStep, PTL DEF ServerSpec

\* The server's variables keep their types; in particular no part of a request is counted
\* twice by receive and parse, between any number of events (ConcurrentHTTPServer.cpp:65).
THEOREM ServerTypes == ServerSpec => []ServerTypeOK
<1>1. ServerInv => ServerTypeOK
  BY DEF ServerInv
<1> QED  BY ServerInvariant, <1>1, PTL

\* No event of a batch reaches a deleted session, and between batches every open file is a
\* member's with a session, whatever is accepted, dropped and destroyed within one batch
\* (ConcurrentHTTPServer.cpp:85).
THEOREM SessionsAlwaysKept == ServerSpec => []SessionsKept
<1>1. ServerInv => SessionsKept
  <2> SUFFICES ASSUME ServerInv PROVE SessionsKept
    OBVIOUS
  <2>1. SessionsLive
    BY DEF ServerInv, SessionsLive, Held, Paired
  <2>2. NothingLeaks
    <3>1. at = "wait" => \A s \in Sockets : (connected(s) <=> s \in Members) /\ (session[s] <=> s \in Members)
      BY Facts DEF ServerInv, Held, Paired, Registered
    <3>2. \A d \in Descriptors : file[d] \notin {Free, Stdin} => descriptor[file[d]] = d
      BY DEF ServerInv, ServerTypeOK, TypeOK, DescriptorsTypeOK, Owned
    <3> QED  BY <3>1, <3>2 DEF NothingLeaks
  <2> QED  BY <2>1, <2>2 DEF SessionsKept
<1> QED  BY ServerInvariant, <1>1, PTL
================================================================================
