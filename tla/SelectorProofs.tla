----------------------------- MODULE SelectorProofs -----------------------------
(* Proofs about Descriptors and Selector for every value of the constants. *)
EXTENDS Selector, TLAPS

\* A step of one object's thread, without what the kernel does to the interest list.
Calls(o) ==
    \/ LookupFails(o) \/ LookupSucceeds(o)
    \/ SocketFails(o) \/ SocketOpens(o) \/ OutOfCandidates(o)
    \/ o \in Sockets /\ SocketConnects(o)
    \/ o \in Listeners /\ ListenerListens(o)
    \/ o \in Sockets /\ \E l \in Listeners : Accept(l, o)
    \/ close_socket(o)

Mode(o) == o \in Sockets /\ \E should \in BOOLEAN : SetBlocking(o, should)

\* An object whose address is being tried has a file and an address to try.
Trying ==
    \A o \in Objects : pc[o] \in {"opened", "connecting"} =>
        descriptor[o] # None /\ candidates[o] # 0

\* Applications that discard a failed listener may close the file of another object.
TableInv == ~Discards /\ DescriptorsTypeOK /\ Trying /\ OwnDescriptor

LEMMA ObjectsFacts ==
    /\ Sockets \subseteq Objects /\ Listeners \subseteq Objects
    /\ \A o \in Objects : o # Free /\ o # Stdin /\ (o \notin Sockets <=> o \in Listeners)
    /\ None \notin Descriptors /\ Descriptors \subseteq Nat
  BY DescriptorsAssumption, ObjectsAssumption DEF Objects, None, Descriptors

LEMMA HoldsFile ==
    ASSUME TableInv, NEW o \in Objects, Holds(o)
    PROVE  descriptor[o] \in Descriptors /\ file[descriptor[o]] = o
  BY ObjectsFacts DEF TableInv, DescriptorsTypeOK, OwnDescriptor, Holds, connected, None

LEMMA OpenedHolds ==
    ASSUME TableInv, NEW o \in Objects, pc[o] = "opened"
    PROVE  Holds(o)
<1>1. descriptor[o] \in Descriptors
  BY DEF TableInv, DescriptorsTypeOK, Trying
<1> QED BY <1>1, ObjectsFacts DEF Holds, connected, Descriptors

\* What a step of o's thread leaves alone: the other objects' members, and every file
\* but one, which o opens or which o has.
Alone(o) ==
    /\ \A p \in Objects \ {o} :
          /\ descriptor'[p] = descriptor[p] /\ pc'[p] = pc[p] /\ status'[p] = status[p]
          /\ candidates'[p] = candidates[p]
          /\ p \in Sockets => is_blocking'[p] = is_blocking[p]
    /\ \A d \in Descriptors :
          /\ file'[d] # file[d] =>
                (file[d] = Free /\ file'[d] = o) \/ (file[d] = o /\ file'[d] = Free)
          /\ file[d] \in Objects \ {o} => nonblocking'[d] = nonblocking[d]

--------------------------------------------------------------------------------
(* One lemma for each kind of step: types, and what it leaves alone.           *)

LEMMA LookupStep ==
    ASSUME TableInv, NEW o \in Objects,
           LookupFails(o) \/ LookupSucceeds(o) \/ OutOfCandidates(o)
    PROVE  DescriptorsTypeOK' /\ Trying' /\ Alone(o)
<1>1. DescriptorsTypeOK'
  BY DescriptorsAssumption DEF TableInv, DescriptorsTypeOK, LookupFails, LookupSucceeds, OutOfCandidates, Returns,
     table, members
<1>2. Trying'
  BY DEF TableInv, DescriptorsTypeOK, Trying, LookupFails, LookupSucceeds, OutOfCandidates,
     Returns, table, members
<1>3. Alone(o)
  BY DEF TableInv, DescriptorsTypeOK, Alone, LookupFails, LookupSucceeds, OutOfCandidates,
     Returns, table, members
<1> QED BY <1>1, <1>2, <1>3

LEMMA NextCandidateType ==
    ASSUME TableInv, NEW o \in Objects, candidates[o] # 0, NextCandidate(o)
    PROVE  /\ pc' \in [Objects -> {"idle", "trying", "opened", "connecting"}]
           /\ candidates' \in [Objects -> 0..MaxCandidates]
           /\ pc'[o] = "trying"
           /\ \A p \in Objects \ {o} : pc'[p] = pc[p] /\ candidates'[p] = candidates[p]
<1>1. candidates[o] \in 0..MaxCandidates /\ MaxCandidates \in Nat
  BY DescriptorsAssumption DEF TableInv, DescriptorsTypeOK
<1>2. candidates[o] - 1 \in 0..MaxCandidates
  BY <1>1
<1> QED BY <1>2 DEF TableInv, DescriptorsTypeOK, NextCandidate

Results == {"Unknown", "Success", "Error", "ListenFailed"}

LEMMA ReturnsType ==
    ASSUME TableInv, NEW o \in Objects, NEW result \in Results, Returns(o, result)
    PROVE  /\ pc' \in [Objects -> {"idle", "trying", "opened", "connecting"}]
           /\ candidates' \in [Objects -> 0..MaxCandidates]
           /\ status' \in [Objects -> Results]
           /\ pc'[o] = "idle" /\ status'[o] = result
           /\ \A p \in Objects \ {o} :
                 pc'[p] = pc[p] /\ candidates'[p] = candidates[p] /\ status'[p] = status[p]
<1>1. 0 \in 0..MaxCandidates
  BY DescriptorsAssumption
<1> QED BY <1>1 DEF TableInv, DescriptorsTypeOK, Returns, Results

LEMMA SocketFailsStep ==
    ASSUME TableInv, NEW o \in Objects, SocketFails(o)
    PROVE  DescriptorsTypeOK' /\ Trying' /\ Alone(o)
<1>1. NextCandidate(o) /\ candidates[o] # 0
  BY DEF SocketFails, TableInv, DescriptorsTypeOK
<1>2. DescriptorsTypeOK'
  BY <1>1, NextCandidateType DEF TableInv, DescriptorsTypeOK, SocketFails, table
<1>3. Trying'
  BY <1>1, NextCandidateType DEF TableInv, DescriptorsTypeOK, Trying, SocketFails
<1>4. Alone(o)
  BY <1>1, NextCandidateType DEF TableInv, DescriptorsTypeOK, Alone, SocketFails, table
<1> QED BY <1>2, <1>3, <1>4

LEMMA OpenType ==
    ASSUME TableInv, NEW o \in Objects, NEW d \in Descriptors, Open(o, d)
    PROVE  /\ file' \in [Descriptors -> Objects \cup {Free, Stdin}]
           /\ nonblocking' \in [Descriptors -> BOOLEAN]
           /\ descriptor' \in [Objects -> Descriptors \cup {None}]
           /\ file[d] = Free /\ file'[d] = o /\ descriptor'[o] = d /\ ~nonblocking'[d]
           /\ \A p \in Objects \ {o} : descriptor'[p] = descriptor[p]
           /\ \A e \in Descriptors \ {d} :
                 file'[e] = file[e] /\ nonblocking'[e] = nonblocking[e]
  BY DEF TableInv, DescriptorsTypeOK, Open, LowestFree

LEMMA OpenAlone ==
    ASSUME TableInv, NEW o \in Objects, NEW d \in Descriptors, Open(o, d)
    PROVE  \A e \in Descriptors :
              /\ file'[e] # file[e] => file[e] = Free /\ file'[e] = o
              /\ file[e] \in Objects \ {o} => nonblocking'[e] = nonblocking[e]
<1> SUFFICES ASSUME NEW e \in Descriptors
             PROVE  /\ file'[e] # file[e] => file[e] = Free /\ file'[e] = o
                    /\ file[e] \in Objects \ {o} => nonblocking'[e] = nonblocking[e]
  OBVIOUS
<1>1. CASE e = d
  BY <1>1, OpenType, ObjectsFacts
<1>2. CASE e # d
  BY <1>2, OpenType
<1> QED BY <1>1, <1>2

LEMMA SocketOpensStep ==
    ASSUME TableInv, NEW o \in Objects, SocketOpens(o)
    PROVE  DescriptorsTypeOK' /\ Trying' /\ Alone(o)
<1>1. PICK d \in Descriptors :
         /\ Open(o, d)
         /\ \/ pc' = [pc EXCEPT ![o] = "opened"] /\ UNCHANGED candidates
            \/ NextCandidate(o)
  BY DEF SocketOpens
<1>2. candidates[o] # 0 /\ UNCHANGED <<is_blocking, status>>
  BY DEF SocketOpens, TableInv, DescriptorsTypeOK
<1>3. /\ pc' \in [Objects -> {"idle", "trying", "opened", "connecting"}]
      /\ candidates' \in [Objects -> 0..MaxCandidates]
      /\ \/ pc'[o] = "trying"
         \/ pc'[o] = "opened" /\ candidates'[o] # 0
      /\ \A p \in Objects \ {o} : pc'[p] = pc[p] /\ candidates'[p] = candidates[p]
  <2>1. CASE NextCandidate(o)
    BY <1>2, <2>1, NextCandidateType
  <2>2. CASE pc' = [pc EXCEPT ![o] = "opened"] /\ UNCHANGED candidates
    BY <1>2, <2>2 DEF TableInv, DescriptorsTypeOK
  <2> QED BY <1>1, <2>1, <2>2
<1>4. DescriptorsTypeOK'
  BY <1>1, <1>2, <1>3, OpenType DEF TableInv, DescriptorsTypeOK
<1>5. Trying'
  BY <1>1, <1>3, OpenType, ObjectsFacts DEF TableInv, Trying
<1>6. Alone(o)
  <2>1. \A p \in Objects \ {o} : descriptor'[p] = descriptor[p]
    BY <1>1, OpenType
  <2>2. \A e \in Descriptors :
           /\ file'[e] # file[e] => file[e] = Free /\ file'[e] = o
           /\ file[e] \in Objects \ {o} => nonblocking'[e] = nonblocking[e]
    BY <1>1, OpenAlone
  <2> QED BY <1>2, <1>3, <2>1, <2>2 DEF Alone
<1> QED BY <1>4, <1>5, <1>6

LEMMA AcceptStep ==
    ASSUME TableInv, NEW o \in Sockets, NEW l \in Listeners, Accept(l, o)
    PROVE  DescriptorsTypeOK' /\ Trying' /\ Alone(o)
<1>1. PICK d \in Descriptors : Open(o, d)
  BY DEF Accept
<1>2. o \in Objects
  BY ObjectsFacts
<1>a. Returns(o, "Success") /\ UNCHANGED is_blocking /\ "Success" \in Results
  BY DEF Accept, Results
<1>3. DescriptorsTypeOK'
  BY <1>1, <1>2, <1>a, OpenType, ReturnsType DEF TableInv, DescriptorsTypeOK, Results
<1>4. Trying'
  BY <1>1, <1>2, <1>a, OpenType, ReturnsType DEF TableInv, Trying
<1>5. Alone(o)
  <2>1. \A p \in Objects \ {o} : descriptor'[p] = descriptor[p]
    BY <1>1, <1>2, OpenType
  <2>2. \A e \in Descriptors :
           /\ file'[e] # file[e] => file[e] = Free /\ file'[e] = o
           /\ file[e] \in Objects \ {o} => nonblocking'[e] = nonblocking[e]
    BY <1>1, <1>2, OpenAlone
  <2> QED BY <1>2, <1>a, <2>1, <2>2, ReturnsType DEF Alone
<1> QED BY <1>3, <1>4, <1>5

\* Changing the flag of the file an object holds.
LEMMA FlipType ==
    ASSUME TableInv, NEW o \in Objects, Holds(o), NEW already \in BOOLEAN, NEW should \in BOOLEAN
    PROVE  /\ Flip(descriptor[o], already, should) \in [Descriptors -> BOOLEAN]
           /\ \A d \in Descriptors : file[d] # o =>
                 Flip(descriptor[o], already, should)[d] = nonblocking[d]
           /\ Flip(descriptor[o], already, should)[descriptor[o]] =
                 (IF already = should THEN nonblocking[descriptor[o]]
                  ELSE ~nonblocking[descriptor[o]])
<1>1. descriptor[o] \in Descriptors /\ file[descriptor[o]] = o
  BY HoldsFile
<1>2. nonblocking \in [Descriptors -> BOOLEAN]
  BY DEF TableInv, DescriptorsTypeOK
<1> QED BY <1>1, <1>2 DEF Flip

LEMMA SocketHolds ==
    ASSUME TableInv, NEW s \in Sockets
    PROVE  Holds(s) <=> descriptor[s] # None
<1>1. descriptor[s] \in Descriptors \cup {None}
  BY ObjectsFacts DEF TableInv, DescriptorsTypeOK
<1> QED BY <1>1, ObjectsFacts DEF Holds, connected, None, Descriptors

LEMMA ConnectStep ==
    ASSUME TableInv, NEW s \in Sockets, SocketConnects(s)
    PROVE  DescriptorsTypeOK' /\ Trying' /\ Alone(s)
<1>1. s \in Objects /\ pc[s] \in {"opened", "connecting"}
  BY ObjectsFacts DEF SocketConnects, StartsConnecting, AddressFails, Connects, StaysNonBlocking
<1>2. Holds(s) /\ descriptor[s] # None /\ candidates[s] # 0
  BY <1>1, SocketHolds DEF TableInv, Trying
<1>3. CASE StartsConnecting(s)
  <2>1. /\ nonblocking' \in [Descriptors -> BOOLEAN]
        /\ \A d \in Descriptors : file[d] # s => nonblocking'[d] = nonblocking[d]
    BY <1>1, <1>2, <1>3, FlipType DEF StartsConnecting
  <2>2. DescriptorsTypeOK'
    BY <1>3, <2>1 DEF TableInv, DescriptorsTypeOK, StartsConnecting, members
  <2>3. Trying'
    BY <1>1, <1>2, <1>3 DEF TableInv, DescriptorsTypeOK, Trying, StartsConnecting, members
  <2>4. Alone(s)
    BY <1>1, <1>3, <2>1 DEF TableInv, DescriptorsTypeOK, Alone, StartsConnecting, members
  <2> QED BY <2>2, <2>3, <2>4
<1>4. CASE AddressFails(s)
  <2>1. DescriptorsTypeOK'
    BY <1>1, <1>2, <1>4, NextCandidateType
       DEF TableInv, DescriptorsTypeOK, AddressFails, table, members
  <2>2. Trying' /\ Alone(s)
    BY <1>1, <1>2, <1>4, NextCandidateType
       DEF TableInv, Trying, Alone, AddressFails, table, members
  <2> QED BY <2>1, <2>2
<1>5. CASE Connects(s)
  <2>1. /\ nonblocking' \in [Descriptors -> BOOLEAN]
        /\ \A d \in Descriptors : file[d] # s => nonblocking'[d] = nonblocking[d]
    BY <1>1, <1>2, <1>5, FlipType DEF Connects
  <2>2. DescriptorsTypeOK'
    <3>1. Returns(s, "Success") /\ UNCHANGED <<file, descriptor, is_blocking>>
      BY <1>5 DEF Connects, members
    <3> QED BY <1>1, <2>1, <3>1, ReturnsType DEF TableInv, DescriptorsTypeOK, Results
  <2>3. Trying' /\ Alone(s)
    BY <1>1, <1>5, <2>1
       DEF TableInv, DescriptorsTypeOK, Trying, Alone, Connects, Returns, members
  <2> QED BY <2>2, <2>3
<1>6. CASE StaysNonBlocking(s)
  <2>1. DescriptorsTypeOK'
    <3>1. Returns(s, "Error") /\ UNCHANGED <<file, nonblocking, descriptor, is_blocking>>
      BY <1>6 DEF StaysNonBlocking, table, members
    <3> QED BY <1>1, <3>1, ReturnsType DEF TableInv, DescriptorsTypeOK, Results
  <2>2. Trying' /\ Alone(s)
    BY <1>1, <1>6
       DEF TableInv, DescriptorsTypeOK, Trying, Alone, StaysNonBlocking, Returns, table, members
  <2> QED BY <2>1, <2>2
<1> QED BY <1>3, <1>4, <1>5, <1>6 DEF SocketConnects

\* Closing the file an object holds.
LEMMA CloseFileType ==
    ASSUME TableInv, NEW o \in Objects, Holds(o), CloseFile(descriptor[o])
    PROVE  /\ file' \in [Descriptors -> Objects \cup {Free, Stdin}]
           /\ nonblocking' \in [Descriptors -> BOOLEAN]
           /\ \A d \in Descriptors :
                 /\ d = descriptor[o] => file[d] = o /\ file'[d] = Free
                 /\ d # descriptor[o] => file'[d] = file[d] /\ nonblocking'[d] = nonblocking[d]
<1>1. descriptor[o] \in Descriptors /\ file[descriptor[o]] = o
  BY HoldsFile
<1> QED BY <1>1 DEF TableInv, DescriptorsTypeOK, CloseFile

LEMMA ListenStep ==
    ASSUME TableInv, NEW l \in Listeners, ListenerListens(l)
    PROVE  DescriptorsTypeOK' /\ Trying' /\ Alone(l)
<1>1. l \in Objects /\ pc[l] = "opened"
  BY ObjectsFacts DEF ListenerListens, OptionFails, BindFails, Binds
<1>2. Holds(l) /\ candidates[l] # 0
  BY <1>1, OpenedHolds DEF TableInv, Trying
<1>3. CASE OptionFails(l)
  <2>1. DescriptorsTypeOK'
    BY <1>1, <1>2, <1>3, NextCandidateType
       DEF TableInv, DescriptorsTypeOK, OptionFails, table, members
  <2>2. Trying' /\ Alone(l)
    BY <1>1, <1>2, <1>3, NextCandidateType
       DEF TableInv, Trying, Alone, OptionFails, table, members
  <2> QED BY <2>1, <2>2
<1>4. CASE BindFails(l)
  <2>1. DescriptorsTypeOK'
    BY <1>1, <1>2, <1>4, NextCandidateType, CloseFileType
       DEF TableInv, DescriptorsTypeOK, BindFails, members
  <2>2. Trying'
    BY <1>1, <1>2, <1>4, NextCandidateType DEF TableInv, Trying, BindFails, members
  <2>3. Alone(l)
    BY <1>1, <1>2, <1>4, NextCandidateType, CloseFileType DEF Alone, BindFails, members
  <2> QED BY <2>1, <2>2, <2>3
<1>5. CASE Binds(l)
  <2>1. DescriptorsTypeOK'
    <3>1. PICK result \in Results : Returns(l, result)
      BY <1>5 DEF Binds, Results
    <3>2. UNCHANGED <<file, nonblocking, descriptor, is_blocking>>
      BY <1>5 DEF Binds, table, members
    <3> QED BY <1>1, <3>1, <3>2, ReturnsType DEF TableInv, DescriptorsTypeOK, Results
  <2>2. Trying' /\ Alone(l)
    BY <1>1, <1>5
       DEF TableInv, DescriptorsTypeOK, Trying, Alone, Binds, Returns, table, members
  <2> QED BY <2>1, <2>2
<1> QED BY <1>3, <1>4, <1>5 DEF ListenerListens

LEMMA CloseStep ==
    ASSUME TableInv, NEW o \in Objects, close_socket(o)
    PROVE  DescriptorsTypeOK' /\ Trying' /\ Alone(o)
<1>1. Holds(o) /\ CloseFile(descriptor[o]) /\ pc[o] = "idle"
  BY DEF close_socket, TableInv
<1>2. DescriptorsTypeOK'
  BY <1>1, CloseFileType DEF TableInv, DescriptorsTypeOK, close_socket
<1>3. Trying'
  BY <1>1 DEF TableInv, DescriptorsTypeOK, Trying, close_socket
<1>4. Alone(o)
  BY <1>1, CloseFileType DEF TableInv, DescriptorsTypeOK, Alone, close_socket
<1> QED BY <1>2, <1>3, <1>4

LEMMA ModeStep ==
    ASSUME TableInv, NEW s \in Sockets, Mode(s)
    PROVE  DescriptorsTypeOK' /\ Trying' /\ Alone(s)
<1>1. PICK should \in BOOLEAN : SetBlocking(s, should)
  BY DEF Mode
<1>2. s \in Objects /\ is_blocking[s] \in BOOLEAN
  BY ObjectsFacts DEF TableInv, DescriptorsTypeOK
<1>3. Holds(s)
  BY <1>1, ObjectsFacts DEF SetBlocking, Holds
<1>4. /\ nonblocking' \in [Descriptors -> BOOLEAN]
      /\ \A d \in Descriptors : file[d] # s => nonblocking'[d] = nonblocking[d]
  BY <1>1, <1>2, <1>3, FlipType DEF SetBlocking
<1>5. DescriptorsTypeOK' /\ Trying'
  BY <1>1, <1>4 DEF TableInv, DescriptorsTypeOK, Trying, SetBlocking
<1>6. Alone(s)
  BY <1>1, <1>4 DEF TableInv, DescriptorsTypeOK, Alone, SetBlocking
<1> QED BY <1>5, <1>6

LEMMA CallsStep ==
    ASSUME TableInv, NEW o \in Objects, Calls(o) \/ Mode(o)
    PROVE  DescriptorsTypeOK' /\ Trying' /\ Alone(o)
<1>1. CASE LookupFails(o) \/ LookupSucceeds(o) \/ OutOfCandidates(o)
  BY <1>1, LookupStep
<1>2. CASE SocketFails(o)
  BY <1>2, SocketFailsStep
<1>3. CASE SocketOpens(o)
  BY <1>3, SocketOpensStep
<1>4. CASE o \in Sockets /\ SocketConnects(o)
  BY <1>4, ConnectStep
<1>5. CASE o \in Listeners /\ ListenerListens(o)
  BY <1>5, ListenStep
<1>6. CASE o \in Sockets /\ \E l \in Listeners : Accept(l, o)
  BY <1>6, AcceptStep
<1>7. CASE close_socket(o)
  BY <1>7, CloseStep
<1>8. CASE Mode(o)
  BY <1>8, ModeStep DEF Mode
<1> QED BY <1>1, <1>2, <1>3, <1>4, <1>5, <1>6, <1>7, <1>8 DEF Calls

--------------------------------------------------------------------------------
(* Objects use only what is theirs.                                            *)

\* A step of one object's thread leaves the other objects what they hold.
LEMMA OthersKeep ==
    ASSUME TableInv, NEW o \in Objects, Alone(o), NEW p \in Objects \ {o}
    PROVE  /\ Holds(p)' <=> Holds(p)
           /\ Holds(p) => /\ file'[descriptor'[p]] = p
                          /\ nonblocking'[descriptor'[p]] = nonblocking[descriptor[p]]
<1>1. Holds(p)' <=> Holds(p)
  BY DEF Alone, Holds, connected
<1>2. ASSUME Holds(p)
      PROVE  /\ file'[descriptor'[p]] = p
             /\ nonblocking'[descriptor'[p]] = nonblocking[descriptor[p]]
  <2>1. descriptor[p] \in Descriptors /\ file[descriptor[p]] = p /\ p # Free
    BY <1>2, HoldsFile, ObjectsFacts
  <2> QED BY <2>1 DEF Alone
<1> QED BY <1>1, <1>2

\* The object that takes the step has opened, kept or given up its own file.
LEMMA OwnKeep ==
    ASSUME TableInv, NEW o \in Objects, Calls(o) \/ Mode(o), Holds(o)'
    PROVE  file'[descriptor'[o]] = o
<1>1. descriptor'[o] # None
  BY ObjectsFacts DEF Holds, connected, None
<1>2. CASE LookupFails(o) \/ LookupSucceeds(o) \/ OutOfCandidates(o)
  <2>1. UNCHANGED <<file, descriptor>>
    BY <1>2 DEF LookupFails, LookupSucceeds, OutOfCandidates, table, members
  <2>2. o \in Sockets
    BY <1>2, ObjectsFacts DEF Holds, LookupFails, LookupSucceeds, OutOfCandidates, Returns,
       TableInv, DescriptorsTypeOK
  <2> QED BY <1>1, <2>1, <2>2, SocketHolds, HoldsFile
<1>3. CASE SocketFails(o)
  BY <1>1, <1>3 DEF SocketFails, TableInv, DescriptorsTypeOK
<1>4. CASE SocketOpens(o)
  BY <1>4, OpenType DEF SocketOpens
<1>5. CASE o \in Sockets /\ SocketConnects(o)
  <2>1. UNCHANGED <<file, descriptor>>
    BY <1>5 DEF SocketConnects, StartsConnecting, AddressFails, Connects, StaysNonBlocking,
       table, members
  <2> QED BY <1>1, <1>5, <2>1, SocketHolds, HoldsFile
<1>6. CASE o \in Listeners /\ ListenerListens(o)
  <2>1. CASE OptionFails(o) \/ BindFails(o)
    BY <1>6, <2>1 DEF OptionFails, BindFails, NextCandidate, Holds, TableInv, DescriptorsTypeOK
  <2>2. CASE Binds(o)
    BY <2>2, OpenedHolds, HoldsFile DEF Binds, table, members
  <2> QED BY <1>6, <2>1, <2>2 DEF ListenerListens
<1>7. CASE o \in Sockets /\ \E l \in Listeners : Accept(l, o)
  BY <1>7, OpenType DEF Accept
<1>8. CASE close_socket(o)
  BY <1>1, <1>8 DEF close_socket, TableInv, DescriptorsTypeOK
<1>9. CASE Mode(o)
  BY <1>1, <1>9, SocketHolds, HoldsFile DEF Mode, SetBlocking
<1> QED BY <1>2, <1>3, <1>4, <1>5, <1>6, <1>7, <1>8, <1>9 DEF Calls

LEMMA TableStep ==
    ASSUME TableInv, NEW o \in Objects, Calls(o) \/ Mode(o)
    PROVE  TableInv'
<1>1. DescriptorsTypeOK' /\ Trying' /\ Alone(o)
  BY CallsStep
<1>2. OwnDescriptor'
  <2> SUFFICES ASSUME NEW p \in Objects, Holds(p)' PROVE file'[descriptor'[p]] = p
    BY DEF OwnDescriptor
  <2>1. CASE p = o
    BY <2>1, OwnKeep
  <2>2. CASE p # o
    BY <1>1, <2>2, OthersKeep
  <2> QED BY <2>1, <2>2
<1> QED BY <1>1, <1>2 DEF TableInv

--------------------------------------------------------------------------------
(* connect leaves a blocking file behind, and set_blocking keeps what it found.     *)

\* connect puts the new file in non-blocking mode behind the member's back and takes it
\* back: the flag stands where its two blind flips suppose it.
SocketMode(s) ==
    /\ pc[s] = "opened" => nonblocking[descriptor[s]] = FALSE
    /\ pc[s] = "connecting" => nonblocking[descriptor[s]] = TRUE

ModeInv == \A s \in Sockets : SocketMode(s)

\* What ModeKept says of one socket.
KeepsMode(s) ==
    Settled(s)' =>
        (Agrees(s)' <=> IF Settled(s) /\ descriptor'[s] = descriptor[s] THEN Agrees(s)
                        ELSE is_blocking[s])

LEMMA OthersMode ==
    ASSUME TableInv, NEW o \in Objects, Alone(o), NEW p \in Sockets, p # o, SocketMode(p)
    PROVE  SocketMode(p)' /\ KeepsMode(p)
<1>1. p \in Objects \ {o}
  BY ObjectsFacts
<1>2. /\ descriptor'[p] = descriptor[p] /\ pc'[p] = pc[p] /\ status'[p] = status[p]
      /\ is_blocking'[p] = is_blocking[p]
  BY <1>1 DEF Alone
<1>3. descriptor[p] # None => nonblocking'[descriptor[p]] = nonblocking[descriptor[p]]
  BY <1>1, <1>2, OthersKeep, SocketHolds
<1>4. pc[p] \in {"opened", "connecting"} => descriptor[p] # None
  BY <1>1 DEF TableInv, Trying
<1>5. SocketMode(p)'
  BY <1>2, <1>3, <1>4 DEF SocketMode
<1>6. KeepsMode(p)
  <2> SUFFICES ASSUME Settled(p)' PROVE Settled(p) /\ (Agrees(p)' <=> Agrees(p))
    BY <1>2 DEF KeepsMode
  <2> QED BY <1>2, <1>3 DEF Settled, Agrees
<1> QED BY <1>5, <1>6

LEMMA OwnMode ==
    ASSUME TableInv, NEW s \in Sockets, Calls(s) \/ Mode(s), SocketMode(s)
    PROVE  SocketMode(s)' /\ KeepsMode(s)
<1>1. s \in Objects /\ s \notin Listeners
  BY ObjectsFacts
<1>2. /\ pc[s] \in {"idle", "trying", "opened", "connecting"}
      /\ pc \in [Objects -> {"idle", "trying", "opened", "connecting"}]
      /\ status \in [Objects -> Results]
      /\ is_blocking \in [Sockets -> BOOLEAN] /\ is_blocking[s] \in BOOLEAN
      /\ descriptor \in [Objects -> Descriptors \cup {None}]
  BY <1>1 DEF TableInv, DescriptorsTypeOK, Results
<1>3. CASE LookupFails(s) \/ LookupSucceeds(s) \/ OutOfCandidates(s)
  <2>1. pc'[s] \in {"idle", "trying"} /\ (pc'[s] = "idle" => status'[s] = "Error")
    BY <1>1, <1>2, <1>3 DEF LookupFails, LookupSucceeds, OutOfCandidates, Returns
  <2> QED BY <2>1 DEF SocketMode, KeepsMode, Settled
<1>4. CASE SocketFails(s)
  <2>1. pc'[s] = "trying"
    BY <1>1, <1>2, <1>4 DEF SocketFails, NextCandidate
  <2> QED BY <2>1 DEF SocketMode, KeepsMode, Settled
<1>5. CASE SocketOpens(s)
  <2>1. PICK d \in Descriptors :
           /\ Open(s, d)
           /\ pc' = [pc EXCEPT ![s] = "opened"] \/ NextCandidate(s)
    BY <1>5 DEF SocketOpens
  <2>2. ~nonblocking'[descriptor'[s]] /\ nonblocking'[descriptor'[s]] \in BOOLEAN
    BY <1>1, <2>1, OpenType
  <2>3. pc'[s] \in {"opened", "trying"}
    BY <1>1, <1>2, <2>1 DEF NextCandidate
  <2> QED BY <2>2, <2>3 DEF SocketMode, KeepsMode, Settled
<1>6. CASE SocketConnects(s)
  <2>1. pc[s] \in {"opened", "connecting"}
    BY <1>6 DEF SocketConnects, StartsConnecting, AddressFails, Connects, StaysNonBlocking
  <2>2. Holds(s)
    BY <1>1, <2>1, SocketHolds DEF TableInv, Trying
  <2>3. UNCHANGED <<descriptor, is_blocking>>
    BY <1>6 DEF SocketConnects, StartsConnecting, AddressFails, Connects, StaysNonBlocking,
       members
  <2>4. CASE StartsConnecting(s)
    <3>1. nonblocking'[descriptor[s]] = TRUE
      BY <1>1, <2>2, <2>4, FlipType DEF StartsConnecting, SocketMode
    <3>2. pc'[s] = "connecting"
      BY <1>1, <1>2, <2>4 DEF StartsConnecting
    <3> QED BY <2>3, <3>1, <3>2 DEF SocketMode, KeepsMode, Settled
  <2>5. CASE AddressFails(s)
    <3>1. pc'[s] = "trying"
      BY <1>1, <1>2, <2>5 DEF AddressFails, NextCandidate
    <3> QED BY <3>1 DEF SocketMode, KeepsMode, Settled
  <2>6. CASE Connects(s)
    <3>1. nonblocking'[descriptor[s]] = FALSE
      BY <1>1, <2>2, <2>6, FlipType DEF Connects, SocketMode
    <3>2. pc'[s] = "idle"
      BY <1>1, <1>2, <2>6 DEF Connects, Returns
    <3>3. ~Settled(s)
      BY <2>1 DEF Settled
    <3> QED BY <1>2, <2>3, <3>1, <3>2, <3>3 DEF SocketMode, KeepsMode, Agrees
  <2>7. CASE StaysNonBlocking(s)
    <3>1. pc'[s] = "idle" /\ status'[s] = "Error"
      BY <1>1, <1>2, <2>7 DEF StaysNonBlocking, Returns
    <3> QED BY <3>1 DEF SocketMode, KeepsMode, Settled
  <2> QED BY <1>6, <2>4, <2>5, <2>6, <2>7 DEF SocketConnects
<1>7. CASE \E l \in Listeners : Accept(l, s)
  <2>1. PICK l \in Listeners : Accept(l, s)
    BY <1>7
  <2>2. PICK d \in Descriptors : Open(s, d)
    BY <2>1 DEF Accept
  <2>3. nonblocking'[descriptor'[s]] = FALSE /\ descriptor'[s] = d /\ file[d] = Free
    <3>1. nonblocking'[d] \in BOOLEAN /\ ~nonblocking'[d]
      BY <1>1, <2>2, OpenType
    <3> QED BY <1>1, <2>2, <3>1, OpenType
  <2>4. pc'[s] = "idle" /\ UNCHANGED is_blocking
    BY <1>1, <1>2, <2>1 DEF Accept, Returns
  <2>5. ~(Settled(s) /\ descriptor'[s] = descriptor[s])
    BY <1>1, <2>3, SocketHolds, HoldsFile, ObjectsFacts DEF Settled
  <2> QED BY <1>2, <2>3, <2>4, <2>5 DEF SocketMode, KeepsMode, Agrees
<1>8. CASE close_socket(s)
  <2>1. descriptor'[s] = None /\ pc'[s] = "idle"
    BY <1>1, <1>2, <1>8 DEF close_socket
  <2> QED BY <2>1 DEF SocketMode, KeepsMode, Settled
<1>9. CASE Mode(s)
  <2>1. PICK should \in BOOLEAN : SetBlocking(s, should)
    BY <1>9 DEF Mode
  <2>2. Holds(s) /\ descriptor[s] # None
    BY <1>1, <2>1, SocketHolds DEF SetBlocking, connected, Holds
  <2>3. nonblocking'[descriptor[s]] =
           (IF is_blocking[s] = should THEN nonblocking[descriptor[s]]
            ELSE ~nonblocking[descriptor[s]])
    <3>1. nonblocking' = Flip(descriptor[s], is_blocking[s], should)
      BY <2>1 DEF SetBlocking
    <3>2. DEFINE already == is_blocking[s]
    <3> HIDE DEF already
    <3>3. already \in BOOLEAN /\ nonblocking' = Flip(descriptor[s], already, should)
      BY <1>2, <3>1 DEF already
    <3>4. nonblocking'[descriptor[s]] =
             (IF already = should THEN nonblocking[descriptor[s]]
              ELSE ~nonblocking[descriptor[s]])
      BY <1>1, <2>2, <3>3, FlipType
    <3> QED BY <3>4 DEF already
  <2>4. is_blocking'[s] = should /\ UNCHANGED <<descriptor, pc, status>> /\ pc[s] = "idle"
    BY <1>2, <2>1 DEF SetBlocking
  <2>5. nonblocking[descriptor[s]] \in BOOLEAN
    BY <1>1, <2>2, HoldsFile DEF TableInv, DescriptorsTypeOK
  <2>6. SocketMode(s)'
    BY <2>4 DEF SocketMode
  <2>7. Settled(s)' => Settled(s) /\ descriptor'[s] = descriptor[s]
    BY <2>4 DEF Settled
  <2>8. Agrees(s)' <=> Agrees(s)
    BY <1>2, <2>3, <2>4, <2>5 DEF Agrees
  <2> QED BY <2>6, <2>7, <2>8 DEF KeepsMode
<1> QED BY <1>1, <1>3, <1>4, <1>5, <1>6, <1>7, <1>8, <1>9 DEF Calls

LEMMA ModeInvStep ==
    ASSUME TableInv, ModeInv, NEW o \in Objects, Calls(o) \/ Mode(o)
    PROVE  ModeInv' /\ \A s \in Sockets : KeepsMode(s)
<1> SUFFICES ASSUME NEW p \in Sockets PROVE SocketMode(p)' /\ KeepsMode(p)
  BY DEF ModeInv
<1>1. SocketMode(p)
  BY DEF ModeInv
<1>2. CASE p = o
  BY <1>1, <1>2, OwnMode
<1>3. CASE p # o
  BY <1>1, <1>3, CallsStep, OthersMode
<1> QED BY <1>2, <1>3

--------------------------------------------------------------------------------
(* The selector's two registries.                                              *)

\* An entry of the interest list points to the member added under that descriptor.
Points ==
    \A d \in Descriptors :
        interest[d] # Free => interest[d] \in Members /\ added[interest[d]] = d

\* A tidy application's members are at rest and hold the files they were added with.
Kept ==
    tidy => \A o \in Members :
        /\ Holds(o) /\ pc[o] = "idle"
        /\ descriptor[o] = added[o] /\ interest[added[o]] = o

SelectorTypeOK ==
    /\ added \in [Members -> Descriptors] /\ Members \subseteq Objects
    /\ interest \in [Descriptors -> Objects \cup {Free}]
    /\ tidy \in BOOLEAN

Inv == TableInv /\ ModeInv /\ SelectorTypeOK /\ Points /\ Kept

LEMMA InvInit == ASSUME ~Discards, Init PROVE Inv
<1>1. DescriptorsTypeOK
  BY DescriptorsAssumption DEF Init, DescriptorsInit, DescriptorsTypeOK
<1>2. \A o \in Objects : descriptor[o] = None /\ pc[o] = "idle"
  BY DEF Init, DescriptorsInit
<1>3. Trying
  BY <1>2 DEF Trying
<1>4. OwnDescriptor
  BY <1>2, ObjectsFacts DEF OwnDescriptor, Holds, connected, None
<1>5. ModeInv
  BY <1>2, ObjectsFacts DEF Init, DescriptorsInit, ModeInv, SocketMode
<1>6. SelectorTypeOK /\ Points /\ Kept
  BY DEF Init, SelectorInit, SelectorTypeOK, Points, Kept, Members
<1> QED BY <1>1, <1>3, <1>4, <1>5, <1>6 DEF Inv, TableInv

\* What the kernel keeps of the interest list when a thread has made its call.
LEMMA ForgetType ==
    ASSUME Inv
    PROVE  /\ Forget \in [Descriptors -> Objects \cup {Free}]
           /\ \A d \in Descriptors :
                 /\ Forget[d] # Free => Forget[d] = interest[d]
                 /\ file'[d] # Free => Forget[d] = interest[d]
  BY DEF Inv, SelectorTypeOK, Forget

\* A thread's call disturbs the registries only through the kernel.
LEMMA CallInv ==
    ASSUME Inv, NEW o \in Objects, tidy => o \notin Members, Calls(o),
           interest' = Forget, UNCHANGED <<added, tidy>>
    PROVE  Inv'
<1>1. TableInv' /\ ModeInv' /\ Alone(o)
  BY TableStep, ModeInvStep, CallsStep DEF Inv
<1>2. SelectorTypeOK'
  BY ForgetType DEF Inv, SelectorTypeOK, Members
<1>3. Points'
  BY ForgetType DEF Inv, Points, Members
<1>4. Kept'
  <2> SUFFICES ASSUME tidy, NEW p \in Members
               PROVE  /\ Holds(p)' /\ pc'[p] = "idle"
                      /\ descriptor'[p] = added[p] /\ interest'[added[p]] = p
    BY DEF Kept, Members
  <2>1. p \in Objects \ {o}
    BY DEF Inv, SelectorTypeOK
  <2>2. /\ Holds(p) /\ pc[p] = "idle"
        /\ descriptor[p] = added[p] /\ interest[added[p]] = p
    BY DEF Inv, Kept
  <2>3. Holds(p)' /\ file'[descriptor'[p]] = p
    BY <1>1, <2>1, <2>2, OthersKeep DEF Inv
  <2>4. pc'[p] = "idle" /\ descriptor'[p] = added[p]
    BY <1>1, <2>1, <2>2 DEF Alone
  <2>5. added[p] \in Descriptors
    BY DEF Inv, SelectorTypeOK
  <2>6. interest'[added[p]] = p
    BY <2>1, <2>2, <2>3, <2>4, <2>5, ForgetType, ObjectsFacts
  <2> QED BY <2>3, <2>4, <2>6
<1> QED BY <1>1, <1>2, <1>3, <1>4 DEF Inv

LEMMA SetModeInv ==
    ASSUME Inv, NEW s \in Sockets, SetMode(s)
    PROVE  Inv'
<1>1. s \in Objects /\ Mode(s) /\ UNCHANGED <<added, interest, tidy>>
  BY ObjectsFacts DEF SetMode, Mode
<1>2. TableInv' /\ ModeInv'
  BY <1>1, TableStep, ModeInvStep DEF Inv
<1>3. UNCHANGED <<descriptor, pc, status>>
  BY DEF SetMode, SetBlocking
<1> QED BY <1>1, <1>2, <1>3 DEF Inv, SelectorTypeOK, Points, Kept, Members, Holds, connected

LEMMA TableUnchanged ==
    ASSUME TableInv, ModeInv, UNCHANGED dvars
    PROVE  TableInv' /\ ModeInv'
<1>1. UNCHANGED <<file, nonblocking, descriptor, is_blocking, pc, candidates, status>>
  BY DEF dvars
<1> QED BY <1>1 DEF TableInv, ModeInv, SocketMode, DescriptorsTypeOK, Trying, OwnDescriptor, Holds, connected

LEMMA AddInv ==
    ASSUME Inv, NEW o \in Objects, Add(o)
    PROVE  Inv'
<1> DEFINE d == descriptor[o]
<1>1. /\ o \notin Members /\ interest[d] = Free
      /\ added' = [p \in Members \cup {o} |-> IF p = o THEN d ELSE added[p]]
      /\ interest' = [interest EXCEPT ![d] = o]
      /\ UNCHANGED <<dvars, tidy>>
      /\ pc[o] = "idle" /\ (tidy => Holds(o))
  BY DEF Add
<1>2. d \in Descriptors
  <2>1. d \in Descriptors \cup {None} /\ d > -1
    BY DEF Inv, TableInv, DescriptorsTypeOK, Add, connected
  <2> QED BY <2>1 DEF None
<1>3. UNCHANGED <<file, descriptor, pc, status>>
  BY <1>1 DEF dvars
<1>4. /\ Members' = Members \cup {o} /\ added'[o] = d /\ interest'[d] = o
      /\ \A p \in Members : added'[p] = added[p]
      /\ \A e \in Descriptors \ {d} : interest'[e] = interest[e]
  BY <1>1, <1>2 DEF Members, Inv, SelectorTypeOK
<1> HIDE DEF d
<1>5. TableInv' /\ ModeInv'
  BY <1>1, TableUnchanged DEF Inv
<1>6. SelectorTypeOK'
  BY <1>1, <1>2, <1>4 DEF Inv, SelectorTypeOK
<1>7. Points'
  BY <1>4 DEF Inv, Points
<1>8. Kept'
  <2> SUFFICES ASSUME tidy, NEW p \in Members \cup {o}
               PROVE  /\ Holds(p) /\ pc[p] = "idle"
                      /\ descriptor[p] = added'[p] /\ interest'[added'[p]] = p
    BY <1>1, <1>3, <1>4 DEF Kept, Holds, connected
  <2>1. CASE p = o
    BY <1>1, <1>4, <2>1 DEF d
  <2>2. CASE p # o
    <3>1. /\ p \in Members /\ p \in Objects /\ Holds(p) /\ pc[p] = "idle"
          /\ descriptor[p] = added[p] /\ interest[added[p]] = p
          /\ added[p] \in Descriptors /\ added'[p] = added[p]
      BY <1>4, <2>2 DEF Inv, Kept, SelectorTypeOK
    <3>2. added[p] # d
      BY <1>1, <3>1, ObjectsFacts
    <3> QED BY <1>4, <3>1, <3>2
  <2> QED BY <2>1, <2>2
<1> QED BY <1>5, <1>6, <1>7, <1>8 DEF Inv

LEMMA RemoveInv ==
    ASSUME Inv, NEW o \in Objects, Remove(o)
    PROVE  Inv'
<1>1. /\ o \in Members
      /\ added' = [p \in Members \ {o} |-> added[p]]
      /\ interest' = [interest EXCEPT ![added[o]] = Free]
      /\ UNCHANGED <<dvars, tidy>>
  BY DEF Remove, Deleted
<1>2. added[o] \in Descriptors
  BY <1>1 DEF Inv, SelectorTypeOK
<1>3. UNCHANGED <<file, descriptor, pc, status>>
  BY <1>1 DEF dvars
<1>4. /\ Members' = Members \ {o} /\ interest'[added[o]] = Free
      /\ \A p \in Members \ {o} : added'[p] = added[p]
      /\ \A e \in Descriptors : e # added[o] => interest'[e] = interest[e]
  BY <1>1, <1>2 DEF Members, Inv, SelectorTypeOK
<1>5. TableInv' /\ ModeInv'
  BY <1>1, TableUnchanged DEF Inv
<1>6. SelectorTypeOK'
  BY <1>1, <1>2, <1>4 DEF Inv, SelectorTypeOK
<1>7. Points'
  BY <1>4 DEF Inv, Points
<1>8. Kept'
  <2> SUFFICES ASSUME tidy, NEW p \in Members \ {o}
               PROVE  /\ Holds(p) /\ pc[p] = "idle"
                      /\ descriptor[p] = added'[p] /\ interest'[added'[p]] = p
    BY <1>1, <1>3, <1>4 DEF Kept, Holds, connected
  <2>1. /\ Holds(p) /\ pc[p] = "idle" /\ descriptor[p] = added[p]
        /\ interest[added[p]] = p /\ interest[added[o]] = o
        /\ added[p] \in Descriptors /\ added'[p] = added[p]
    BY <1>1, <1>4 DEF Inv, Kept, SelectorTypeOK
  <2> QED BY <1>4, <2>1
<1> QED BY <1>5, <1>6, <1>7, <1>8 DEF Inv

LEMMA InvStep == Inv /\ [Next]_vars => Inv'
<1> SUFFICES ASSUME Inv, [Next]_vars PROVE Inv'
  OBVIOUS
<1>1. ASSUME NEW o \in Objects, Establish(o) \/ Close(o) PROVE Inv'
  <2>1. /\ tidy => o \notin Members
        /\ Calls(o) /\ interest' = Forget /\ UNCHANGED <<added, tidy>>
    BY <1>1 DEF Establish, Close, Calls
  <2> QED BY <2>1, CallInv
<1>2. ASSUME NEW o \in Objects, Add(o) PROVE Inv'
  BY <1>2, AddInv
<1>3. ASSUME NEW o \in Objects, Remove(o) PROVE Inv'
  BY <1>3, RemoveInv
<1>4. ASSUME NEW s \in Sockets, SetMode(s) PROVE Inv'
  BY <1>4, SetModeInv
<1>5. CASE UNCHANGED vars
  <2>1. UNCHANGED <<dvars, added, interest, tidy>>
    BY <1>5 DEF vars, svars
  <2>2. UNCHANGED <<descriptor, pc, status>>
    BY <2>1 DEF dvars
  <2>3. TableInv' /\ ModeInv'
    BY <2>1, TableUnchanged DEF Inv
  <2> QED BY <2>1, <2>2, <2>3 DEF Inv, SelectorTypeOK, Points, Kept, Members, Holds, connected
<1> QED BY <1>1, <1>2, <1>3, <1>4, <1>5 DEF Next

LEMMA Invariant == ASSUME ~Discards PROVE Spec => []Inv
<1>1. Init => Inv
  BY InvInit
<1> QED BY <1>1, InvStep, PTL DEF Spec

--------------------------------------------------------------------------------
(* What follows from it.                                                       *)

\* Every variable keeps its type, for any number of objects, descriptors and addresses,
\* when applications do not discard a listener whose listen failed.
THEOREM TypesHold == ASSUME ~Discards PROVE Spec => []TypeOK
<1>1. Inv => TypeOK
  BY DEF Inv, TableInv, SelectorTypeOK, TypeOK
<1> QED BY <1>1, Invariant, PTL

\* However the system calls of the threads interleave and descriptor numbers are used
\* again, the number an object uses or closes denotes the file this object opened, again without
\* discarded listeners.
THEOREM DescriptorsOwned == ASSUME ~Discards PROVE Spec => []OwnDescriptor
<1>1. Inv => OwnDescriptor
  BY DEF Inv, TableInv
<1> QED BY <1>1, Invariant, PTL

\* Whatever is closed, connected or accepted into again, a socket's get_blocking tells the
\* mode of its connection exactly if is_blocking was TRUE when the connection was made:
\* connect's two flips of the flag leave a blocking file behind, and set_blocking's one
\* keeps what it found, right or wrong.
THEOREM ModesKept == ASSUME ~Discards PROVE Spec => ModeKept
<1>1. Inv /\ [Next]_vars => [\A s \in Sockets : KeepsMode(s)]_dvars
  <2> SUFFICES ASSUME Inv, Next, dvars' # dvars PROVE \A s \in Sockets : KeepsMode(s)
    BY DEF vars
  <2>1. CASE \E o \in Objects : Calls(o) \/ Mode(o)
    BY <2>1, ModeInvStep DEF Inv
  <2>2. \E o \in Objects : Calls(o) \/ Mode(o)
    BY ObjectsFacts DEF Next, Establish, Close, Calls, Add, Remove, SetMode, Mode
  <2> QED BY <2>1, <2>2
<1> QED BY <1>1, Invariant, PTL DEF Spec, ModeKept, KeepsMode

\* Nor does a discarded listener matter to what the interest list points to.
PointsInv ==
    /\ descriptor \in [Objects -> Descriptors \cup {None}]
    /\ SelectorTypeOK
    /\ Points

LEMMA PointsStep == PointsInv /\ [Next]_vars => PointsInv'
<1> SUFFICES ASSUME PointsInv, [Next]_vars PROVE PointsInv'
  OBVIOUS
<1>1. ASSUME NEW o \in Objects, Establish(o) \/ Close(o) PROVE PointsInv'
  <2>1. interest' = Forget /\ UNCHANGED <<added, tidy>>
    BY <1>1 DEF Establish, Close
  <2>2. descriptor' \in [Objects -> Descriptors \cup {None}]
    BY <1>1, ObjectsFacts DEF PointsInv, Establish, Close, close_socket, LookupFails,
       LookupSucceeds, SocketFails, SocketOpens, OutOfCandidates, SocketConnects,
       StartsConnecting, AddressFails, Connects, StaysNonBlocking, ListenerListens,
       OptionFails, BindFails, Binds, Accept, Open, members
  <2>3. /\ interest' \in [Descriptors -> Objects \cup {Free}]
        /\ \A d \in Descriptors : interest'[d] # Free => interest'[d] = interest[d]
    BY <2>1 DEF PointsInv, SelectorTypeOK, Forget
  <2> QED BY <2>1, <2>2, <2>3 DEF PointsInv, SelectorTypeOK, Points, Members
<1>2. ASSUME NEW o \in Objects, Add(o) PROVE PointsInv'
  <2> DEFINE d == descriptor[o]
  <2>1. d \in Descriptors
    <3>1. d \in Descriptors \cup {None} /\ d > -1
      BY <1>2 DEF PointsInv, Add, connected
    <3> QED BY <3>1 DEF None
  <2>2. /\ o \notin Members
        /\ added' = [p \in Members \cup {o} |-> IF p = o THEN d ELSE added[p]]
        /\ interest' = [interest EXCEPT ![d] = o]
        /\ UNCHANGED <<descriptor, tidy>>
    BY <1>2 DEF Add, dvars
  <2> HIDE DEF d
  <2>3. /\ Members' = Members \cup {o} /\ added'[o] = d /\ interest'[d] = o
        /\ \A p \in Members : added'[p] = added[p]
        /\ \A e \in Descriptors \ {d} : interest'[e] = interest[e]
    BY <2>1, <2>2 DEF Members, PointsInv, SelectorTypeOK
  <2>4. SelectorTypeOK'
    BY <2>1, <2>2, <2>3 DEF PointsInv, SelectorTypeOK
  <2>5. Points'
    BY <2>2, <2>3 DEF PointsInv, Points
  <2> QED BY <2>2, <2>4, <2>5 DEF PointsInv
<1>3. ASSUME NEW o \in Objects, Remove(o) PROVE PointsInv'
  <2>1. /\ o \in Members
        /\ added' = [p \in Members \ {o} |-> added[p]]
        /\ interest' = [interest EXCEPT ![added[o]] = Free]
        /\ UNCHANGED <<descriptor, tidy>>
    BY <1>3 DEF Remove, Deleted, dvars
  <2>2. added[o] \in Descriptors
    BY <2>1 DEF PointsInv, SelectorTypeOK
  <2>3. /\ Members' = Members \ {o} /\ interest'[added[o]] = Free
        /\ \A p \in Members \ {o} : added'[p] = added[p]
        /\ \A e \in Descriptors : e # added[o] => interest'[e] = interest[e]
    BY <2>1, <2>2 DEF Members, PointsInv, SelectorTypeOK
  <2>4. SelectorTypeOK'
    BY <2>1, <2>2, <2>3 DEF PointsInv, SelectorTypeOK
  <2>5. Points'
    BY <2>3 DEF PointsInv, Points
  <2> QED BY <2>1, <2>4, <2>5 DEF PointsInv
<1>4. ASSUME NEW s \in Sockets, SetMode(s) PROVE PointsInv'
  <2>1. UNCHANGED <<descriptor, added, interest, tidy>>
    BY <1>4 DEF SetMode, SetBlocking
  <2> QED BY <2>1 DEF PointsInv, SelectorTypeOK, Points, Members
<1>5. CASE UNCHANGED vars
  BY <1>5 DEF vars, svars, dvars, PointsInv, SelectorTypeOK, Points, Members
<1> QED BY <1>1, <1>2, <1>3, <1>4, <1>5 DEF Next

\* epoll never hands wait() a pointer to an entry that added_sockets has erased, whatever
\* the application closes, and in whatever order.
THEOREM NothingDangles == Spec => []NoDangling
<1>1. Init => PointsInv
  BY DEF Init, DescriptorsInit, SelectorInit, PointsInv, SelectorTypeOK, Points, Members
<1>2. PointsInv => NoDangling
  BY DEF PointsInv, Points, NoDangling
<1> QED BY <1>1, <1>2, PointsStep, PTL DEF Spec

\* An application that removes sockets before it closes them loses no events.
THEOREM MembersWatched == ASSUME ~Discards PROVE Spec => []Watched
<1>1. Inv => Watched
  BY DEF Inv, Kept, Watched
<1> QED BY <1>1, Invariant, PTL
================================================================================
