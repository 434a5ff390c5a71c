------------------------------ MODULE Descriptors ------------------------------
(***************************************************************************)
(* The process's descriptor table, shared by the fr::TcpSocket and         *)
(* fr::TcpListener objects of its threads.  An object belongs to one       *)
(* thread; its connect, listen and accept are sequences of system calls,   *)
(* and the calls of different objects interleave.  The kernel hands out    *)
(* the lowest free descriptor, so a number is soon used again.             *)
(***************************************************************************)
EXTENDS Integers, FiniteSets

CONSTANTS
    Sockets,          \* TcpSocket objects
    Listeners,        \* TcpListener objects
    TableSize,        \* the process's limit on open descriptors
    MaxCandidates,    \* addresses getaddrinfo returns, at most
    Reused,           \* the objects applications connect, listen or accept into again
    Discards          \* do they close or destroy a listener whose listen failed?

Objects == Sockets \cup Listeners

ASSUME DescriptorsAssumption ==
    /\ Sockets \cap Listeners = {}
    /\ TableSize \in Nat \ {0}
    /\ MaxCandidates \in Nat
    /\ Reused \subseteq Objects
    /\ Discards \in BOOLEAN

Descriptors == 0..TableSize - 1
None == -1                          \* the value of socket_descriptor without a file
INVALID_SOCKET == 0                 \* as NetworkEncoding.h defines it for Unix
Free == "free"
Stdin == "stdin"                    \* what descriptor 0 denotes, unless it was closed

ASSUME ObjectsAssumption == {Free, Stdin} \cap Objects = {}

VARIABLES
    file,             \* file[d]: the object whose system call opened what d denotes
    nonblocking,      \* nonblocking[d]: O_NONBLOCK of the file
    descriptor,       \* socket_descriptor of each object
    is_blocking,      \* is_blocking of each socket
    pc,               \* idle, or where its connect or listen stands
    candidates,       \* addrinfo entries left to try
    status            \* what the last connect, listen or accept returned: "Error" for
                      \* every failure but listen's own; "Unknown" before and during a call

table == <<file, nonblocking>>
members == <<descriptor, is_blocking>>
dvars == <<file, nonblocking, descriptor, is_blocking, pc, candidates, status>>

DescriptorsInit ==
    /\ \E first \in {Stdin, Free} :
          file = [d \in Descriptors |-> IF d = 0 THEN first ELSE Free]
    /\ nonblocking = [d \in Descriptors |-> FALSE]
    /\ descriptor = [o \in Objects |-> None]
    /\ is_blocking = [s \in Sockets |-> TRUE]
    /\ pc = [o \in Objects |-> "idle"]
    /\ candidates = [o \in Objects |-> 0]
    /\ status = [o \in Objects |-> "Unknown"]

--------------------------------------------------------------------------------
(* The kernel.                                                                 *)

LowestFree(d) == file[d] = Free /\ \A e \in Descriptors : e < d => file[e] # Free
TableFull == \A d \in Descriptors : file[d] # Free

\* ::socket or ::accept opens d on behalf of o.
Open(o, d) ==
    /\ LowestFree(d)
    /\ file' = [file EXCEPT ![d] = o]
    /\ nonblocking' = [nonblocking EXCEPT ![d] = FALSE]
    /\ descriptor' = [descriptor EXCEPT ![o] = d]

\* ::closesocket: the file goes, and its flags with it.
CloseFile(d) ==
    /\ file' = [file EXCEPT ![d] = Free]
    /\ nonblocking' = [nonblocking EXCEPT ![d] = FALSE]

--------------------------------------------------------------------------------
(* TcpSocket::connect and TcpListener::listen try the addresses in turn.       *)

MayUse(o) == pc[o] = "idle" /\ (o \in Reused \/ status[o] = "Unknown")

Returns(o, result) ==
    /\ pc' = [pc EXCEPT ![o] = "idle"]
    /\ status' = [status EXCEPT ![o] = result]
    /\ candidates' = [candidates EXCEPT ![o] = 0]

NextCandidate(o) ==
    /\ pc' = [pc EXCEPT ![o] = "trying"]
    /\ candidates' = [candidates EXCEPT ![o] = @ - 1]

LookupFails(o) ==
    /\ MayUse(o)
    /\ Returns(o, "Error")
    /\ UNCHANGED <<table, members>>

LookupSucceeds(o) ==
    /\ MayUse(o)
    /\ pc' = [pc EXCEPT ![o] = "trying"]
    /\ \E n \in 1..MaxCandidates : candidates' = [candidates EXCEPT ![o] = n]
    /\ status' = [status EXCEPT ![o] = "Unknown"]
    /\ UNCHANGED <<table, members>>

\* ::socket fails and returns -1, which is not INVALID_SOCKET; the fcntl or setsockopt
\* that follows fails with EBADF, and the loop goes on.
SocketFails(o) ==
    /\ pc[o] = "trying" /\ candidates[o] > 0
    /\ descriptor' = [descriptor EXCEPT ![o] = None]
    /\ NextCandidate(o)
    /\ UNCHANGED <<table, is_blocking, status>>

\* Slip: the loop runs once more than there are addresses.
SocketOpensAnyway(o) ==
    /\ pc[o] = "trying"
    /\ \E d \in Descriptors : Open(o, d)
    /\ pc' = [pc EXCEPT ![o] = "opened"]
    /\ UNCHANGED <<is_blocking, candidates, status>>

\* Descriptor 0, which a process without standard input gets, is taken for a failure:
\* its file stays open.
SocketOpens(o) ==
    /\ pc[o] = "trying" /\ candidates[o] > 0
    /\ \E d \in Descriptors :
          /\ Open(o, d)
          /\ \/ /\ d # INVALID_SOCKET
                /\ pc' = [pc EXCEPT ![o] = "opened"]
                /\ UNCHANGED candidates
             \/ /\ d = INVALID_SOCKET
                /\ NextCandidate(o)
    /\ UNCHANGED <<is_blocking, status>>

\* Every address failed.  The descriptor of the last one stays in the object.
OutOfCandidates(o) ==
    /\ pc[o] = "trying" /\ candidates[o] = 0
    /\ Returns(o, "Error")
    /\ UNCHANGED <<table, members>>

\* set_unix_socket_blocking on the file d denotes: nothing if the socket believes it
\* is in that mode already, otherwise the flag is flipped, whatever it was.
Flip(d, already, should) ==
    IF already = should THEN nonblocking
    ELSE [nonblocking EXCEPT ![d] = ~@]

--------------------------------------------------------------------------------
(* TcpSocket::connect, for one address.                                        *)

\* Non-blocking mode, for a connect with a timeout of its own.
StartsConnecting(s) ==
    /\ pc[s] = "opened"
    /\ nonblocking' = Flip(descriptor[s], TRUE, FALSE)
    /\ pc' = [pc EXCEPT ![s] = "connecting"]
    /\ UNCHANGED <<file, members, candidates, status>>

\* fcntl, ::connect, select or SO_ERROR fails: on to the next address, and this one's
\* file stays open.
AddressFails(s) ==
    /\ pc[s] \in {"opened", "connecting"}
    /\ NextCandidate(s)
    /\ UNCHANGED <<table, members, status>>

\* Slip: the socket is left in the mode it was connected in.
ConnectsOnly(s) ==
    /\ pc[s] = "connecting"
    /\ Returns(s, "Success")
    /\ UNCHANGED <<table, members>>

\* Connected: back to blocking mode, and reconfigure_socket sets its options.
Connects(s) ==
    /\ pc[s] = "connecting"
    /\ nonblocking' = Flip(descriptor[s], FALSE, TRUE)
    /\ Returns(s, "Success")
    /\ UNCHANGED <<file, members>>

\* The second fcntl fails.
StaysNonBlocking(s) ==
    /\ pc[s] = "connecting"
    /\ Returns(s, "Error")
    /\ UNCHANGED <<table, members>>

SocketConnects(s) ==
    \/ StartsConnecting(s) \/ AddressFails(s) \/ Connects(s) \/ StaysNonBlocking(s)

--------------------------------------------------------------------------------
(* TcpListener::listen, for one address, and TcpListener::accept.              *)

\* SO_REUSEADDR or SO_REUSEPORT fails: the file stays open.
OptionFails(l) ==
    /\ pc[l] = "opened"
    /\ NextCandidate(l)
    /\ UNCHANGED <<table, members, status>>

\* Slip: `break` instead of `continue` after the failed bind.
BindFailsBreaks(l) ==
    /\ pc[l] = "opened"
    /\ CloseFile(descriptor[l])
    /\ Returns(l, "Success")
    /\ UNCHANGED members

\* bind fails: the file is closed, but the listener keeps its number.
BindFails(l) ==
    /\ pc[l] = "opened"
    /\ CloseFile(descriptor[l])
    /\ NextCandidate(l)
    /\ UNCHANGED <<members, status>>

Binds(l) ==
    /\ pc[l] = "opened"
    /\ \E result \in {"Success", "ListenFailed"} : Returns(l, result)
    /\ UNCHANGED <<table, members>>

ListenerListens(l) == OptionFails(l) \/ BindFails(l) \/ Binds(l)

Listening(l) == pc[l] = "idle" /\ status[l] = "Success" /\ descriptor[l] # None

\* ::accept gives a blocking file; set_descriptor stores it and is_blocking stays.
Accept(l, s) ==
    /\ Listening(l) /\ MayUse(s)
    /\ \E d \in Descriptors : Open(s, d)
    /\ Returns(s, "Success")
    /\ UNCHANGED is_blocking

--------------------------------------------------------------------------------
(* The other operations.                                                       *)

connected(o) == descriptor[o] > -1

\* TcpSocket::set_blocking, called "*WHILST* connected".
SetBlocking(s, should) ==
    /\ pc[s] = "idle" /\ connected(s)
    /\ nonblocking' = Flip(descriptor[s], is_blocking[s], should)
    /\ is_blocking' = [is_blocking EXCEPT ![s] = should]
    /\ UNCHANGED <<file, descriptor, pc, candidates, status>>

\* A listener whose bind failed keeps the number of a file it has closed: it holds none,
\* although it is connected().
Holds(o) ==
    /\ connected(o)
    /\ o \in Listeners =>
          pc[o] = "opened" \/ (pc[o] = "idle" /\ status[o] \in {"Success", "ListenFailed"})

\* Slip: the member keeps the number of the closed file.
close_socket_only(o) ==
    /\ pc[o] = "idle" /\ Holds(o)
    /\ CloseFile(descriptor[o])
    /\ UNCHANGED <<members, pc, candidates, status>>

\* close_socket of either class, also called by the destructors.  The examples exit when
\* listen fails.
close_socket(o) ==
    /\ pc[o] = "idle" /\ connected(o)
    /\ Holds(o) \/ Discards
    /\ CloseFile(descriptor[o])
    /\ descriptor' = [descriptor EXCEPT ![o] = None]
    /\ UNCHANGED <<is_blocking, pc, candidates, status>>

--------------------------------------------------------------------------------
(* Properties.                                                                 *)

DescriptorsTypeOK ==
    /\ file \in [Descriptors -> Objects \cup {Free, Stdin}]
    /\ nonblocking \in [Descriptors -> BOOLEAN]
    /\ descriptor \in [Objects -> Descriptors \cup {None}]
    /\ is_blocking \in [Sockets -> BOOLEAN]
    /\ pc \in [Objects -> {"idle", "trying", "opened", "connecting"}]
    /\ candidates \in [Objects -> 0..MaxCandidates]
    /\ status \in [Objects -> {"Unknown", "Success", "Error", "ListenFailed"}]

\* The number an object would use or close denotes the file that this object opened,
\* not one another thread has opened since.
OwnDescriptor == \A o \in Objects : Holds(o) => file[descriptor[o]] = o

\* connected() promises "True if connected, false otherwise".
ConnectedIsOpen ==
    \A o \in Objects : pc[o] = "idle" /\ connected(o) => file[descriptor[o]] = o

\* A socket at rest whose last connect or accept succeeded, and which is still connected.
Settled(s) == pc[s] = "idle" /\ status[s] = "Success" /\ descriptor[s] # None

\* is_blocking is the mode of the file.
Agrees(s) == is_blocking[s] = ~nonblocking[descriptor[s]]

\* get_blocking "Checks if the socket is blocking": it tells the mode of the connection,
\* by which send_raw and receive_raw tell a timeout from a WouldBlock.
ModeAgrees == \A s \in Sockets : Settled(s) => Agrees(s)

\* What the code does keep of it.  Every new connection is blocking, so get_blocking
\* starts out right exactly if is_blocking was TRUE by then; from there on set_blocking,
\* which flips the flag of the file, changes the mode and the member together, and no
\* other thread's connect, accept or close comes between.
ModeKept ==
    [][\A s \in Sockets : Settled(s)' =>
          (Agrees(s)' <=> IF Settled(s) /\ descriptor'[s] = descriptor[s] THEN Agrees(s)
                          ELSE is_blocking[s])]_dvars
================================================================================
