-------------------------------- MODULE Selector --------------------------------
(***************************************************************************)
(* fr::SocketSelector over the descriptor table.  Two registries describe  *)
(* the same sockets: added_sockets, keyed by the socket object, and the    *)
(* epoll instance's interest list, keyed by descriptor, whose entries      *)
(* point into added_sockets.  The kernel changes the second one on its     *)
(* own: closing a file takes it off the list.                              *)
(***************************************************************************)
EXTENDS Descriptors

VARIABLES
    added,            \* added_sockets: each member object's Opaque::descriptor
    interest,         \* interest[d]: the object whose Opaque data.ptr points to
    tidy              \* do the applications remove a socket before they close it?

svars == <<added, interest, tidy>>
vars == <<dvars, svars>>

Members == DOMAIN added

SelectorInit ==
    /\ added = [o \in {} |-> None]
    /\ interest = [d \in Descriptors |-> Free]
    /\ tidy \in BOOLEAN

Init == DescriptorsInit /\ SelectorInit

--------------------------------------------------------------------------------
(* SocketSelector.                                                             *)

\* Slip: the duplicate goes to EPOLL_CTL_ADD, which fails, and its entry is erased.
AddDuplicate(o) ==
    /\ pc[o] = "idle" /\ connected(o)
    /\ tidy => Holds(o)
    /\ IF interest[descriptor[o]] = Free
       THEN /\ added' = [p \in Members \cup {o} |-> IF p = o THEN descriptor[o] ELSE added[p]]
            /\ interest' = [interest EXCEPT ![descriptor[o]] = o]
       ELSE /\ added' = [p \in Members \ {o} |-> added[p]]
            /\ UNCHANGED interest
    /\ UNCHANGED <<dvars, tidy>>

\* add() throws for a socket that is not connected and for a duplicate; when
\* EPOLL_CTL_ADD fails it erases the new entry and throws, and nothing has changed.
Add(o) ==
    /\ pc[o] = "idle" /\ connected(o) /\ o \notin Members
    /\ tidy => Holds(o)
    /\ file[descriptor[o]] # Free /\ interest[descriptor[o]] = Free
    /\ added' = [p \in Members \cup {o} |-> IF p = o THEN descriptor[o] ELSE added[p]]
    /\ interest' = [interest EXCEPT ![descriptor[o]] = o]
    /\ UNCHANGED <<dvars, tidy>>

\* The interest list after EPOLL_CTL_DEL of d.
Deleted(d) == [interest EXCEPT ![d] = Free]

\* remove() names the descriptor the socket had when it was added.  When the kernel
\* does not know it (EBADF, ENOENT) remove() throws and the entry stays.
Remove(o) ==
    /\ o \in Members
    /\ interest[added[o]] # Free
    /\ interest' = Deleted(added[o])
    /\ added' = [p \in Members \ {o} |-> added[p]]
    /\ UNCHANGED <<dvars, tidy>>

--------------------------------------------------------------------------------
(* The application's threads.  A tidy one adds no listener whose listen failed, *)
(* and removes a socket before it closes it or gives it another connection.     *)

\* The kernel drops a closed file from the interest list.
Forget == [d \in Descriptors |-> IF file'[d] = Free THEN Free ELSE interest[d]]

Close(o) ==
    /\ tidy => o \notin Members
    /\ close_socket(o)
    /\ interest' = Forget
    /\ UNCHANGED <<added, tidy>>

Establish(o) ==
    /\ tidy => o \notin Members
    /\ \/ LookupFails(o) \/ LookupSucceeds(o)
       \/ SocketFails(o) \/ SocketOpens(o) \/ OutOfCandidates(o)
       \/ o \in Sockets /\ SocketConnects(o)
       \/ o \in Listeners /\ ListenerListens(o)
       \/ o \in Sockets /\ \E l \in Listeners : Accept(l, o)
    /\ interest' = Forget
    /\ UNCHANGED <<added, tidy>>

SetMode(s) ==
    /\ \E should \in BOOLEAN : SetBlocking(s, should)
    /\ UNCHANGED <<added, interest, tidy>>

Next ==
    \/ \E o \in Objects : Establish(o) \/ Close(o) \/ Add(o) \/ Remove(o)
    \/ \E s \in Sockets : SetMode(s)

Spec == Init /\ [][Next]_vars

--------------------------------------------------------------------------------
(* Properties.                                                                 *)

TypeOK ==
    /\ DescriptorsTypeOK
    /\ added \in [Members -> Descriptors] /\ Members \subseteq Objects
    /\ interest \in [Descriptors -> Objects \cup {Free}]
    /\ tidy \in BOOLEAN

\* wait() follows the pointers the kernel hands it: every one of them points to an
\* entry that is still in added_sockets, whatever was closed and reused meanwhile.
NoDangling == \A d \in Descriptors : interest[d] # Free => interest[d] \in Members

\* A tidy application loses no events: each member is on the interest list, under the
\* descriptor it has now, so neither a close nor a remove() of another socket took it
\* off, and remove() finds it.
Watched ==
    tidy => \A o \in Members : descriptor[o] = added[o] /\ interest[added[o]] = o

\* remove() is documented for a socket that "May have been disconnected": it must not
\* take another socket off the interest list.
RemoveTakesOneOff ==
    \A o \in Members :
        descriptor[o] = added[o] /\ file[added[o]] = o => interest[added[o]] = o
================================================================================
