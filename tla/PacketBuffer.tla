------------------------------- MODULE PacketBuffer -------------------------------
(***************************************************************************)
(* fr::Packet as a container: the typed << and >>, the read cursor, raw    *)
(* data, set_buffer, clear, and the contents of send and receive (how the  *)
(* bytes travel is PacketStream).  An operator on a container calls those  *)
(* of its elements; `todo` is what is left of those calls, so that an      *)
(* exception drops it and leaves what was done.  Hosts may differ in byte  *)
(* order.  What is extracted goes into fresh objects: >> empties neither a *)
(* set nor a map first, and emplace keeps the entries a map already has.   *)
(***************************************************************************)
EXTENDS Integers, Sequences, SequencesExt

CONSTANTS
    Packets,          \* the Packet objects
    LittleEndian,     \* those of them that live on a little-endian host
    Links,            \* which of them are sent to which
    Read,             \* those that applications extract values from
    Values,           \* what applications pack: a type and its content
    Types,            \* what they extract
    Raws,             \* contents they give to set_buffer, header area included
    Positions,        \* positions they give to set_cursor
    Offsets,          \* distances they give to seek_cursor
    ByteSize,         \* values of a byte (256)
    Word,             \* sizeof(uint32_t)
    SizeT,            \* values of a size_t (2^64)
    MaxItems,         \* bound: values packed into one packet
    MaxBuffer         \* bound: bytes of a buffer to which a value is packed

Byte == 0..ByteSize - 1

\* Values of an unsigned integer of n bytes: ByteSize^n.
Power[n \in Nat] == IF n = 0 THEN 1 ELSE ByteSize * Power[n - 1]

UIntSize == Power[Word]             \* values of a uint32_t
HeaderLength == Word                \* PACKET_HEADER_LENGTH

ASSUME BufferAssumption ==
    /\ LittleEndian \subseteq Packets /\ Read \subseteq Packets
    /\ Links \subseteq {link \in Packets \X Packets : link[1] # link[2]}
    /\ ByteSize \in Nat \ {0, 1} /\ Word \in Nat \ {0}
    /\ Raws \subseteq Seq(Byte) /\ \A raw \in Raws : Len(raw) >= HeaderLength
    /\ SizeT \in Nat \ {0} /\ Positions \subseteq 0..SizeT - 1 /\ Offsets \subseteq Int
    /\ MaxItems \in Nat /\ MaxBuffer \in Nat

VARIABLES
    buffer, buffer_read_index,
    pc,               \* idle, packing, extracting, or threw
    object,           \* the packet of the operator that runs
    todo,             \* the values or types its calls have still to do
    got,              \* what an extraction has assigned so far, in order
    items,            \* ghost: what each packet holds: type, leaves, first byte and end
    begun,            \* ghost: where the extraction began, and of what type
    stray             \* ghost: packets whose cursor may have been left outside the buffer

memory == <<buffer, buffer_read_index>>
call == <<pc, object, todo, got, begun>>
vars == <<memory, call, items, stray>>

None == [kind |-> "none"]
Nothing == [at |-> 0, type |-> None]

Init ==
    /\ buffer = [p \in Packets |-> [i \in 1..HeaderLength |-> 0]]
    /\ buffer_read_index = [p \in Packets |-> HeaderLength]
    /\ pc = "idle" /\ object = None /\ todo = <<>> /\ got = <<>> /\ begun = Nothing
    /\ items = [p \in Packets |-> <<>>]
    /\ stray = {}

--------------------------------------------------------------------------------
(* Numbers in memory.                                                          *)

Digits(n, w) == [i \in 1..w |-> (n \div Power[w - i]) % ByteSize]

Number(bytes) ==
    LET first[i \in 0..Len(bytes)] == IF i = 0 THEN 0 ELSE ByteSize * first[i - 1] + bytes[i]
    IN  first[Len(bytes)]

\* The bytes of a variable of width w, and the variable with these bytes.
InMemory(p, n, w) == IF p \in LittleEndian THEN Reverse(Digits(n, w)) ELSE Digits(n, w)
FromMemory(p, bytes) == Number(IF p \in LittleEndian THEN Reverse(bytes) ELSE bytes)

\* Slip: the bytes stay in the host's order.
KeepOrder(p, bytes) == bytes

\* htons, htonl, fr_htonll, htonf, htond; and back.
hton(p, bytes) == IF p \in LittleEndian THEN Reverse(bytes) ELSE bytes
ntoh(p, bytes) == hton(p, bytes)

Encoded(p, n, w) == hton(p, InMemory(p, n, w))
Decoded(p, bytes) == FromMemory(p, ntoh(p, bytes))
Length(p, s) == Encoded(p, Len(s) % UIntSize, Word)

\* An enum travels as a uint32_t: its underlying type is widened, with its sign.
Widened(type, n) ==
    IF type.signed /\ 2 * n >= Power[type.width] THEN (n - Power[type.width]) + UIntSize ELSE n
Narrowed(type, n) == n % Power[type.width]

\* What a char pointer points to: the bytes up to the first 0.
Literal(bytes) ==
    LET ends == {i \in DOMAIN bytes : bytes[i] = 0}
    IN  IF ends = {} THEN bytes
        ELSE SubSeq(bytes, 1, (CHOOSE i \in ends : \A j \in ends : i <= j) - 1)

--------------------------------------------------------------------------------
(* The operators <<.  A value is a type and a content; each call appends the   *)
(* bytes of its own and leaves those of the elements to their calls.  A char   *)
(* pointer has the type of what it is read as: its content tells it apart.     *)

Characters(content) == IF content.pointer THEN Literal(content.chars) ELSE content.chars

\* What a call of << appends to the buffer.
Appended(p, type, content) ==
    CASE type.kind = "number"             -> Encoded(p, content, type.width)
      [] type.kind = "enum"               -> Encoded(p, Widened(type, content), Word)
      [] type.kind = "string"             -> Length(p, Characters(content)) \o Characters(content)
      [] type.kind = "raw"                -> content
      [] type.kind \in {"vector", "map"}  -> Length(p, content)
      [] type.kind \in {"pair", "object"} -> <<>>

\* The calls it makes: a pair's two members, a Packetable's, or the elements.
Parts(type, content) ==
    CASE type.kind \in {"vector", "map"}  -> [i \in DOMAIN content |-> [type |-> type.of, content |-> content[i]]]
      [] type.kind \in {"pair", "object"} -> [i \in DOMAIN type.of |-> [type |-> type.of[i], content |-> content[i]]]
      [] OTHER                            -> <<>>

\* What an extraction of it must assign: numbers, bytes, and the counts of elements.
Leaves(type, content) ==
    CASE type.kind \in {"vector", "map"}  -> <<Len(content)>>
      [] type.kind = "string"             -> <<Characters(content)>>
      [] type.kind \in {"pair", "object"} -> <<>>
      [] OTHER                            -> <<content>>

Idle ==
    /\ pc' = "idle" /\ object' = None /\ todo' = <<>> /\ got' = <<>> /\ begun' = Nothing

PackBegin(p, value) ==
    /\ pc = "idle" /\ Len(items[p]) < MaxItems /\ Len(buffer[p]) <= MaxBuffer
    /\ pc' = "packing" /\ object' = p /\ todo' = <<value>>
    /\ items' = [items EXCEPT ![p] = Append(@,
         [type |-> value.type, leaves |-> <<>>, at |-> Len(buffer[p]), end |-> Len(buffer[p])])]
    /\ UNCHANGED <<memory, got, begun, stray>>

Pack ==
    /\ pc = "packing" /\ todo # <<>>
    /\ LET type == Head(todo).type
           content == Head(todo).content
           bytes == Appended(object, type, content)
           last == Len(items[object])
           item == items[object][last]
       IN  /\ buffer' = [buffer EXCEPT ![object] = @ \o bytes]
           /\ todo' = Parts(type, content) \o Tail(todo)
           /\ items' = [items EXCEPT ![object][last] =
                          [item EXCEPT !.leaves = @ \o Leaves(type, content), !.end = @ + Len(bytes)]]
    /\ UNCHANGED <<buffer_read_index, pc, object, got, begun, stray>>

PackEnd ==
    /\ pc = "packing" /\ todo = <<>>
    /\ Idle
    /\ UNCHANGED <<memory, items, stray>>

--------------------------------------------------------------------------------
(* The operators >>.                                                           *)

\* The bytes that a call takes, and those that are left for it.
Takes(type) ==
    CASE type.kind = "number"                            -> type.width
      [] type.kind \in {"enum", "string", "vector", "map"} -> Word
      [] type.kind = "raw"                               -> type.count
      [] type.kind \in {"pair", "object"}                -> 0

\* Slip: the check is made for the length of a string, not for its characters.
AssertNothingOfRaw(p, type) ==
    type.kind = "raw" \/ (buffer_read_index[p] + Takes(type)) % SizeT <= Len(buffer[p])

\* assert_bytes_remaining: a sum of two size_t.
assert_bytes_remaining(p, type) == (buffer_read_index[p] + Takes(type)) % SizeT <= Len(buffer[p])

\* What the call assigns from these bytes.
Assigned(p, type, bytes) ==
    CASE type.kind = "number"            -> <<Decoded(p, bytes)>>
      [] type.kind = "enum"              -> <<Narrowed(type, Decoded(p, bytes))>>
      [] type.kind = "raw"               -> <<bytes>>
      [] type.kind \in {"vector", "map"} -> <<Decoded(p, bytes)>>
      [] OTHER                           -> <<>>

\* And the calls it makes: as many elements, or characters, as the length says.
Members(p, type, bytes) ==
    CASE type.kind = "string"             -> <<[kind |-> "raw", count |-> Decoded(p, bytes)]>>
      [] type.kind \in {"vector", "map"}  -> [i \in 1..Decoded(p, bytes) |-> type.of]
      [] type.kind \in {"pair", "object"} -> type.of
      [] OTHER                            -> <<>>

\* buffer[i - 1], or whatever follows the buffer in memory.
At(p, i) == IF i \in DOMAIN buffer[p] THEN buffer[p][i] ELSE 0

ExtractBegin(p, type) ==
    /\ pc = "idle"
    /\ pc' = "extracting" /\ object' = p /\ todo' = <<type>>
    /\ begun' = [at |-> buffer_read_index[p], type |-> type]
    /\ UNCHANGED <<memory, got, items, stray>>

Extract ==
    /\ pc = "extracting" /\ todo # <<>> /\ assert_bytes_remaining(object, Head(todo))
    /\ LET type == Head(todo)
           from == buffer_read_index[object]
           bytes == [i \in 1..Takes(type) |-> At(object, from + i)]
       IN  /\ buffer_read_index' = [buffer_read_index EXCEPT ![object] = @ + Takes(type)]
           /\ got' = got \o Assigned(object, type, bytes)
           /\ todo' = Members(object, type, bytes) \o Tail(todo)
    /\ UNCHANGED <<buffer, pc, object, begun, items, stray>>

\* std::out_of_range leaves every call; what they took and assigned stays.
Throw ==
    /\ pc = "extracting" /\ todo # <<>> /\ ~assert_bytes_remaining(object, Head(todo))
    /\ pc' = "threw" /\ todo' = <<>>
    /\ UNCHANGED <<memory, object, got, begun, items, stray>>

ExtractEnd ==
    /\ pc \in {"extracting", "threw"} /\ todo = <<>>
    /\ Idle
    /\ UNCHANGED <<memory, items, stray>>

--------------------------------------------------------------------------------
(* The cursor and the buffer as a whole.                                       *)

\* Slip: the old cursor stays.
KeepCursor(p) == buffer_read_index[p]

\* Where clear puts the cursor.
Start(p) == HeaderLength

Cleared(p) == [i \in 1..HeaderLength |-> 0]

clear(p) ==
    /\ pc = "idle"
    /\ buffer' = [buffer EXCEPT ![p] = Cleared(p)]
    /\ buffer_read_index' = [buffer_read_index EXCEPT ![p] = Start(p)]
    /\ items' = [items EXCEPT ![p] = <<>>] /\ stray' = stray \ {p}
    /\ UNCHANGED call

\* The cursor stays where it was, past the end perhaps.
set_buffer(p, raw) ==
    /\ pc = "idle"
    /\ buffer' = [buffer EXCEPT ![p] = raw]
    /\ items' = [items EXCEPT ![p] = <<>>] /\ stray' = stray \cup {p}
    /\ UNCHANGED <<call, buffer_read_index>>

Least(m, n) == IF m <= n THEN m ELSE n
Most(m, n) == IF m >= n THEN m ELSE n

Clamped(p, i) == Least(i, Len(buffer[p]))

\* Where set_cursor puts the cursor: a sum of two size_t, held to the end of the buffer but
\* not to its header, which a sum that wraps ends in.
Sought(p, pos) == Clamped(p, (HeaderLength + pos) % SizeT)

set_cursor(p, pos) ==
    /\ pc = "idle"
    /\ buffer_read_index' = [buffer_read_index EXCEPT ![p] = Sought(p, pos)]
    /\ stray' = IF HeaderLength + pos < SizeT THEN stray \ {p} ELSE stray \cup {p}
    /\ UNCHANGED <<call, buffer, items>>

\* A sum of a size_t and an ssize_t, taken for an ssize_t.
Signed(i) == LET u == i % SizeT IN IF 2 * u >= SizeT THEN u - SizeT ELSE u

seek_cursor(p, pos) ==
    /\ pc = "idle"
    /\ buffer_read_index' = [buffer_read_index EXCEPT
         ![p] = Clamped(p, Most(HeaderLength, Signed(@ + pos)))]
    /\ stray' = stray \ {p}
    /\ UNCHANGED <<call, buffer, items>>

get_bytes_remaining(p) == (Len(buffer[p]) - buffer_read_index[p]) % SizeT

\* Sizes from 4 GiB on are cut to 32 bits and do not arrive whole.
Fits(p) == Len(buffer[p]) - HeaderLength < UIntSize

\* The receiving buffer: it grows when it must, and what lay behind the payload stays.
Received(old, payload) ==
    SubSeq(old, 1, HeaderLength) \o payload
      \o SubSeq(old, HeaderLength + Len(payload) + 1, Len(old))

\* p is sent to a socket from which q is received: the length travels in network order.
Transfer(p, q) ==
    /\ pc = "idle" /\ Fits(p)
    /\ LET header == Length(p, SubSeq(buffer[p], HeaderLength + 1, Len(buffer[p])))
           payload == [i \in 1..Decoded(q, header) |-> At(p, HeaderLength + i)]
       IN  buffer' = [buffer EXCEPT ![p] = Received(header, SubSeq(@, HeaderLength + 1, Len(@))),
                                    ![q] = Received(@, payload)]
    /\ items' = [items EXCEPT ![q] = items[p]]
    /\ UNCHANGED <<call, buffer_read_index, stray>>

--------------------------------------------------------------------------------
Next ==
    \/ \E p \in Packets : \/ \E value \in Values : PackBegin(p, value)
                          \/ clear(p)
                          \/ \E raw \in Raws : set_buffer(p, raw)
    \/ \E link \in Links : Transfer(link[1], link[2])
    \/ \E p \in Read : \/ \E type \in Types : ExtractBegin(p, type)
                       \/ \E pos \in Positions : set_cursor(p, pos)
                       \/ \E pos \in Offsets : seek_cursor(p, pos)
    \/ Pack \/ PackEnd
    \/ Extract \/ Throw \/ ExtractEnd

Spec == Init /\ [][Next]_vars

--------------------------------------------------------------------------------
(* What C++ ensures of the applications' calls.                                *)

\* Types that applications extract, with those of the calls that these make.
Extractable(types) ==
    \A type \in types :
        \/ type.kind = "number" /\ type.width \in 0..UIntSize - 1
        \/ type.kind = "enum" /\ type.width \in 0..Word /\ type.signed \in BOOLEAN
        \/ type.kind = "raw" /\ type.count \in 0..UIntSize - 1
        \/ type.kind = "string" /\ \A n \in 0..UIntSize - 1 : [kind |-> "raw", count |-> n] \in types
        \/ type.kind \in {"vector", "map"} /\ type.of \in types
        \/ type.kind \in {"pair", "object"} /\ type.of \in Seq(types)

\* Values that they pack, with the parts of these: each has the content its type says.
Packable(values) ==
    \A value \in values :
        LET type == value.type
            content == value.content
        IN  /\ \/ /\ type.kind = "number" /\ type.width \in 0..UIntSize - 1
                  /\ content \in 0..Power[type.width] - 1
               \/ /\ type.kind = "enum" /\ type.width \in 0..Word /\ type.signed \in BOOLEAN
                  /\ content \in 0..Power[type.width] - 1
               \/ /\ type.kind = "string" /\ content.pointer \in BOOLEAN
                  /\ content.chars \in Seq(Byte) /\ Len(content.chars) < UIntSize
               \/ /\ type.kind = "raw" /\ content \in Seq(Byte) /\ Len(content) < UIntSize
                  /\ type.count = Len(content)
               \/ /\ type.kind \in {"vector", "map"} /\ Len(content) \in 0..UIntSize - 1
                  /\ DOMAIN content = 1..Len(content)
               \/ /\ type.kind \in {"pair", "object"} /\ Len(type.of) \in Nat
                  /\ type.of = [i \in 1..Len(type.of) |-> type.of[i]]
            /\ \A i \in DOMAIN Parts(type, content) : Parts(type, content)[i] \in values

--------------------------------------------------------------------------------
(* What must hold.                                                             *)

\* The cursor is within the buffer, header excluded, and get_bytes_remaining is the bytes
\* that are left, unless set_buffer has put another buffer under the cursor or set_cursor
\* was given a number that wraps.
CursorInside ==
    \A p \in Packets \ stray :
        /\ buffer_read_index[p] \in HeaderLength..Len(buffer[p])
        /\ buffer_read_index[p] + get_bytes_remaining(p) = Len(buffer[p])

\* The buffers hold bytes and at least a header area, the calls of an operator belong to
\* one packet, and the cursor is inside.
TypeOK ==
    /\ buffer \in [Packets -> Seq(Byte)] /\ \A p \in Packets : Len(buffer[p]) >= HeaderLength
    /\ buffer_read_index \in [Packets -> Nat]
    /\ pc \in {"idle", "packing", "extracting", "threw"}
    /\ object \in IF pc = "idle" THEN {None} ELSE Packets
    /\ pc = "idle" => todo = <<>> /\ got = <<>>
    /\ stray \subseteq Packets
    /\ CursorInside

\* What was packed is what is extracted (README.md:84: "in the same order as it was
\* packed"): an extraction that begins where a value was packed, with that value's type,
\* does not throw, assigns the value and ends where the value ends; on hosts of either byte
\* order, after a send and a receive into a packet that held something else, and whatever
\* was extracted, thrown or packed in between.
WrittenIsRead ==
    \A i \in (IF object \in Packets THEN DOMAIN items[object] ELSE {}) :
        LET item == items[object][i]
        IN  (begun.at = item.at /\ begun.type = item.type) =>
                /\ pc # "threw"
                /\ (pc = "extracting" /\ todo = <<>>) =>
                       got = item.leaves /\ buffer_read_index[object] = item.end

\* No extraction takes bytes from outside the buffer, whatever type it is told to take,
\* whatever lengths the packet holds and wherever the cursor was left: it moves the cursor
\* forward within the buffer or not at all (Packet.h:690: "to prevent buffer overflows").
ReadsInside ==
    [][\A p \in Packets : buffer_read_index'[p] > buffer_read_index[p] =>
           buffer_read_index'[p] <= Len(buffer[p])]_vars
================================================================================
