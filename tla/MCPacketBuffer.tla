------------------------------ MODULE MCPacketBuffer ------------------------------
(* Instances of PacketBuffer for TLC: a little-endian and a big-endian host. *)
EXTENDS PacketBuffer, Functions

CONSTANTS a, b

Short == [kind |-> "number", width |-> 2]
Enum == [kind |-> "enum", width |-> 1, signed |-> TRUE]
Text == [kind |-> "string"]
Raw == [kind |-> "raw", count |-> 1]
Entry == [kind |-> "pair", of |-> <<Enum, Text>>]
Map == [kind |-> "map", of |-> Entry]

Value(type, content) == [type |-> type, content |-> content]

String(bytes) == [pointer |-> FALSE, chars |-> bytes]
Pointer(bytes) == [pointer |-> TRUE, chars |-> bytes]

\* A Packetable: what it packs a char pointer into is read as a string.
Object == [kind |-> "object", of |-> <<Short, Text, Raw>>]

PackedValues == {Value(Map, <<<<2, String(<<>>)>>, <<1, String(<<3>>)>>>>),
                 Value(Object, <<1, Pointer(<<2, 0, 1>>), <<3>>>>)}
ExtractedTypes == {Map, Object}

\* These applications are well typed: what they pack, and the parts of it and of these; what
\* they extract, and the calls that this makes.
WithParts(values) == values \cup UNION {Range(Parts(value.type, value.content)) : value \in values}
ASSUME PackedWell == Packable(WithParts(WithParts(PackedValues)))
ASSUME ExtractedWell ==
    Extractable(ExtractedTypes \cup {Entry, Enum, Short, Text}
                  \cup {[kind |-> "raw", count |-> n] : n \in 0..UIntSize - 1})

RawBuffers == {<<0, 0, 2>>}
AToB == {<<a, b>>}
\* Back by one, and so far forward that the sum is a negative ssize_t.
Jumps == {-1, 40}
================================================================================
