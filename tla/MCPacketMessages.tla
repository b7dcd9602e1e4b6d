--------------------------- MODULE MCPacketMessages ---------------------------
(***************************************************************************)
(* PacketMessages with two objects, so that messages are merged, copied    *)
(* and swapped, and contents of up to two wire records.                    *)
(***************************************************************************)
EXTENDS PacketMessages

Rec(number, type, value) == [number |-> number, type |-> type, value |-> value]

\* A byte that is also the tag of ChatNotify.message, and the longest string whose
\* length needs one byte and the shortest that needs two.
Tag42 == <<42>>
Short == [i \in 1 .. 127 |-> 65]
Long == [i \in 1 .. 128 |-> 65]

\* Every field of packet.proto, and records of another version of it: another
\* type for a number that is known, numbers that are not, one with a tag of two
\* bytes, an end of a group.
WireRecords ==
    {Rec(n, LENGTH_DELIMITED, v) : n \in {1, 3, 4, 5}, v \in {<< >>, Tag42, Short, Long}}
        \cup {Rec(2, VARINT, v) : v \in {0, 1, 200}}
        \cup {Rec(1, VARINT, 200), Rec(16, LENGTH_DELIMITED, Tag42),
              Rec(5, FIXED32, <<1, 2, 3, 4>>), Rec(6, FIXED64, <<0, 0, 0, 0, 0, 0, 0, 0>>),
              Rec(4, END_GROUP, 0)}

MCContents ==
    {<< >>} \cup {<<r>> : r \in WireRecords} \cup (WireRecords \X WireRecords)

MCStrings == {Tag42}

===============================================================================
