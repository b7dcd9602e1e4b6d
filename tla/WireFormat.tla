------------------------------ MODULE WireFormat ------------------------------
(***************************************************************************)
(* The encoding the content of a packet is in: tags, varints and the wire  *)
(* records made of them, as the inline code of coded_stream.h and          *)
(* wire_format_lite writes and reads it.  Bytes are numbers below 256.     *)
(*                                                                         *)
(* Numbers are not reduced modulo 2^32 and a varint may have any length:   *)
(* no number in a content of this program needs a fifth varint byte.       *)
(***************************************************************************)
EXTENDS Naturals, Sequences

\* WireFormatLite::WireType, without START_GROUP.
VARINT == 0
FIXED64 == 1
LENGTH_DELIMITED == 2
END_GROUP == 4
FIXED32 == 5

MakeTag(number, type) == number * 8 + type

GetTagFieldNumber(tag) == tag \div 8

GetTagWireType(tag) == tag % 8

Bytes == Seq(0 .. 255)

\* A field of a content; numbers begin at 1, and the end of a group has no value.
WireRecord ==
    [number : Nat \ {0}, type : {VARINT, END_GROUP}, value : Nat]
        \cup [number : Nat \ {0}, type : {LENGTH_DELIMITED}, value : Bytes]
        \cup [number : Nat \ {0}, type : {FIXED32}, value : [1 .. 4 -> 0 .. 255]]
        \cup [number : Nat \ {0}, type : {FIXED64}, value : [1 .. 8 -> 0 .. 255]]

-------------------------------------------------------------------------------
(* Writing.                                                                  *)

\* The base-128 digits, least significant first; all but the last have the high
\* bit set.
WriteVarint32[value \in Nat] ==
    IF value < 128 THEN <<value>>
                   ELSE <<(value % 128) + 128>> \o WriteVarint32[value \div 128]

\* The number of digits, for which VarintSize32Fallback has a comparison each.
VarintSize32Fallback[value \in Nat] ==
    IF value < 128 THEN 1 ELSE 1 + VarintSize32Fallback[value \div 128]

\* Faulty variant of VarintSize32: the wrong side of the boundary.
VarintSize32_At128(value) == IF value <= 128 THEN 1 ELSE VarintSize32Fallback[value]

VarintSize32(value) == IF value < 128 THEN 1 ELSE VarintSize32Fallback[value]

WriteString(number, value) ==
    WriteVarint32[MakeTag(number, LENGTH_DELIMITED)] \o WriteVarint32[Len(value)] \o value

WriteBool(number, value) ==
    WriteVarint32[MakeTag(number, VARINT)] \o (IF value THEN <<1>> ELSE <<0>>)

StringSize(value) == VarintSize32(Len(value)) + Len(value)

\* WireFormat::SerializeUnknownFieldsToArray, for one field.  A field is a wire
\* record [number, type, value], the value of a VARINT a number.
WriteUnknown(field) ==
    WriteVarint32[MakeTag(field.number, field.type)] \o
    (CASE field.type = VARINT -> WriteVarint32[field.value]
       [] field.type = LENGTH_DELIMITED -> WriteVarint32[Len(field.value)] \o field.value
       [] field.type \in {FIXED32, FIXED64} -> field.value
       [] field.type = END_GROUP -> << >>)

\* The fields of a sequence, one after the other.
WriteAll(fields) ==
    LET written[i \in 0 .. Len(fields)] ==
            IF i = 0 THEN << >> ELSE written[i - 1] \o WriteUnknown(fields[i])
    IN  written[Len(fields)]

-------------------------------------------------------------------------------
(* Reading.  A read that succeeds returns the value and the bytes after it.  *)

\* The positions where a varint at the front of the bytes may end: its last
\* digit, if it is there.
VarintEnds(bytes) ==
    {k \in 1 .. Len(bytes) : bytes[k] < 128 /\ \A j \in 1 .. k - 1 : bytes[j] >= 128}

\* Whether ReadVarint32 returns true.
VarintReadable(bytes) == VarintEnds(bytes) # {}

\* What ReadVarint32 stores: the digits, the last one first.
VarintValue(bytes) ==
    LET digits == CHOOSE k \in VarintEnds(bytes) : TRUE
        value[i \in 0 .. digits] ==
            IF i = 0 THEN 0 ELSE (bytes[digits + 1 - i] % 128) + 128 * value[i - 1]
    IN  value[digits]

Drop(bytes, n) == SubSeq(bytes, n + 1, Len(bytes))

AfterVarint(bytes) == Drop(bytes, CHOOSE k \in VarintEnds(bytes) : TRUE)

\* ReadTag: 0 when no tag can be read.
ReadTag(bytes) == IF VarintReadable(bytes) THEN VarintValue(bytes) ELSE 0

\* ExpectTag, for a tag below 128.
ExpectTag(bytes, expected) == bytes # << >> /\ bytes[1] = expected

===============================================================================
