---------------------------- MODULE PacketMessages ----------------------------
(***************************************************************************)
(* The messages a packet carries, as protoc generated them from            *)
(* packet.proto: LoginRequest, LoginResponse, ChatRequest and ChatNotify.  *)
(*                                                                         *)
(* The state is a record: the message objects of one class and the heap    *)
(* their strings live on.  Each method that a class generates is an        *)
(* operator from the state (and what it is called on) to the state it      *)
(* leaves, so that methods call each other as they do in the code; the     *)
(* actions are the calls a program makes.  Parsing takes one step for each *)
(* iteration of the loop in MergePartialFromCodedStream.                   *)
(***************************************************************************)
EXTENDS WireFormat, FiniteSets

CONSTANTS
    Objects,           \* message objects
    Cells,             \* the string objects `new` can return
    kEmptyString,      \* the string all unset string fields point to
    NULL,              \* no message object
    Strings,           \* the values strings are set to
    Contents,          \* sequences of wire records a content may be made of
    MaxUnknown,        \* bound on the unknown fields merged into one object
    MaxHeld,           \* bound on the strings the caller holds
    MaxCut             \* bound on the bytes a content is cut short by

Classes == {"LoginRequest", "LoginResponse", "ChatRequest", "ChatNotify"}
StringFields == {"name", "message"}

ASSUME MessagesAssumption ==
    /\ kEmptyString \notin Cells
    /\ IsFiniteSet(Cells)
    /\ NULL \notin Objects
    /\ Strings \subseteq Bytes
    /\ Contents \subseteq Seq(WireRecord)
    /\ MaxUnknown \in Nat /\ MaxHeld \in Nat /\ MaxCut \in Nat

VARIABLES
    class,             \* the class of all the objects
    state,             \* the objects and the heap: see Init
    target,            \* the object being parsed into, or NULL
    at,                \* where in MergePartialFromCodedStream
    input,             \* the bytes not read yet
    returned,          \* what it returned
    legitimate_message_end_,
    source,            \* history: the wire records the content was made of
    cut                \* history: how many bytes of them are missing

parse_vars == <<target, at, input, returned, legitimate_message_end_, source, cut>>
vars == <<class, state, parse_vars>>

-------------------------------------------------------------------------------
(* The accessors of a field.                                                 *)

\* new std::string.
new(s) == CHOOSE c \in Cells : c \notin s.allocated

\* The string a field points to.
string(s, o, f) == s.heap[s.ptr[o][f]]

\* Faulty variant of mutable: the shared empty string is handed out.
mutable_NoNew(s, o, f) == [s EXCEPT !.has[o] = @ \cup {f}]

\* mutable_name.
mutable(s, o, f) ==
    LET marked == [s EXCEPT !.has[o] = @ \cup {f}] IN
    IF s.ptr[o][f] # kEmptyString
    THEN marked
    ELSE [marked EXCEPT !.ptr[o][f] = new(s), !.heap[new(s)] = << >>,
                         !.allocated = @ \cup {new(s)}]

\* set_name, in any of its three forms.
set(s, o, f, value) ==
    LET t == mutable(s, o, f) IN [t EXCEPT !.heap[t.ptr[o][f]] = value]

\* clear_name.
clear(s, o, f) ==
    LET t == [s EXCEPT !.has[o] = @ \ {f}] IN
    IF t.ptr[o][f] = kEmptyString THEN t ELSE [t EXCEPT !.heap[t.ptr[o][f]] = << >>]

\* Faulty variants of release: the caller gets the shared string too, or the field
\* keeps the string as well.
release_Shared(s, o, f) ==
    [s EXCEPT !.has[o] = @ \ {f},
              !.ptr[o][f] = kEmptyString,
              !.held = @ \cup {s.ptr[o][f]}]
release_Keeps(s, o, f) ==
    [s EXCEPT !.has[o] = @ \ {f},
              !.held = IF s.ptr[o][f] = kEmptyString THEN @ ELSE @ \cup {s.ptr[o][f]}]

\* release_name: the caller holds what the field pointed to, if that was a
\* string of its own.
release(s, o, f) ==
    [s EXCEPT !.has[o] = @ \ {f},
              !.ptr[o][f] = kEmptyString,
              !.held = IF s.ptr[o][f] = kEmptyString THEN @ ELSE @ \cup {s.ptr[o][f]}]

\* delete, unless the string is the shared one.
delete(s, c) ==
    IF c = kEmptyString THEN s ELSE [s EXCEPT !.heap[c] = << >>, !.allocated = @ \ {c}]

\* Faulty variant of set_allocated: the old string is not deleted.
set_allocated_Leaks(s, o, f, c) ==
    IF c # NULL
    THEN [s EXCEPT !.has[o] = @ \cup {f}, !.ptr[o][f] = c, !.held = @ \ {c}]
    ELSE [s EXCEPT !.has[o] = @ \ {f}, !.ptr[o][f] = kEmptyString]

\* set_allocated_name, with a string the caller holds or NULL.
set_allocated(s, o, f, c) ==
    LET t == delete(s, s.ptr[o][f]) IN
    IF c # NULL
    THEN [t EXCEPT !.has[o] = @ \cup {f}, !.ptr[o][f] = c, !.held = @ \ {c}]
    ELSE [t EXCEPT !.has[o] = @ \ {f}, !.ptr[o][f] = kEmptyString]

set_success(s, o, value) == [s EXCEPT !.success[o] = value, !.has[o] = @ \cup {"success"}]
clear_success(s, o) == [s EXCEPT !.success[o] = FALSE, !.has[o] = @ \ {"success"}]

-------------------------------------------------------------------------------
(* What every class does in the same way.                                    *)

\* SharedCtor.
SharedCtor(s, o) ==
    [s EXCEPT !.alive = @ \cup {o}, !.has[o] = {}, !.success[o] = FALSE,
              !.unknown[o] = << >>, !.ptr[o] = [f \in StringFields |-> kEmptyString]]

\* SharedDtor, where f ranges over the string fields of the class: the fields it
\* does not have still point to the shared string.
destroyed(s, o) ==
    [delete(delete(s, s.ptr[o]["name"]), s.ptr[o]["message"])
        EXCEPT !.alive = @ \ {o}, !.has[o] = {}, !.success[o] = FALSE,
               !.unknown[o] = << >>, !.ptr[o] = [f \in StringFields |-> kEmptyString]]

\* In Clear: the string of a field that is set is emptied and kept.
emptied(s, o, f) ==
    IF f \in s.has[o] /\ s.ptr[o][f] # kEmptyString
    THEN [s EXCEPT !.heap[s.ptr[o][f]] = << >>]
    ELSE s

\* At the end of Clear: memset of _has_bits_, and mutable_unknown_fields()->Clear().
reset(s, o) == [s EXCEPT !.has[o] = {}, !.unknown[o] = << >>]

\* In MergeFrom: a field that is set in the other message is copied from it.
copied(s, o, from, f) ==
    IF f \in s.has[from] THEN set(s, o, f, string(s, from, f)) ELSE s

\* At the end of MergeFrom.
merged(s, o, from) == [s EXCEPT !.unknown[o] = @ \o s.unknown[from]]

\* In Swap.
swapped(o, p, part) == [part EXCEPT ![o] = part[p], ![p] = part[o]]

\* What Serialize writes of a string field, and ByteSize counts.
StringWritten(s, o, f, number) ==
    IF f \in s.has[o] THEN WriteString(number, string(s, o, f)) ELSE << >>
StringCounted(s, o, f) == IF f \in s.has[o] THEN 1 + StringSize(string(s, o, f)) ELSE 0

ComputeUnknownFieldsSize(s, o) == Len(WriteAll(s.unknown[o]))

-------------------------------------------------------------------------------
(* LoginRequest.                                                             *)

LoginRequest_Clear(s, o) == reset(emptied(s, o, "name"), o)

LoginRequest_MergeFrom(s, o, from) == merged(copied(s, o, from, "name"), o, from)

LoginRequest_IsInitialized(s, o) == "name" \in s.has[o]

LoginRequest_Serialize(s, o) == StringWritten(s, o, "name", 1) \o WriteAll(s.unknown[o])

LoginRequest_ByteSize(s, o) == StringCounted(s, o, "name") + ComputeUnknownFieldsSize(s, o)

-------------------------------------------------------------------------------
(* LoginResponse.                                                            *)

LoginResponse_Clear(s, o) ==
    reset(IF s.has[o] # {} THEN [s EXCEPT !.success[o] = FALSE] ELSE s, o)

LoginResponse_MergeFrom(s, o, from) ==
    merged(IF "success" \in s.has[from] THEN set_success(s, o, s.success[from]) ELSE s,
           o, from)

LoginResponse_IsInitialized(s, o) == "success" \in s.has[o]

LoginResponse_Serialize(s, o) ==
    (IF "success" \in s.has[o] THEN WriteBool(2, s.success[o]) ELSE << >>)
        \o WriteAll(s.unknown[o])

LoginResponse_ByteSize(s, o) ==
    (IF "success" \in s.has[o] THEN 1 + 1 ELSE 0) + ComputeUnknownFieldsSize(s, o)

-------------------------------------------------------------------------------
(* ChatRequest.                                                              *)

ChatRequest_Clear(s, o) == reset(emptied(s, o, "message"), o)

ChatRequest_MergeFrom(s, o, from) == merged(copied(s, o, from, "message"), o, from)

ChatRequest_IsInitialized(s, o) == "message" \in s.has[o]

ChatRequest_Serialize(s, o) ==
    StringWritten(s, o, "message", 3) \o WriteAll(s.unknown[o])

ChatRequest_ByteSize(s, o) ==
    StringCounted(s, o, "message") + ComputeUnknownFieldsSize(s, o)

-------------------------------------------------------------------------------
(* ChatNotify.                                                               *)

\* Faulty variant of ChatNotify_Clear: the bits are cleared first.
ChatNotify_Clear_BitsFirst(s, o) ==
    LET t == reset(s, o) IN emptied(emptied(t, o, "name"), o, "message")

ChatNotify_Clear(s, o) == reset(emptied(emptied(s, o, "name"), o, "message"), o)

ChatNotify_MergeFrom(s, o, from) ==
    merged(copied(copied(s, o, from, "name"), o, from, "message"), o, from)

\* Faulty variant of ChatNotify_IsInitialized: the mask has one bit only.
ChatNotify_IsInitialized_OneBit(s, o) == "name" \in s.has[o]

ChatNotify_IsInitialized(s, o) == {"name", "message"} \subseteq s.has[o]

ChatNotify_Serialize(s, o) ==
    StringWritten(s, o, "name", 4) \o StringWritten(s, o, "message", 5)
        \o WriteAll(s.unknown[o])

ChatNotify_ByteSize(s, o) ==
    StringCounted(s, o, "name") + StringCounted(s, o, "message")
        + ComputeUnknownFieldsSize(s, o)

-------------------------------------------------------------------------------
(* Calls through Message: the method of the class.                           *)

Clear(s, o) ==
    CASE class = "LoginRequest" -> LoginRequest_Clear(s, o)
      [] class = "LoginResponse" -> LoginResponse_Clear(s, o)
      [] class = "ChatRequest" -> ChatRequest_Clear(s, o)
      [] class = "ChatNotify" -> ChatNotify_Clear(s, o)

MergeFrom(s, o, from) ==
    CASE class = "LoginRequest" -> LoginRequest_MergeFrom(s, o, from)
      [] class = "LoginResponse" -> LoginResponse_MergeFrom(s, o, from)
      [] class = "ChatRequest" -> ChatRequest_MergeFrom(s, o, from)
      [] class = "ChatNotify" -> ChatNotify_MergeFrom(s, o, from)

IsInitialized(s, o) ==
    CASE class = "LoginRequest" -> LoginRequest_IsInitialized(s, o)
      [] class = "LoginResponse" -> LoginResponse_IsInitialized(s, o)
      [] class = "ChatRequest" -> ChatRequest_IsInitialized(s, o)
      [] class = "ChatNotify" -> ChatNotify_IsInitialized(s, o)

Serialize(s, o) ==
    CASE class = "LoginRequest" -> LoginRequest_Serialize(s, o)
      [] class = "LoginResponse" -> LoginResponse_Serialize(s, o)
      [] class = "ChatRequest" -> ChatRequest_Serialize(s, o)
      [] class = "ChatNotify" -> ChatNotify_Serialize(s, o)

ByteSize(s, o) ==
    CASE class = "LoginRequest" -> LoginRequest_ByteSize(s, o)
      [] class = "LoginResponse" -> LoginResponse_ByteSize(s, o)
      [] class = "ChatRequest" -> ChatRequest_ByteSize(s, o)
      [] class = "ChatNotify" -> ChatNotify_ByteSize(s, o)

-------------------------------------------------------------------------------
(* Parsing.                                                                  *)

body == AfterVarint(input)

\* The tag read is that of a field with this number and wire type.
FieldIs(number, type) ==
    /\ ReadTag(input) # 0
    /\ GetTagFieldNumber(ReadTag(input)) = number
    /\ GetTagWireType(ReadTag(input)) = type

return(value, at_end) ==
    /\ at' = "return"
    /\ returned' = value
    /\ legitimate_message_end_' = at_end
    /\ input' = << >>

continue(label, bytes) ==
    /\ at' = label
    /\ input' = bytes
    /\ UNCHANGED <<returned, legitimate_message_end_>>

\* if (input->ExpectAtEnd()) return true; break;
ExpectAtEnd(bytes) ==
    \/ bytes = << >> /\ return(TRUE, TRUE)
    \/ bytes # << >> /\ continue("ReadTag", bytes)

\* The loop ends: ReadTag returned 0, at the end of the content or not.
NoTag ==
    /\ ReadTag(input) = 0
    /\ return(TRUE, input = << >>)
    /\ UNCHANGED state

\* A length, and as many bytes.
StringReadable(bytes) ==
    VarintReadable(bytes) /\ VarintValue(bytes) <= Len(AfterVarint(bytes))
StringValue(bytes) == SubSeq(AfterVarint(bytes), 1, VarintValue(bytes))
AfterString(bytes) == Drop(AfterVarint(bytes), VarintValue(bytes))

\* Faulty variant of ReadString: one that is cut short is taken as it is.
ReadString_NoCheck(f, bytes) ==
    /\ VarintReadable(bytes)
    /\ state' = set(state, target, f,
                    IF StringReadable(bytes) THEN StringValue(bytes) ELSE AfterVarint(bytes))

\* WireFormatLite::ReadString into mutable_name() that succeeds.
ReadString(f, bytes) ==
    /\ StringReadable(bytes)
    /\ state' = set(state, target, f, StringValue(bytes))

\* One that fails: mutable_name() has been called, and the string is left with
\* the bytes there are if a length could be read.
ReadStringFails(f, bytes) ==
    /\ ~StringReadable(bytes)
    /\ state' = IF VarintReadable(bytes)
                THEN set(state, target, f, AfterVarint(bytes))
                ELSE mutable(state, target, f)
    /\ return(FALSE, FALSE)

\* Whether a value of a wire type is there, what it is, and what is after it.
ValueReadable(type, bytes) ==
    \/ type = VARINT /\ VarintReadable(bytes)
    \/ type = LENGTH_DELIMITED /\ StringReadable(bytes)
    \/ type = FIXED32 /\ Len(bytes) >= 4
    \/ type = FIXED64 /\ Len(bytes) >= 8
ValueRead(type, bytes) ==
    CASE type = VARINT -> VarintValue(bytes)
      [] type = LENGTH_DELIMITED -> StringValue(bytes)
      [] type = FIXED32 -> SubSeq(bytes, 1, 4)
      [] type = FIXED64 -> SubSeq(bytes, 1, 8)
AfterValue(type, bytes) ==
    CASE type = VARINT -> AfterVarint(bytes)
      [] type = LENGTH_DELIMITED -> AfterString(bytes)
      [] type = FIXED32 -> Drop(bytes, 4)
      [] type = FIXED64 -> Drop(bytes, 8)

AddUnknown(number, type, value) ==
    state' = [state EXCEPT !.unknown[target] =
                 Append(@, [number |-> number, type |-> type, value |-> value])]

\* WireFormat::SkipField, but for groups: the field is added to the unknown ones;
\* one with a length is added before its bytes are read.
SkipField ==
    LET number == GetTagFieldNumber(ReadTag(input))
        type == GetTagWireType(ReadTag(input))
    IN
    \/ /\ ValueReadable(type, body)
       /\ AddUnknown(number, type, ValueRead(type, body))
       /\ continue("ReadTag", AfterValue(type, body))
    \/ /\ ~ValueReadable(type, body)
       /\ \/ /\ type = LENGTH_DELIMITED /\ VarintReadable(body)
             /\ AddUnknown(number, type, AfterVarint(body))
          \/ /\ ~(type = LENGTH_DELIMITED /\ VarintReadable(body))
             /\ UNCHANGED state
       /\ return(FALSE, FALSE)

\* handle_uninterpreted.
HandleUninterpreted ==
    \/ /\ GetTagWireType(ReadTag(input)) = END_GROUP
       /\ return(TRUE, FALSE)
       /\ UNCHANGED state
    \/ /\ GetTagWireType(ReadTag(input)) # END_GROUP
       /\ SkipField

\* A class with one string field: the body of the loop.
OneString(f, number) ==
    \/ NoTag
    \/ /\ FieldIs(number, LENGTH_DELIMITED)
       /\ \/ ReadString(f, body) /\ ExpectAtEnd(AfterString(body))
          \/ ReadStringFails(f, body)
    \/ /\ ReadTag(input) # 0 /\ ~FieldIs(number, LENGTH_DELIMITED)
       /\ HandleUninterpreted

LoginRequest_MergePartialFromCodedStream ==
    class = "LoginRequest" /\ at = "ReadTag" /\ OneString("name", 1)

ChatRequest_MergePartialFromCodedStream ==
    class = "ChatRequest" /\ at = "ReadTag" /\ OneString("message", 3)

LoginResponse_MergePartialFromCodedStream ==
    /\ class = "LoginResponse"
    /\ at = "ReadTag"
    /\ \/ NoTag
       \/ /\ FieldIs(2, VARINT)
          /\ \/ /\ VarintReadable(body)
                /\ state' = set_success(state, target, VarintValue(body) # 0)
                /\ ExpectAtEnd(AfterVarint(body))
             \/ ~VarintReadable(body) /\ UNCHANGED state /\ return(FALSE, FALSE)
       \/ /\ ReadTag(input) # 0 /\ ~FieldIs(2, VARINT)
          /\ HandleUninterpreted

\* Faulty variant of ReadMessage: nothing is read behind the message.
ReadMessage_Returns(bytes) ==
    \/ ReadString("message", bytes) /\ return(TRUE, TRUE)
    \/ ReadStringFails("message", bytes)

\* From the label parse_message on.
ReadMessage(bytes) ==
    \/ ReadString("message", bytes) /\ ExpectAtEnd(AfterString(bytes))
    \/ ReadStringFails("message", bytes)

ChatNotify_MergePartialFromCodedStream ==
    /\ class = "ChatNotify"
    /\ \/ at = "parse_message" /\ ReadMessage(input)
       \/ at = "ReadTag" /\ NoTag
       \/ /\ at = "ReadTag" /\ FieldIs(4, LENGTH_DELIMITED)
          /\ \/ /\ ReadString("name", body)
                /\ \/ /\ ExpectTag(AfterString(body), 42)
                      /\ continue("parse_message", Drop(AfterString(body), 1))
                   \/ /\ ~ExpectTag(AfterString(body), 42)
                      /\ continue("ReadTag", AfterString(body))
             \/ ReadStringFails("name", body)
       \/ at = "ReadTag" /\ FieldIs(5, LENGTH_DELIMITED) /\ ReadMessage(body)
       \/ /\ at = "ReadTag" /\ ReadTag(input) # 0
          /\ ~FieldIs(4, LENGTH_DELIMITED) /\ ~FieldIs(5, LENGTH_DELIMITED)
          /\ HandleUninterpreted

-------------------------------------------------------------------------------
(* The calls a program makes.                                                *)

\* The fields of packet.proto, in the order of their numbers.
Field(f, number, type) == [field |-> f, number |-> number, type |-> type]
Schema ==
    [LoginRequest  |-> <<Field("name", 1, LENGTH_DELIMITED)>>,
     LoginResponse |-> <<Field("success", 2, VARINT)>>,
     ChatRequest   |-> <<Field("message", 3, LENGTH_DELIMITED)>>,
     ChatNotify    |-> <<Field("name", 4, LENGTH_DELIMITED),
                         Field("message", 5, LENGTH_DELIMITED)>>]

SchemaFields == {Schema[class][i] : i \in 1 .. Len(Schema[class])}

Init ==
    /\ class \in Classes
    /\ state = [alive   |-> {},
                has     |-> [o \in Objects |-> {}],
                ptr     |-> [o \in Objects |-> [f \in StringFields |-> kEmptyString]],
                success |-> [o \in Objects |-> FALSE],
                unknown |-> [o \in Objects |-> << >>],
                heap    |-> [c \in Cells \cup {kEmptyString} |-> << >>],
                allocated |-> {},
                held    |-> {}]
    /\ target = NULL
    /\ at = "idle"
    /\ input = << >>
    /\ returned = FALSE
    /\ legitimate_message_end_ = FALSE
    /\ source = << >>
    /\ cut = 0

\* No call is under way; a call changes nothing but the objects.
Call(next) ==
    /\ at = "idle"
    /\ state' = next
    /\ UNCHANGED <<class, parse_vars>>

\* There is memory for the strings a call makes for fields of an object, if they
\* have none of their own.
Room(o, fields) ==
    LET needing == {f \in fields : state.ptr[o][f] = kEmptyString} IN
    \E c \in [needing -> Cells \ state.allocated] :
        \A f, g \in needing : c[f] = c[g] => f = g

Construct(o) == o \notin state.alive /\ Call(SharedCtor(state, o))

CopyConstruct(o, from) ==
    /\ o \notin state.alive /\ from \in state.alive
    /\ Room(o, state.has[from] \cap StringFields)
    /\ Call(MergeFrom(SharedCtor(state, o), o, from))

Destroy(o) == o \in state.alive /\ Call(destroyed(state, o))

\* A string the caller makes, to hand it over; one it got back or never used.
NewString(value) ==
    /\ Cells # state.allocated
    /\ Cardinality(state.held) < MaxHeld
    /\ Call([state EXCEPT !.heap[new(state)] = value,
                          !.allocated = @ \cup {new(state)},
                          !.held = @ \cup {new(state)}])
DeleteString(c) ==
    /\ c \in state.held
    /\ Call([delete(state, c) EXCEPT !.held = @ \ {c}])

StringCall(o, f) ==
    /\ o \in state.alive
    /\ \/ Room(o, {f}) /\ \E value \in Strings : Call(set(state, o, f, value))
       \/ Room(o, {f}) /\ Call(mutable(state, o, f))
       \/ Call(clear(state, o, f))
       \/ Cardinality(state.held) < MaxHeld /\ Call(release(state, o, f))
       \/ \E c \in state.held \cup {NULL} : Call(set_allocated(state, o, f, c))

LoginRequest_name(o) == class = "LoginRequest" /\ StringCall(o, "name")
ChatRequest_message(o) == class = "ChatRequest" /\ StringCall(o, "message")
ChatNotify_name(o) == class = "ChatNotify" /\ StringCall(o, "name")
ChatNotify_message(o) == class = "ChatNotify" /\ StringCall(o, "message")

LoginResponse_success(o) ==
    /\ class = "LoginResponse"
    /\ o \in state.alive
    /\ \/ \E value \in BOOLEAN : Call(set_success(state, o, value))
       \/ Call(clear_success(state, o))

\* mutable_unknown_fields()->AddVarint.
UnknownCall(o) ==
    /\ o \in state.alive
    /\ Len(state.unknown[o]) < MaxUnknown
    /\ Call([state EXCEPT !.unknown[o] = Append(@, [number |-> 7, type |-> VARINT, value |-> 1])])

ClearCall(o) == o \in state.alive /\ Call(Clear(state, o))

\* MergeFrom checks that its argument is another message.
MergeCall(o, from) ==
    /\ o # from /\ {o, from} \subseteq state.alive
    /\ Room(o, state.has[from] \cap StringFields)
    /\ Len(state.unknown[o]) + Len(state.unknown[from]) <= MaxUnknown
    /\ Call(MergeFrom(state, o, from))

\* Faulty variant of CopyFrom: the message is not cleared first.
CopyFrom_NoClear(s, o, from) == MergeFrom(s, o, from)

CopyFrom(s, o, from) == MergeFrom(Clear(s, o), o, from)

CopyCall(o, from) ==
    /\ o # from /\ {o, from} \subseteq state.alive
    /\ Room(o, state.has[from] \cap StringFields)
    /\ Call(CopyFrom(state, o, from))

SwapCall(o, p) ==
    /\ o # p /\ {o, p} \subseteq state.alive
    /\ Call([state EXCEPT !.has = swapped(o, p, @), !.ptr = swapped(o, p, @),
                          !.success = swapped(o, p, @), !.unknown = swapped(o, p, @)])

\* The value of a field as a wire record has it.
Value(s, o, f) ==
    IF f = "success" THEN (IF s.success[o] THEN 1 ELSE 0) ELSE string(s, o, f)

\* The wire records a message stands for: those of the fields of its class that
\* are set, and the unknown ones.
FieldRecords(s, o, x) ==
    IF x.field \in s.has[o]
    THEN <<[number |-> x.number, type |-> x.type, value |-> Value(s, o, x.field)]>>
    ELSE << >>
Records(s, o) ==
    LET fields == Schema[class] IN
    FieldRecords(s, o, fields[1])
        \o (IF Len(fields) > 1 THEN FieldRecords(s, o, fields[2]) ELSE << >>)
        \o s.unknown[o]

\* MessageLite::ParseFromArray begins: records is what the content was made of.
ParseFromArray(o, records, bytes, missing) ==
    /\ at = "idle"
    /\ o \in state.alive
    /\ Room(o, {x.field : x \in SchemaFields} \cap StringFields)
    /\ missing <= Len(bytes)
    /\ state' = Clear(state, o)
    /\ target' = o
    /\ at' = "ReadTag"
    /\ input' = SubSeq(bytes, 1, Len(bytes) - missing)
    /\ source' = records
    /\ cut' = missing
    /\ UNCHANGED <<class, returned, legitimate_message_end_>>

\* The content of another message, or, into an object just made as process_packet
\* does, one of Contents.
ParseCall(o) ==
    \E missing \in 0 .. MaxCut :
        \/ \E p \in state.alive \ {o} :
              ParseFromArray(o, Records(state, p), Serialize(state, p), missing)
        \/ /\ state.alive = {o} /\ state.allocated = {}
           /\ state.has[o] = {} /\ state.unknown[o] = << >>
           /\ \E records \in Contents :
                  ParseFromArray(o, records, WriteAll(records), missing)

MergePartialFromCodedStream ==
    /\ \/ LoginRequest_MergePartialFromCodedStream
       \/ LoginResponse_MergePartialFromCodedStream
       \/ ChatRequest_MergePartialFromCodedStream
       \/ ChatNotify_MergePartialFromCodedStream
    /\ UNCHANGED <<class, target, source, cut>>

\* ParseFromArray returns; process_packet does not look at what.  A message alone
\* is one of process_packet, which ends.
ParseReturns ==
    /\ at = "return"
    /\ state' = IF state.alive = {target} THEN destroyed(state, target) ELSE state
    /\ at' = "idle"
    /\ target' = NULL
    /\ returned' = FALSE
    /\ legitimate_message_end_' = FALSE
    /\ source' = << >>
    /\ cut' = 0
    /\ UNCHANGED <<class, input>>

Next ==
    \/ \E o \in Objects : Construct(o) \/ Destroy(o) \/ ClearCall(o) \/ ParseCall(o)
                        \/ UnknownCall(o)
    \/ \E o, p \in Objects :
          CopyConstruct(o, p) \/ MergeCall(o, p) \/ CopyCall(o, p) \/ SwapCall(o, p)
    \/ \E value \in Strings : NewString(value)
    \/ \E c \in Cells : DeleteString(c)
    \/ \E o \in Objects :
          \/ LoginRequest_name(o) \/ LoginResponse_success(o)
          \/ ChatRequest_message(o) \/ ChatNotify_name(o) \/ ChatNotify_message(o)
    \/ MergePartialFromCodedStream
    \/ ParseReturns

Spec == Init /\ [][Next]_vars

-------------------------------------------------------------------------------
(* Properties.                                                               *)

StateOK ==
    state \in
        [alive : SUBSET Objects,
         has : [Objects -> SUBSET (StringFields \cup {"success"})],
         ptr : [Objects -> [StringFields -> Cells \cup {kEmptyString}]],
         success : [Objects -> BOOLEAN],
         unknown : [Objects -> Seq(WireRecord)],
         heap : [Cells \cup {kEmptyString} -> Bytes],
         allocated : SUBSET Cells,
         held : SUBSET Cells]

TypeOK ==
    /\ class \in Classes
    /\ StateOK
    /\ at \in {"idle", "ReadTag", "parse_message", "return"}
    /\ IF at = "idle" THEN target = NULL ELSE target \in state.alive
    /\ input \in Bytes
    /\ returned \in BOOLEAN /\ legitimate_message_end_ \in BOOLEAN
    /\ source \in Seq(WireRecord) /\ cut \in Nat

\* Every string has one owner, a field or the caller, and what is owned is
\* allocated: no call deletes a string twice, uses one that was deleted, or leaks
\* one (packet.pb.h:404 and on; SharedDtor).
OneOwner ==
    /\ \A c \in Cells :
          c \in state.allocated <=>
              \/ c \in state.held
              \/ \E o \in Objects, f \in StringFields : state.ptr[o][f] = c
    /\ \A o \in Objects, f \in StringFields :
          state.ptr[o][f] # kEmptyString =>
              /\ o \in state.alive /\ state.ptr[o][f] \notin state.held
              /\ \A p \in Objects, g \in StringFields :
                    state.ptr[p][g] = state.ptr[o][f] => p = o /\ g = f

\* The empty string that all unset fields of all messages share, in both threads,
\* is never written (mutable_name returns a pointer into it or a string).
EmptyStringIntact == state.heap[kEmptyString] = << >>

\* A field whose has bit is off has its default value, whatever it was set to
\* before: Clear relies on it when it skips such a field, and the accessors, which
\* do not look at the bit, are called whether parsing succeeded or not.
NoStaleValue ==
    \A o \in state.alive :
        /\ \A f \in StringFields : f \notin state.has[o] => string(state, o, f) = << >>
        /\ "success" \notin state.has[o] => ~state.success[o]

\* A copy serialises as its original does, whatever it held before.
CopyIsEqual ==
    [][\A o, p \in Objects : CopyCall(o, p) => Serialize(state, p) = Serialize(state, o)']_vars

\* ByteSize, which build_packet is given, is what Serialize writes.
SizesAgree ==
    \A o \in state.alive : ByteSize(state, o) = Len(Serialize(state, o))

\* What ParseFromArray returns.
Parsed == returned /\ legitimate_message_end_ /\ IsInitialized(state, target)

\* The positions in source of the records of a field.
Occurrences(x) ==
    {i \in 1 .. Len(source) : source[i].number = x.number /\ source[i].type = x.type}

\* A field has the value that a record has for it: of a bool, anything but 0 is true.
Holds(x, value) ==
    IF x.type = VARINT
    THEN state.success[target] = (value # 0)
    ELSE string(state, target, x.field) = value

\* The records up to each position that are no field of packet.proto, in order.
OtherRecords ==
    LET others[i \in 0 .. Len(source)] ==
            IF i = 0 THEN << >>
            ELSE IF \E x \in SchemaFields : i \in Occurrences(x)
                 THEN others[i - 1]
                 ELSE Append(others[i - 1], source[i])
    IN  others

\* No record of the content ends a group, which ends the message.
NoGroup == \A i \in 1 .. Len(source) : source[i].type # END_GROUP

\* The parser has taken the first k records and no more: each field has the last
\* value they have for it, every other record is kept as an unknown field, in
\* order, and parsing succeeds if and only if no field of packet.proto is missing.
ParsedTo(k) ==
    LET taken(x) == {i \in Occurrences(x) : i <= k} IN
    /\ Parsed <=> \A x \in SchemaFields : taken(x) # {}
    /\ \A x \in SchemaFields :
          IF taken(x) = {}
          THEN x.field \notin state.has[target]
          ELSE \E i \in taken(x) :
                  (\A j \in taken(x) : j <= i) /\ Holds(x, source[i].value)
    /\ state.unknown[target] = OtherRecords[k]

\* The bytes that are missing are those of the records behind the first k.
CutBehind(k) == Len(WriteAll(SubSeq(source, k + 1, Len(source)))) = cut

\* Of a whole content all records are taken; above all, a message is parsed as it
\* was serialised.
ParsedAsWritten == at = "return" /\ cut = 0 /\ NoGroup => ParsedTo(Len(source))

\* A content that is cut short behind a record is parsed as that many records, and
\* may succeed; one that is cut inside a record is refused.  What a string field
\* holds then, and the callers use, is the beginning of what was sent, or nothing
\* (chatting_server.cpp:77 ignores the result).
CutContent ==
    at = "return" /\ cut > 0 =>
        /\ NoGroup =>
              \/ \E k \in 0 .. Len(source) - 1 : CutBehind(k) /\ ParsedTo(k)
              \/ (\A k \in 0 .. Len(source) : ~CutBehind(k)) /\ ~Parsed
        /\ \A x \in SchemaFields :
              x.type = LENGTH_DELIMITED =>
                  \/ string(state, target, x.field) = << >>
                  \/ \E i \in Occurrences(x) :
                        \E k \in 0 .. Len(source[i].value) :
                            string(state, target, x.field) = SubSeq(source[i].value, 1, k)

===============================================================================
