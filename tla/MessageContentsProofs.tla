------------------------ MODULE MessageContentsProofs ------------------------
(***************************************************************************)
(* Proofs about what the messages of PacketMessages hold and are written   *)
(* as, for every set of objects and strings: a message is parsed as it was *)
(* serialised, a copy serialises as its original does, ByteSize is what    *)
(* Serialize writes, and a content that is cut short is refused.           *)
(***************************************************************************)
EXTENDS PacketMessagesProofs, WireFormatProofs

-------------------------------------------------------------------------------
(* What the parser reads of what was written.                                *)

\* A length and a string are read as they were written.
LEMMA StringRead ==
    ASSUME NEW v \in Bytes, NEW rest \in Bytes, NEW b,
           b = (WriteVarint32[Len(v)] \o v) \o rest
    PROVE  /\ StringReadable(b) /\ StringValue(b) = v /\ AfterString(b) = rest
<1> DEFINE n == Len(v)
           w == WriteVarint32[n]
           d == v \o rest
<1>1. n \in Nat
  BY BytesFacts
<1>2. d \in Bytes /\ Len(d) = n + Len(rest) /\ Len(rest) \in Nat
  BY BytesConcat, BytesFacts
<1>3. w \in Bytes
  <2> HIDE DEF n
  <2> QED
    BY <1>1, VarintWritten
<1>4. b = w \o d
  <2>1. b = (w \o v) \o rest
    OBVIOUS
  <2> HIDE DEF w, n
  <2>2. (w \o v) \o rest = w \o (v \o rest)
    BY <1>3, BytesJoin
  <2> QED
    BY <2>1, <2>2
<1> HIDE DEF d, n
<1>5. VarintReadable(b) /\ VarintValue(b) = n /\ AfterVarint(b) = d
  BY <1>1, <1>2, <1>4, VarintRead
<1>6. SubSeq(d, 1, n) = v /\ Drop(d, n) = rest
  BY DropJoin DEF d, n
<1> QED
  BY <1>1, <1>2, <1>5, <1>6 DEF StringReadable, StringValue, AfterString

\* A string that is cut short is not read; if its length is, a beginning is left.
LEMMA StringCut ==
    ASSUME NEW v \in Bytes, NEW b, Begins(b, WriteVarint32[Len(v)] \o v)
    PROVE  ~StringReadable(b) /\ (VarintReadable(b) => Begins(AfterVarint(b), v))
<1> DEFINE n == Len(v)
           w == WriteVarint32[n]
<1>1. n \in Nat
  BY BytesFacts
<1>3. w \in Bytes
  <2> HIDE DEF n
  <2> QED
    BY <1>1, VarintWritten
<1>4. Begins(b, w \o v)
  OBVIOUS
<1>5. CASE Begins(b, w)
  <2>1. ~VarintReadable(b)
    <3> HIDE DEF n
    <3>1. /\ b \in Bytes /\ Len(b) \in Nat /\ Len(b) < Len(WriteVarint32[n])
          /\ \A j \in 1 .. Len(b) : b[j] = WriteVarint32[n][j]
      BY <1>5, BytesFacts DEF Begins
    <3> QED
      BY <1>1, <3>1, VarintCut
  <2> QED
    BY <2>1 DEF StringReadable
<1>6. ASSUME NEW p \in Bytes, b = w \o p, Begins(p, v)
      PROVE  ~StringReadable(b) /\ Begins(AfterVarint(b), v)
  <2>0. Len(p) \in Nat /\ Len(p) < n
    BY <1>6, BytesFacts DEF Begins
  <2> HIDE DEF n
  <2>1. VarintReadable(b) /\ VarintValue(b) = n /\ AfterVarint(b) = p
    BY <1>1, <1>6, VarintRead
  <2> QED
    BY <1>1, <1>6, <2>0, <2>1 DEF StringReadable
<1>7. Begins(b, w) \/ \E p \in Bytes : b = w \o p /\ Begins(p, v)
  <2> HIDE DEF w
  <2> QED
    BY <1>3, <1>4, BeginsJoin
<1> QED
  BY <1>5, <1>6, <1>7

\* A proper beginning is a part.
LEMMA BeginsPart ==
    ASSUME NEW c \in Bytes, NEW b, Begins(b, c)
    PROVE  Len(b) \in 0 .. Len(c) /\ b = SubSeq(c, 1, Len(b))
<1>1. /\ b \in Bytes /\ Len(b) \in Nat /\ Len(c) \in Nat /\ Len(b) < Len(c)
      /\ \A i \in 1 .. Len(b) : b[i] = c[i]
  BY BytesFacts DEF Begins
<1> DEFINE k == Len(b)
           d == SubSeq(c, 1, k)
<1>2. 1 \in 1 .. Len(c) + 1 /\ k \in 1 - 1 .. Len(c) /\ k - 1 + 1 = k
  BY <1>1
<1>3. /\ d \in Bytes /\ Len(d) = k - 1 + 1
      /\ \A i \in 1 .. k - 1 + 1 : d[i] = c[1 + i - 1]
  <2> HIDE DEF k
  <2> QED
    BY <1>2, BytesPart
<1>4. \A i \in 1 .. k : 1 + i - 1 = i
  BY <1>1
<1> HIDE DEF d
<1>5. Len(d) = k /\ \A i \in 1 .. k : b[i] = d[i]
  BY <1>1, <1>2, <1>3, <1>4
<1>6. b = d
  BY <1>1, <1>3, <1>5, BytesEqual
<1> QED
  BY <1>1, <1>6 DEF d

\* The value of a field is read, and what follows is behind it.
LEMMA ValueReadWhole ==
    ASSUME NEW r \in WireRecord, r.type # END_GROUP, NEW rest \in Bytes, NEW b,
           b = Payload(r) \o rest
    PROVE  /\ ValueReadable(r.type, b)
           /\ ValueRead(r.type, b) = r.value /\ AfterValue(r.type, b) = rest
<1> DEFINE t == r.type
           v == r.value
<1>1. CASE t = VARINT
  <2>1. v \in Nat /\ b = WriteVarint32[v] \o rest
    BY <1>1, RecordWritten
  <2> HIDE DEF v
  <2>2. VarintReadable(b) /\ VarintValue(b) = v /\ AfterVarint(b) = rest
    BY <2>1, VarintRead
  <2> HIDE DEF t
  <2>3. ValueReadable(t, b) /\ ValueRead(t, b) = v /\ AfterValue(t, b) = rest
    BY <1>1, <2>2
       DEF ValueReadable, ValueRead, AfterValue, VARINT, LENGTH_DELIMITED, FIXED32, FIXED64
  <2> QED
    BY <2>3 DEF t, v
<1>2. CASE t = LENGTH_DELIMITED
  <2>1. v \in Bytes /\ b = (WriteVarint32[Len(v)] \o v) \o rest
    BY <1>2, RecordWritten
  <2> HIDE DEF v, t
  <2>2. StringReadable(b) /\ StringValue(b) = v /\ AfterString(b) = rest
    BY <2>1, StringRead
  <2>3. ValueReadable(t, b) /\ ValueRead(t, b) = v /\ AfterValue(t, b) = rest
    BY <1>2, <2>2
       DEF ValueReadable, ValueRead, AfterValue, VARINT, LENGTH_DELIMITED, FIXED32, FIXED64
  <2> QED
    BY <2>3 DEF t, v
<1>3. ASSUME NEW n \in Nat, v \in Bytes, Len(v) = n, b = v \o rest
      PROVE  Len(b) >= n /\ SubSeq(b, 1, n) = v /\ Drop(b, n) = rest
  <2> HIDE DEF v
  <2>1. SubSeq(b, 1, n) = v /\ Drop(b, n) = rest
    BY <1>3, DropJoin
  <2>2. Len(b) = n + Len(rest) /\ Len(rest) \in Nat
    BY <1>3, BytesConcat, BytesFacts
  <2> QED
    BY <2>1, <2>2
<1>4. CASE t = FIXED32
  <2>1. 4 \in Nat /\ v \in Bytes /\ Len(v) = 4 /\ b = v \o rest
    BY <1>4, RecordWritten
  <2>2. Len(b) >= 4 /\ SubSeq(b, 1, 4) = v /\ Drop(b, 4) = rest
    BY <1>3, <2>1
  <2> HIDE DEF t, v
  <2>3. ValueReadable(t, b) /\ ValueRead(t, b) = v /\ AfterValue(t, b) = rest
    BY <1>4, <2>2
       DEF ValueReadable, ValueRead, AfterValue, VARINT, LENGTH_DELIMITED, FIXED32, FIXED64
  <2> QED
    BY <2>3 DEF t, v
<1>5. CASE t = FIXED64
  <2>1. 8 \in Nat /\ v \in Bytes /\ Len(v) = 8 /\ b = v \o rest
    BY <1>5, RecordWritten
  <2>2. Len(b) >= 8 /\ SubSeq(b, 1, 8) = v /\ Drop(b, 8) = rest
    BY <1>3, <2>1
  <2> HIDE DEF t, v
  <2>3. ValueReadable(t, b) /\ ValueRead(t, b) = v /\ AfterValue(t, b) = rest
    BY <1>5, <2>2
       DEF ValueReadable, ValueRead, AfterValue, VARINT, LENGTH_DELIMITED, FIXED32, FIXED64
  <2> QED
    BY <2>3 DEF t, v
<1>6. t \in {VARINT, FIXED32, FIXED64, LENGTH_DELIMITED}
  BY RecordParts
<1> QED
  BY <1>1, <1>2, <1>4, <1>5, <1>6

\* Nor is a value read that is cut short.
LEMMA ValueCut ==
    ASSUME NEW r \in WireRecord, NEW b, Begins(b, Payload(r))
    PROVE  ~ValueReadable(r.type, b)
<1> DEFINE t == r.type
           v == r.value
<1>0. b \in Bytes /\ Len(b) \in Nat
  BY BytesFacts DEF Begins
<1>1. CASE t = VARINT
  <2>1. v \in Nat /\ Begins(b, WriteVarint32[v])
    BY <1>1, RecordWritten
  <2> HIDE DEF v, t
  <2>2. ~VarintReadable(b)
    <3>1. Len(b) < Len(WriteVarint32[v]) /\ \A j \in 1 .. Len(b) : b[j] = WriteVarint32[v][j]
      BY <2>1 DEF Begins
    <3> QED
      BY <1>0, <2>1, <3>1, VarintCut
  <2>3. ~ValueReadable(t, b)
    BY <1>1, <2>2 DEF ValueReadable, VARINT, LENGTH_DELIMITED, FIXED32, FIXED64
  <2> QED
    BY <2>3 DEF t
<1>2. CASE t = LENGTH_DELIMITED
  <2>1. v \in Bytes /\ Begins(b, WriteVarint32[Len(v)] \o v)
    BY <1>2, RecordWritten
  <2> HIDE DEF v, t
  <2>2. ~StringReadable(b)
    BY <2>1, StringCut
  <2>3. ~ValueReadable(t, b)
    BY <1>2, <2>2 DEF ValueReadable, VARINT, LENGTH_DELIMITED, FIXED32, FIXED64
  <2> QED
    BY <2>3 DEF t
<1>3. CASE t = FIXED32
  <2>1. Len(b) < 4
    BY <1>3, RecordWritten DEF Begins
  <2> HIDE DEF t
  <2>3. ~ValueReadable(t, b)
    BY <1>0, <1>3, <2>1 DEF ValueReadable, VARINT, LENGTH_DELIMITED, FIXED32, FIXED64
  <2> QED
    BY <2>3 DEF t
<1>4. CASE t = FIXED64
  <2>1. Len(b) < 8
    BY <1>4, RecordWritten DEF Begins
  <2> HIDE DEF t
  <2>3. ~ValueReadable(t, b)
    BY <1>0, <1>4, <2>1 DEF ValueReadable, VARINT, LENGTH_DELIMITED, FIXED32, FIXED64
  <2> QED
    BY <2>3 DEF t
<1>5. CASE t = END_GROUP
  <2> HIDE DEF t
  <2>3. ~ValueReadable(t, b)
    BY <1>5 DEF ValueReadable, VARINT, LENGTH_DELIMITED, FIXED32, FIXED64, END_GROUP
  <2> QED
    BY <2>3 DEF t
<1>6. t \in {VARINT, FIXED32, FIXED64, LENGTH_DELIMITED, END_GROUP}
  BY RecordParts
<1> QED
  BY <1>1, <1>2, <1>3, <1>4, <1>5, <1>6

-------------------------------------------------------------------------------
(* The type of the state, method by method: V are the values of the strings, *)
(* U the sequences of unknown fields.                                        *)

LEMMA BitsTyped ==
    ASSUME NEW V, NEW U, NEW s \in States(V, U), NEW o \in Objects, NEW h \in SUBSET FieldNames
    PROVE  SetBits(s, o, h) \in States(V, U)
BY DEF States, SetBits

LEMMA MakeTyped ==
    ASSUME NEW V, NEW U, << >> \in V, NEW s \in States(V, U), NEW o \in Objects,
           NEW f \in StringFields, NEW n \in Cells
    PROVE  Make(s, o, f, n) \in States(V, U)
BY DEF States, Make

LEMMA WriteTyped ==
    ASSUME NEW V, NEW U, NEW s \in States(V, U), NEW c, NEW value \in V
    PROVE  Write(s, c, value) \in States(V, U)
BY DEF States, Write

LEMMA MoveTyped ==
    ASSUME NEW V, NEW U, NEW s \in States(V, U), NEW o \in Objects, NEW f \in StringFields,
           NEW c \in Cells \cup {kEmptyString}, NEW h \in SUBSET FieldNames, NEW H \in SUBSET Cells
    PROVE  Move(s, o, f, c, h, H) \in States(V, U)
BY DEF States, Move

LEMMA EmptyTyped ==
    ASSUME NEW V, NEW U, << >> \in U, NEW s \in States(V, U), NEW o \in Objects
    PROVE  Empty(s, o) \in States(V, U)
BY DEF States, Empty

LEMMA BlankTyped ==
    ASSUME NEW V, NEW U, << >> \in U, NEW s \in States(V, U), NEW o \in Objects,
           NEW A \in SUBSET Objects
    PROVE  Blank(s, o, A) \in States(V, U)
BY DEF States, Blank

LEMMA KeepTyped ==
    ASSUME NEW V, NEW U, NEW s \in States(V, U), NEW n \in Cells, NEW value \in V
    PROVE  Keep(s, n, value) \in States(V, U)
BY DEF States, Keep

LEMMA HoldTyped ==
    ASSUME NEW V, NEW U, NEW s \in States(V, U), NEW H \in SUBSET Cells
    PROVE  Hold(s, H) \in States(V, U)
BY DEF States, Hold

LEMMA ExtendTyped ==
    ASSUME NEW V, NEW U, NEW s \in States(V, U), NEW o \in Objects, NEW x \in U
    PROVE  Extend(s, o, x) \in States(V, U)
BY DEF States, Extend

LEMMA ExchangeTyped ==
    ASSUME NEW V, NEW U, NEW s \in States(V, U), NEW o \in Objects, NEW p \in Objects
    PROVE  Exchange(s, o, p) \in States(V, U)
BY DEF States, Exchange, swapped

LEMMA DeleteTyped ==
    ASSUME NEW V, NEW U, << >> \in V, NEW s \in States(V, U), NEW c
    PROVE  /\ delete(s, c) \in States(V, U)
           /\ delete(s, c).has = s.has /\ delete(s, c).ptr = s.ptr
           /\ delete(s, c).held = s.held /\ delete(s, c).alive = s.alive
BY DEF States, delete

\* What a state of the type has.
LEMMA TypedParts ==
    ASSUME NEW V, NEW U, NEW s \in States(V, U)
    PROVE  /\ \A o \in Objects : s.has[o] \in SUBSET FieldNames /\ s.unknown[o] \in U
           /\ \A o \in Objects, f \in StringFields :
                 /\ s.ptr[o][f] \in Cells \cup {kEmptyString}
                 /\ string(s, o, f) \in V
           /\ s.held \in SUBSET Cells /\ s.alive \in SUBSET Objects
           /\ \A o \in Objects : s.success[o] \in BOOLEAN
BY DEF States, string

LEMMA MutableTyped ==
    ASSUME NEW V, NEW U, << >> \in V, NEW s \in States(V, U), NEW o \in Objects,
           NEW f \in StringFields,
           s.ptr[o][f] = kEmptyString => \E n \in Cells : n \notin s.allocated
    PROVE  mutable(s, o, f) \in States(V, U)
<1> DEFINE m == SetBits(s, o, WithBit(s, o, f))
           n == new(s)
<1>1. mutable(s, o, f) =
        IF s.ptr[o][f] # kEmptyString THEN m ELSE Make(m, o, f, n)
  BY DEF mutable, SetBits, WithBit, Make
<1>2. WithBit(s, o, f) \in SUBSET FieldNames
  BY TypedParts DEF WithBit, FieldNames
<1>3. m \in States(V, U)
  BY <1>2, BitsTyped
<1> HIDE DEF m
<1>4. CASE s.ptr[o][f] = kEmptyString
  <2>1. n \in Cells
    BY <1>4 DEF new
  <2> HIDE DEF n
  <2> QED
    BY <1>1, <1>3, <1>4, <2>1, MakeTyped
<1> QED
  BY <1>1, <1>3, <1>4

LEMMA SetTyped ==
    ASSUME NEW V, NEW U, << >> \in V, NEW s \in States(V, U), NEW o \in Objects,
           NEW f \in StringFields, NEW value \in V,
           s.ptr[o][f] = kEmptyString => \E n \in Cells : n \notin s.allocated
    PROVE  set(s, o, f, value) \in States(V, U)
<1> DEFINE m == mutable(s, o, f)
<1>1. m \in States(V, U)
  BY MutableTyped
<1>2. set(s, o, f, value) = Write(m, m.ptr[o][f], value)
  BY DEF set, Write
<1> HIDE DEF m
<1> QED
  BY <1>1, <1>2, WriteTyped

LEMMA ClearTyped ==
    ASSUME NEW V, NEW U, << >> \in V, NEW s \in States(V, U), NEW o \in Objects,
           NEW f \in StringFields
    PROVE  clear(s, o, f) \in States(V, U)
<1> DEFINE m == SetBits(s, o, WithoutBit(s, o, f))
           c == m.ptr[o][f]
<1>1. clear(s, o, f) = IF c = kEmptyString THEN m ELSE Write(m, c, << >>)
  BY DEF clear, SetBits, WithoutBit, Write
<1>2. WithoutBit(s, o, f) \in SUBSET FieldNames
  BY TypedParts DEF WithoutBit
<1>3. m \in States(V, U)
  BY <1>2, BitsTyped
<1> HIDE DEF m, c
<1>4. Write(m, c, << >>) \in States(V, U)
  BY <1>3, WriteTyped
<1> QED
  BY <1>1, <1>3, <1>4

LEMMA ReleaseTyped ==
    ASSUME NEW V, NEW U, NEW s \in States(V, U), NEW o \in Objects, NEW f \in StringFields
    PROVE  release(s, o, f) \in States(V, U)
<1>1. release(s, o, f) = Move(s, o, f, kEmptyString, WithoutBit(s, o, f), Given(s, o, f))
  BY DEF release, Move, WithoutBit, Given
<1>2. /\ WithoutBit(s, o, f) \in SUBSET FieldNames /\ Given(s, o, f) \in SUBSET Cells
      /\ kEmptyString \in Cells \cup {kEmptyString}
  BY TypedParts DEF WithoutBit, Given
<1> QED
  BY <1>1, <1>2, MoveTyped

LEMMA SetAllocatedTyped ==
    ASSUME NEW V, NEW U, << >> \in V, NEW s \in States(V, U), NEW o \in Objects,
           NEW f \in StringFields, NEW c \in s.held \cup {NULL}
    PROVE  set_allocated(s, o, f, c) \in States(V, U)
<1> DEFINE m == delete(s, s.ptr[o][f])
<1>1. m \in States(V, U) /\ m.has = s.has /\ m.held = s.held
  BY DeleteTyped
<1>2. set_allocated(s, o, f, c) =
        IF c # NULL THEN [m EXCEPT !.has[o] = @ \cup {f}, !.ptr[o][f] = c, !.held = @ \ {c}]
                    ELSE [m EXCEPT !.has[o] = @ \ {f}, !.ptr[o][f] = kEmptyString]
  BY DEF set_allocated
<1> HIDE DEF m
<1>3. CASE c # NULL
  <2>1. set_allocated(s, o, f, c) = Move(m, o, f, c, WithBit(s, o, f), s.held \ {c})
    BY <1>1, <1>2, <1>3 DEF Move, WithBit
  <2>2. /\ WithBit(s, o, f) \in SUBSET FieldNames /\ s.held \ {c} \in SUBSET Cells
        /\ c \in Cells \cup {kEmptyString}
    BY <1>3, TypedParts DEF WithBit, FieldNames
  <2> QED
    BY <1>1, <2>1, <2>2, MoveTyped
<1>4. CASE c = NULL
  <2>1. /\ WithoutBit(s, o, f) \in SUBSET FieldNames /\ m.has[o] \ {f} = WithoutBit(s, o, f)
    BY <1>1, TypedParts DEF WithoutBit
  <2>2. [m EXCEPT !.has[o] = @ \ {f}, !.ptr[o][f] = kEmptyString] \in States(V, U)
    BY <1>1, <2>1 DEF States
  <2> QED
    BY <1>2, <1>4, <2>2
<1> QED
  BY <1>3, <1>4

LEMMA SuccessTyped ==
    ASSUME NEW V, NEW U, NEW s \in States(V, U), NEW o \in Objects, NEW b \in BOOLEAN
    PROVE  set_success(s, o, b) \in States(V, U) /\ clear_success(s, o) \in States(V, U)
BY DEF States, set_success, clear_success, FieldNames

LEMMA ConstructTyped ==
    ASSUME NEW V, NEW U, << >> \in U, NEW s \in States(V, U), NEW o \in Objects
    PROVE  SharedCtor(s, o) \in States(V, U)
<1> DEFINE A == s.alive \cup {o}
<1>1. SharedCtor(s, o) = Blank(s, o, A) /\ A \in SUBSET Objects
  BY TypedParts DEF SharedCtor, Blank
<1> HIDE DEF A
<1> QED
  BY <1>1, BlankTyped

LEMMA DestroyTyped ==
    ASSUME NEW V, NEW U, << >> \in V, << >> \in U, NEW s \in States(V, U), NEW o \in Objects
    PROVE  destroyed(s, o) \in States(V, U)
<1> DEFINE d == delete(s, s.ptr[o]["name"])
           m == delete(d, s.ptr[o]["message"])
           A == m.alive \ {o}
<1>1. d \in States(V, U)
  BY DeleteTyped
<1>2. m \in States(V, U)
  <2> HIDE DEF d
  <2> QED
    BY <1>1, DeleteTyped
<1>3. destroyed(s, o) = Blank(m, o, A)
  BY DEF destroyed, Blank
<1>4. A \in SUBSET Objects
  <2> HIDE DEF m
  <2> QED
    BY <1>2, TypedParts
<1> HIDE DEF m, A
<1> QED
  BY <1>2, <1>3, <1>4, BlankTyped

LEMMA EmptiedTyped ==
    ASSUME NEW V, NEW U, << >> \in V, NEW s \in States(V, U), NEW o, NEW f
    PROVE  emptied(s, o, f) \in States(V, U)
<1>1. emptied(s, o, f) = s \/ emptied(s, o, f) = Write(s, s.ptr[o][f], << >>)
  BY DEF emptied, Write
<1>2. Write(s, s.ptr[o][f], << >>) \in States(V, U)
  BY WriteTyped
<1> QED
  BY <1>1, <1>2

LEMMA ResetTyped ==
    ASSUME NEW V, NEW U, << >> \in U, NEW s \in States(V, U), NEW o \in Objects
    PROVE  reset(s, o) \in States(V, U)
<1>1. reset(s, o) = Empty(s, o)
  BY DEF reset, Empty
<1> QED
  BY <1>1, EmptyTyped

LEMMA ClassClearTyped ==
    ASSUME class \in Classes, NEW V, NEW U, << >> \in V, << >> \in U, NEW s \in States(V, U),
           NEW o \in Objects
    PROVE  Clear(s, o) \in States(V, U)
<1>1. ASSUME NEW f PROVE reset(emptied(s, o, f), o) \in States(V, U)
  <2>1. emptied(s, o, f) \in States(V, U)
    BY EmptiedTyped
  <2> QED
    BY <2>1, ResetTyped
<1>2. ChatNotify_Clear(s, o) \in States(V, U)
  <2>1. emptied(s, o, "name") \in States(V, U)
    BY EmptiedTyped
  <2>2. emptied(emptied(s, o, "name"), o, "message") \in States(V, U)
    BY <2>1, EmptiedTyped
  <2> QED
    BY <2>2, ResetTyped DEF ChatNotify_Clear
<1>3. LoginResponse_Clear(s, o) \in States(V, U)
  <2> DEFINE m == IF s.has[o] # {} THEN [s EXCEPT !.success[o] = FALSE] ELSE s
  <2>1. m \in States(V, U)
    BY DEF States
  <2>2. LoginResponse_Clear(s, o) = reset(m, o)
    BY DEF LoginResponse_Clear
  <2> HIDE DEF m
  <2> QED
    BY <2>1, <2>2, ResetTyped
<1>4. Clear(s, o) \in {reset(emptied(s, o, "name"), o), LoginResponse_Clear(s, o),
                       reset(emptied(s, o, "message"), o), ChatNotify_Clear(s, o)}
  BY DEF Clear, Classes, LoginRequest_Clear, ChatRequest_Clear
<1> QED
  BY <1>1, <1>2, <1>3, <1>4

-------------------------------------------------------------------------------
(* The contents of the messages, method by method.                           *)

\* Message p is left as it was.
SameContent(s, t, p) ==
    /\ t.has[p] = s.has[p] /\ t.success[p] = s.success[p] /\ t.unknown[p] = s.unknown[p]
    /\ \A f \in StringFields : string(t, p, f) = string(s, p, f)

\* Field f of o is set, and nothing else changes but its string.
FieldSet(s, t, o, f) ==
    /\ \A p \in Objects : t.has[p] = IF p = o THEN WithBit(s, o, f) ELSE s.has[p]
    /\ t.success = s.success /\ t.unknown = s.unknown
    /\ \A p \in Objects, g \in StringFields :
          p # o \/ g # f => string(t, p, g) = string(s, p, g)

\* What a set field leaves of the message.
LEMMA FieldSetContent ==
    ASSUME NEW s, NEW t, NEW o \in Objects, NEW f, FieldSet(s, t, o, f)
    PROVE  /\ \A p \in Objects : p # o => SameContent(s, t, p)
           /\ t.has[o] = s.has[o] \cup {f} /\ t.unknown[o] = s.unknown[o]
           /\ t.success[o] = s.success[o]
           /\ \A g \in StringFields : g # f => string(t, o, g) = string(s, o, g)
BY DEF FieldSet, SameContent, WithBit

LEMMA BitsValues ==
    ASSUME NEW s, Shaped(s), NEW o \in Objects, NEW h \in SUBSET FieldNames
    PROVE  SetBits(s, o, h).unknown = s.unknown
<1> PICK V, U : << >> \in V /\ << >> \in U /\ s \in States(V, U)
  BY DEF Shaped
<1> QED
  BY DEF States, SetBits

LEMMA MakeValues ==
    ASSUME NEW s, Shaped(s), NEW o, NEW f, NEW n
    PROVE  Make(s, o, f, n).unknown = s.unknown
<1> PICK V, U : << >> \in V /\ << >> \in U /\ s \in States(V, U)
  BY DEF Shaped
<1> QED
  BY DEF States, Make

LEMMA WriteValues ==
    ASSUME NEW s, Shaped(s), NEW c, NEW value
    PROVE  Write(s, c, value).unknown = s.unknown
<1> PICK V, U : << >> \in V /\ << >> \in U /\ s \in States(V, U)
  BY DEF Shaped
<1> QED
  BY DEF States, Write

\* mutable_name leaves the value of every string as it is.
LEMMA MutableValues ==
    ASSUME NEW F \in SUBSET FieldNames, NEW s, Good(s, F), NEW o \in Objects, o \in s.alive,
           NEW f \in F, f \in StringFields,
           s.ptr[o][f] = kEmptyString => \E n \in Cells : n \notin s.allocated
    PROVE  /\ FieldSet(s, mutable(s, o, f), o, f)
           /\ string(mutable(s, o, f), o, f) = string(s, o, f)
<1> DEFINE h == WithBit(s, o, f)
           m == SetBits(s, o, h)
           n == new(s)
           t == mutable(s, o, f)
<1>0. MarkResult(s, m, o, f, F)
  BY MarkedGood
<1>s. Shaped(s) /\ h \in SUBSET FieldNames
  BY WithBitOK DEF Good, FieldNames
<1>u. m.unknown = s.unknown
  <2> HIDE DEF h
  <2> QED
    BY <1>s, BitsValues
<1>1. t = IF s.ptr[o][f] # kEmptyString THEN m ELSE Make(m, o, f, n)
  BY DEF mutable, SetBits, WithBit, Make
<1> HIDE DEF m
<1>2. /\ Good(m, F) /\ Marked(s, m, o, f) /\ Shaped(m)
      /\ m.alive = s.alive /\ m.ptr = s.ptr /\ m.success = s.success
      /\ m.allocated = s.allocated /\ m.heap = s.heap
  BY <1>0 DEF MarkResult, Good
<1>3. /\ s.ptr \in [Objects -> [StringFields -> Cells \cup {kEmptyString}]]
      /\ \A p \in Objects, g \in StringFields :
            s.ptr[p][g] \in s.allocated \cup {kEmptyString}
  <2>1. s.ptr \in [Objects -> [StringFields -> Cells \cup {kEmptyString}]]
    BY ShapeParts DEF Good
  <2> QED
    BY <2>1 DEF Good, Owned
<1>4. CASE s.ptr[o][f] # kEmptyString
  <2>1. t = m
    BY <1>1, <1>4
  <2> HIDE DEF t
  <2>2. \A p \in Objects, g \in StringFields : string(t, p, g) = string(s, p, g)
    BY <1>2, <2>1 DEF string
  <2> QED
    BY <1>2, <1>u, <2>1, <2>2 DEF FieldSet, Marked, t
<1>5. CASE s.ptr[o][f] = kEmptyString
  <2>1. n \in Cells /\ n \notin s.allocated /\ n # kEmptyString
    BY <1>5, MessagesAssumption DEF new
  <2> HIDE DEF n
  <2>2. Made(m, Make(m, o, f, n), o, f, n) /\ Make(m, o, f, n).unknown = m.unknown
    BY <1>2, <2>1, MakeUpdate, MakeValues
  <2>3. t = Make(m, o, f, n)
    BY <1>1, <1>5
  <2> HIDE DEF t
  <2>4. /\ \A p \in Objects, g \in StringFields :
              t.ptr[p][g] = IF p = o /\ g = f THEN n ELSE m.ptr[p][g]
        /\ \A d \in Cells \cup {kEmptyString} :
              t.heap[d] = IF d = n THEN << >> ELSE m.heap[d]
        /\ t.has = m.has /\ t.success = m.success /\ t.unknown = m.unknown
    BY <2>2, <2>3 DEF Made
  <2>5. ASSUME NEW p \in Objects, NEW g \in StringFields
        PROVE  string(t, p, g) = string(s, p, g)
    <3>1. CASE p = o /\ g = f
      <4>1. t.heap[n] = << >> /\ s.heap[kEmptyString] = << >>
        BY <2>1, <2>4 DEF Good, Clean
      <4> QED
        BY <1>5, <2>4, <3>1, <4>1 DEF string
    <3>2. CASE ~(p = o /\ g = f)
      <4>1. t.ptr[p][g] = s.ptr[p][g] /\ s.ptr[p][g] # n
            /\ s.ptr[p][g] \in Cells \cup {kEmptyString}
        BY <1>2, <1>3, <2>1, <2>4, <3>2
      <4> QED
        BY <1>2, <2>4, <4>1 DEF string
    <3> QED
      BY <3>1, <3>2
  <2> QED
    BY <1>2, <1>u, <2>4, <2>5 DEF FieldSet, Marked, t
<1> QED
  BY <1>4, <1>5

\* set_name stores the value and touches nothing else.
LEMMA SetValues ==
    ASSUME NEW F \in SUBSET FieldNames, NEW s, Good(s, F), NEW o \in Objects, o \in s.alive,
           NEW f \in F, f \in StringFields, NEW value,
           s.ptr[o][f] = kEmptyString => \E n \in Cells : n \notin s.allocated
    PROVE  /\ FieldSet(s, set(s, o, f, value), o, f)
           /\ string(set(s, o, f, value), o, f) = value
<1> DEFINE m == mutable(s, o, f)
           c == m.ptr[o][f]
           t == set(s, o, f, value)
<1>1. SetResult(s, m, o, f, F)
  BY MutableGood
<1>2. FieldSet(s, m, o, f)
  BY MutableValues
<1>3. t = Write(m, c, value)
  BY DEF set, Write
<1> HIDE DEF m, t
<1>4. Good(m, F) /\ Shaped(m) /\ c \in Cells /\ c # kEmptyString
  BY <1>1, MessagesAssumption DEF SetResult, Good
<1>5. \A p \in Objects, g \in StringFields : m.ptr[p][g] = c => p = o /\ g = f
  BY <1>4 DEF Good, Owned
<1>6. m.ptr \in [Objects -> [StringFields -> Cells \cup {kEmptyString}]]
  BY <1>4, ShapeParts
<1>c. c = m.ptr[o][f]
  OBVIOUS
<1> HIDE DEF c
<1>7. /\ Written(m, t, c, value) /\ t.unknown = m.unknown
  BY <1>3, <1>4, WriteUpdate, WriteValues
<1>8. /\ \A d \in Cells \cup {kEmptyString} : t.heap[d] = IF d = c THEN value ELSE m.heap[d]
      /\ t.has = m.has /\ t.ptr = m.ptr /\ t.success = m.success
  BY <1>7 DEF Written
<1>9. \A p \in Objects, g \in StringFields :
         string(t, p, g) = IF p = o /\ g = f THEN value ELSE string(m, p, g)
  BY <1>5, <1>6, <1>8, <1>c DEF string
<1>10. FieldSet(s, t, o, f)
  BY <1>2, <1>7, <1>8, <1>9 DEF FieldSet
<1> QED
  BY <1>9, <1>10 DEF t

\* The Boolean field.
LEMMA SuccessValues ==
    ASSUME NEW s, Shaped(s), NEW o \in Objects, NEW b \in BOOLEAN
    PROVE  LET t == set_success(s, o, b) IN
           /\ \A p \in Objects : p # o => SameContent(s, t, p)
           /\ t.has[o] = s.has[o] \cup {"success"} /\ t.success[o] = b
           /\ t.unknown[o] = s.unknown[o]
           /\ \A f \in StringFields : string(t, o, f) = string(s, o, f)
<1> PICK V, U : << >> \in V /\ << >> \in U /\ s \in States(V, U)
  BY DEF Shaped
<1> QED
  BY DEF States, set_success, SameContent, string

\* The unknown fields.
LEMMA ExtendValues ==
    ASSUME NEW s, Shaped(s), NEW o \in Objects, NEW x
    PROVE  LET t == Extend(s, o, x) IN
           /\ \A p \in Objects : p # o => SameContent(s, t, p)
           /\ t.has[o] = s.has[o] /\ t.success[o] = s.success[o] /\ t.unknown[o] = x
           /\ \A f \in StringFields : string(t, o, f) = string(s, o, f)
<1> PICK V, U : << >> \in V /\ << >> \in U /\ s \in States(V, U)
  BY DEF Shaped
<1> QED
  BY DEF States, Extend, SameContent, string

\* Emptying a string touches no other message.
LEMMA EmptiedValues ==
    ASSUME NEW F \in SUBSET FieldNames, NEW s, Good(s, F), NEW o \in Objects,
           NEW f \in StringFields
    PROVE  \A p \in Objects : p # o => SameContent(s, emptied(s, o, f), p)
<1> DEFINE c == s.ptr[o][f]
           t == emptied(s, o, f)
<1>1. CASE f \in s.has[o] /\ c # kEmptyString
  <2>1. t = Write(s, c, << >>)
    BY <1>1 DEF emptied, Write
  <2>2. s.ptr \in [Objects -> [StringFields -> Cells \cup {kEmptyString}]] /\ Shaped(s)
    BY ShapeParts DEF Good
  <2>3. \A p \in Objects, g \in StringFields : s.ptr[p][g] = c => p = o /\ g = f
    BY <1>1 DEF Good, Owned
  <2>4. c \in Cells
    BY <1>1, <2>2
  <2> HIDE DEF c, t
  <2>5. Written(s, t, c, << >>) /\ t.unknown = s.unknown
    BY <2>1, <2>2, <2>4, WriteUpdate, WriteValues
  <2>6. /\ \A d \in Cells \cup {kEmptyString} : t.heap[d] = IF d = c THEN << >> ELSE s.heap[d]
        /\ t.has = s.has /\ t.ptr = s.ptr /\ t.success = s.success
    BY <2>5 DEF Written
  <2>7. \A p \in Objects, g \in StringFields : p # o => string(t, p, g) = string(s, p, g)
    BY <2>2, <2>3, <2>6 DEF string
  <2> QED
    BY <2>5, <2>6, <2>7 DEF SameContent, t
<1>2. CASE ~(f \in s.has[o] /\ c # kEmptyString)
  <2>1. t = s
    BY <1>2 DEF emptied
  <2> QED
    BY <2>1 DEF SameContent
<1> QED
  BY <1>1, <1>2

\* The end of Clear.
LEMMA ResetValues ==
    ASSUME NEW s, Shaped(s), NEW o \in Objects
    PROVE  /\ \A p \in Objects : p # o => SameContent(s, reset(s, o), p)
           /\ reset(s, o).has[o] = {} /\ reset(s, o).unknown[o] = << >>
<1> PICK V, U : << >> \in V /\ << >> \in U /\ s \in States(V, U)
  BY DEF Shaped
<1> QED
  BY DEF States, reset, SameContent, string

LEMMA SameAgain ==
    ASSUME NEW s, NEW t, NEW u, NEW p, SameContent(s, t, p), SameContent(t, u, p)
    PROVE  SameContent(s, u, p)
BY DEF SameContent

\* Message o is as a new one, but for the strings it keeps; the others are as they were.
Forgotten(s, t, o) ==
    /\ \A p \in Objects : p # o => SameContent(s, t, p)
    /\ t.has[o] = {} /\ t.unknown[o] = << >>

\* Clear empties its message and leaves the others.
LEMMA ResetForgets ==
    ASSUME NEW s, NEW m, Shaped(m), NEW o \in Objects,
           \A p \in Objects : p # o => SameContent(s, m, p)
    PROVE  Forgotten(s, reset(m, o), o)
<1> DEFINE t == reset(m, o)
<1>1. /\ \A p \in Objects : p # o => SameContent(m, t, p)
      /\ t.has[o] = {} /\ t.unknown[o] = << >>
  BY ResetValues
<1> HIDE DEF t
<1>2. \A p \in Objects : p # o => SameContent(s, t, p)
  BY <1>1, SameAgain
<1> QED
  BY <1>1, <1>2 DEF Forgotten, t

\* Clear of any class leaves nothing set and nothing unknown.
LEMMA ClassClearForgets ==
    ASSUME class \in Classes, NEW s, Good(s, Fields[class]), NEW o \in Objects
    PROVE  Forgotten(s, Clear(s, o), o)
<1> DEFINE F == Fields[class]
<1>0. F \in SUBSET FieldNames
  BY FieldsOfClass
<1>g. Good(s, F) /\ Shaped(s)
  BY DEF Good
<1> HIDE DEF F
<1>e. ASSUME NEW f \in StringFields
      PROVE  /\ Good(emptied(s, o, f), F) /\ Shaped(emptied(s, o, f))
             /\ \A p \in Objects : p # o => SameContent(s, emptied(s, o, f), p)
  <2>1. EmptyResult(s, emptied(s, o, f), o, f, F)
    BY <1>0, <1>g, EmptiedGood
  <2>2. Good(emptied(s, o, f), F)
    BY <2>1 DEF EmptyResult, WriteResult
  <2>3. Shaped(emptied(s, o, f))
    BY <2>2 DEF Good
  <2>4. \A p \in Objects : p # o => SameContent(s, emptied(s, o, f), p)
    BY <1>0, <1>g, EmptiedValues
  <2> QED
    BY <2>2, <2>3, <2>4
<1>1. ASSUME NEW f \in StringFields PROVE Forgotten(s, reset(emptied(s, o, f), o), o)
  BY <1>1, <1>e, ResetForgets
<1>2. Forgotten(s, ChatNotify_Clear(s, o), o)
  <2> DEFINE m == emptied(s, o, "name")
             u == emptied(m, o, "message")
  <2>0. "name" \in StringFields /\ "message" \in StringFields
    BY DEF StringFields
  <2>1. Good(m, F) /\ \A p \in Objects : p # o => SameContent(s, m, p)
    BY <1>e, <2>0
  <2> HIDE DEF m
  <2>2. \A p \in Objects : p # o => SameContent(m, u, p)
    BY <1>0, <2>0, <2>1, EmptiedValues
  <2>3. EmptyResult(m, u, o, "message", F)
    BY <1>0, <2>0, <2>1, EmptiedGood
  <2> HIDE DEF u
  <2>4. Shaped(u)
    BY <2>3 DEF EmptyResult, WriteResult, Good
  <2>5. \A p \in Objects : p # o => SameContent(s, u, p)
    BY <2>1, <2>2, SameAgain
  <2>6. Forgotten(s, reset(u, o), o)
    BY <2>4, <2>5, ResetForgets
  <2> QED
    BY <2>6 DEF ChatNotify_Clear, u, m
<1>3. Forgotten(s, LoginResponse_Clear(s, o), o)
  <2> DEFINE m == IF s.has[o] # {} THEN [s EXCEPT !.success[o] = FALSE] ELSE s
  <2>1. Shaped(m) /\ \A p \in Objects : p # o => SameContent(s, m, p)
    <3> PICK V, U : << >> \in V /\ << >> \in U /\ s \in States(V, U)
      BY <1>g DEF Shaped
    <3>1. m \in States(V, U)
      BY DEF States
    <3>2. \A p \in Objects : p # o => SameContent(s, m, p)
      BY DEF States, SameContent, string
    <3> QED
      BY <3>1, <3>2 DEF Shaped
  <2>2. LoginResponse_Clear(s, o) = reset(m, o)
    BY DEF LoginResponse_Clear
  <2> HIDE DEF m
  <2> QED
    BY <2>1, <2>2, ResetForgets
<1>4. Clear(s, o) \in {reset(emptied(s, o, "name"), o), LoginResponse_Clear(s, o),
                       reset(emptied(s, o, "message"), o), ChatNotify_Clear(s, o)}
  BY DEF Clear, Classes, LoginRequest_Clear, ChatRequest_Clear
<1>5. "name" \in StringFields /\ "message" \in StringFields
  BY DEF StringFields
<1> QED
  BY <1>1, <1>2, <1>3, <1>4, <1>5

\* What MergeFrom copies of the fields of F: o has what from has.
Taken(s, t, o, from, F) ==
    /\ \A p \in Objects : p # o => SameContent(s, t, p)
    /\ t.has[o] = s.has[o] \cup (s.has[from] \cap F)
    /\ t.unknown[o] = s.unknown[o]
    /\ \A f \in StringFields :
          string(t, o, f) = IF f \in s.has[from] \cap F THEN string(s, from, f) ELSE string(s, o, f)
    /\ t.success[o] = IF "success" \in s.has[from] \cap F THEN s.success[from] ELSE s.success[o]

\* A string field is taken from the other message if it is set there.
LEMMA CopiedValues ==
    ASSUME NEW F \in SUBSET FieldNames, NEW s, Good(s, F), NEW o \in Objects, o \in s.alive,
           NEW from \in Objects, from # o, NEW f \in F, f \in StringFields,
           Space(s, o, Needed(s, from))
    PROVE  Taken(s, copied(s, o, from, f), o, from, {f})
<1>0. f # "success"
  BY DEF StringFields
<1>1. CASE f \in s.has[from]
  <2> DEFINE v == string(s, from, f)
             t == set(s, o, f, v)
  <2>1. copied(s, o, from, f) = t
    BY <1>1 DEF copied
  <2>2. s.ptr[o][f] = kEmptyString => \E n \in Cells : n \notin s.allocated
    <3>1. f \in Needed(s, from) /\ Shaped(s)
      BY <1>1 DEF Needed, Good
    <3> QED
      BY <3>1, SpaceFree
  <2>v. v = string(s, from, f)
    OBVIOUS
  <2> HIDE DEF v
  <2>3. FieldSet(s, t, o, f) /\ string(t, o, f) = v
    BY <2>2, SetValues
  <2> HIDE DEF t
  <2>4. /\ \A p \in Objects : p # o => SameContent(s, t, p)
        /\ t.has[o] = s.has[o] \cup {f} /\ t.unknown[o] = s.unknown[o]
        /\ t.success[o] = s.success[o]
        /\ \A g \in StringFields : g # f => string(t, o, g) = string(s, o, g)
    <3>1. ASSUME NEW u, FieldSet(s, u, o, f)
          PROVE  /\ \A p \in Objects : p # o => SameContent(s, u, p)
                 /\ u.has[o] = s.has[o] \cup {f} /\ u.unknown[o] = s.unknown[o]
                 /\ u.success[o] = s.success[o]
                 /\ \A g \in StringFields : g # f => string(u, o, g) = string(s, o, g)
      BY <3>1 DEF FieldSet, SameContent, WithBit
    <3> QED
      BY <2>3, <3>1
  <2>5. s.has[from] \cap {f} = {f}
    BY <1>1
  <2>6. Taken(s, t, o, from, {f})
    BY <1>0, <2>3, <2>4, <2>5, <2>v DEF Taken
  <2> QED
    BY <2>1, <2>6
<1>2. CASE f \notin s.has[from]
  <2>1. copied(s, o, from, f) = s
    BY <1>2 DEF copied
  <2>2. s.has[from] \cap {f} = {} /\ s.has[o] \cup {} = s.has[o]
    BY <1>2
  <2>3. Taken(s, s, o, from, {f})
    BY <2>2 DEF Taken, SameContent
  <2> QED
    BY <2>1, <2>3
<1> QED
  BY <1>1, <1>2

\* One part of the fields after the other.
LEMMA TakenBoth ==
    ASSUME NEW s, NEW m, NEW t, NEW o \in Objects, NEW from \in Objects, from # o,
           NEW F, NEW G, Taken(s, m, o, from, F), Taken(m, t, o, from, G)
    PROVE  Taken(s, t, o, from, F \cup G)
<1>1. \A p \in Objects : p # o => SameContent(s, t, p)
  BY SameAgain DEF Taken
<1>2. /\ m.has[from] = s.has[from] /\ m.success[from] = s.success[from]
      /\ \A f \in StringFields : string(m, from, f) = string(s, from, f)
  BY DEF Taken, SameContent
<1>3. t.has[o] = s.has[o] \cup (s.has[from] \cap (F \cup G)) /\ t.unknown[o] = s.unknown[o]
  BY <1>2 DEF Taken
<1>4. ASSUME NEW f \in StringFields
      PROVE  string(t, o, f) = IF f \in s.has[from] \cap (F \cup G)
                               THEN string(s, from, f) ELSE string(s, o, f)
  <2>1. string(t, o, f) = IF f \in s.has[from] \cap G THEN string(s, from, f) ELSE string(m, o, f)
    BY <1>2 DEF Taken
  <2>2. string(m, o, f) = IF f \in s.has[from] \cap F THEN string(s, from, f) ELSE string(s, o, f)
    BY DEF Taken
  <2> QED
    BY <2>1, <2>2
<1>5. t.success[o] = IF "success" \in s.has[from] \cap (F \cup G)
                     THEN s.success[from] ELSE s.success[o]
  <2>1. t.success[o] = IF "success" \in s.has[from] \cap G THEN s.success[from] ELSE m.success[o]
    BY <1>2 DEF Taken
  <2>2. m.success[o] = IF "success" \in s.has[from] \cap F THEN s.success[from] ELSE s.success[o]
    BY DEF Taken
  <2> QED
    BY <2>1, <2>2
<1> QED
  BY <1>1, <1>3, <1>4, <1>5 DEF Taken

\* What MergeFrom does: the unknown fields are appended.
Joined(s, t, o, from) ==
    /\ \A p \in Objects : p # o => SameContent(s, t, p)
    /\ t.has[o] = s.has[o] \cup s.has[from]
    /\ t.unknown[o] = s.unknown[o] \o s.unknown[from]
    /\ \A f \in StringFields :
          string(t, o, f) = IF f \in s.has[from] THEN string(s, from, f) ELSE string(s, o, f)
    /\ t.success[o] = IF "success" \in s.has[from] THEN s.success[from] ELSE s.success[o]

\* The unknown fields are joined at the end.
LEMMA MergedValues ==
    ASSUME NEW s, NEW F, Bits(s, F), NEW m, Shaped(m), NEW o \in Objects,
           NEW from \in Objects, from # o, Taken(s, m, o, from, F)
    PROVE  Joined(s, merged(m, o, from), o, from)
<1> DEFINE x == m.unknown[o] \o m.unknown[from]
           t == merged(m, o, from)
<1>0. s.has[from] \cap F = s.has[from]
  BY DEF Bits
<1>1. t = Extend(m, o, x)
  BY DEF merged, Extend
<1>2. m.unknown[from] = s.unknown[from] /\ m.unknown[o] = s.unknown[o]
  BY DEF Taken, SameContent
<1>x. x = s.unknown[o] \o s.unknown[from]
  BY <1>2
<1> HIDE DEF x, t
<1>3. /\ \A p \in Objects : p # o => SameContent(m, t, p)
      /\ t.has[o] = m.has[o] /\ t.success[o] = m.success[o] /\ t.unknown[o] = x
      /\ \A f \in StringFields : string(t, o, f) = string(m, o, f)
  BY <1>1, ExtendValues
<1>4. \A p \in Objects : p # o => SameContent(s, t, p)
  BY <1>3, SameAgain DEF Taken
<1>5. Joined(s, t, o, from)
  BY <1>0, <1>3, <1>4, <1>x DEF Taken, Joined
<1> QED
  BY <1>5 DEF t

\* MergeFrom of any class joins the two messages.
LEMMA ClassMergeValues ==
    ASSUME class \in Classes, NEW s, Good(s, Fields[class]), NEW o \in Objects,
           o \in s.alive, NEW from \in Objects, from # o, Space(s, o, Needed(s, from))
    PROVE  Joined(s, MergeFrom(s, o, from), o, from)
<1>1. ASSUME NEW f \in StringFields, Good(s, {f})
      PROVE  Joined(s, merged(copied(s, o, from, f), o, from), o, from)
  <2> DEFINE m == copied(s, o, from, f)
  <2>0. {f} \in SUBSET FieldNames /\ f \in {f} /\ Bits(s, {f})
    BY <1>1 DEF FieldNames, Good
  <2>1. Taken(s, m, o, from, {f})
    BY <1>1, <2>0, CopiedValues
  <2>2. CopyResult(s, m, o, from, {f})
    BY <1>1, <2>0, CopiedGood
  <2> HIDE DEF m
  <2>3. Shaped(m)
    BY <2>2 DEF CopyResult, Good
  <2>4. Joined(s, merged(m, o, from), o, from)
    BY <2>0, <2>1, <2>3, MergedValues
  <2> QED
    BY <2>4 DEF m
<1>2. ASSUME Good(s, {"name", "message"})
      PROVE  Joined(s, ChatNotify_MergeFrom(s, o, from), o, from)
  <2> DEFINE F == {"name", "message"}
             m == copied(s, o, from, "name")
             u == copied(m, o, from, "message")
  <2>0. /\ F \in SUBSET FieldNames /\ "name" \in F /\ "message" \in F /\ Bits(s, F)
        /\ "name" \in StringFields /\ "message" \in StringFields
        /\ {"name"} \cup {"message"} = F
    BY <1>2 DEF FieldNames, Good, StringFields
  <2>g. Good(s, F)
    BY <1>2
  <2> HIDE DEF F
  <2>1. Taken(s, m, o, from, {"name"})
    BY <2>g, <2>0, CopiedValues
  <2>2. CopyResult(s, m, o, from, F)
    BY <2>g, <2>0, CopiedGood
  <2> HIDE DEF m
  <2>3. Good(m, F) /\ Space(m, o, Needed(m, from)) /\ o \in m.alive
    BY <2>2 DEF CopyResult
  <2>4. Taken(m, u, o, from, {"message"})
    BY <2>0, <2>3, CopiedValues
  <2>5. CopyResult(m, u, o, from, F)
    BY <2>0, <2>3, CopiedGood
  <2> HIDE DEF u
  <2>6. Shaped(u)
    BY <2>5 DEF CopyResult, Good
  <2>7. Taken(s, u, o, from, F)
    BY <2>0, <2>1, <2>4, TakenBoth
  <2>8. Joined(s, merged(u, o, from), o, from)
    BY <2>0, <2>6, <2>7, MergedValues
  <2> QED
    BY <2>8 DEF ChatNotify_MergeFrom, u, m
<1>3. ASSUME Good(s, {"success"})
      PROVE  Joined(s, LoginResponse_MergeFrom(s, o, from), o, from)
  <2> DEFINE b == s.success[from]
             u == set_success(s, o, b)
             m == IF "success" \in s.has[from] THEN u ELSE s
  <2>0. Bits(s, {"success"}) /\ Shaped(s)
    BY <1>3 DEF Good
  <2>b. b \in BOOLEAN /\ b = s.success[from]
    BY <2>0, ShapeParts
  <2>m. LoginResponse_MergeFrom(s, o, from) = merged(m, o, from)
    BY DEF LoginResponse_MergeFrom
  <2> HIDE DEF b
  <2>1. /\ \A p \in Objects : p # o => SameContent(s, u, p)
        /\ u.has[o] = s.has[o] \cup {"success"} /\ u.success[o] = b
        /\ u.unknown[o] = s.unknown[o]
        /\ \A f \in StringFields : string(u, o, f) = string(s, o, f)
    BY <2>0, <2>b, SuccessValues
  <2>2. Shaped(u)
    <3>1. "success" \in {"success"} /\ {"success"} \in SUBSET FieldNames
      BY DEF FieldNames
    <3>2. Good(u, {"success"})
      BY <1>3, <2>b, <3>1, SuccessGood
    <3> QED
      BY <3>2 DEF Good
  <2> HIDE DEF u
  <2>3. CASE "success" \in s.has[from]
    <3>1. s.has[from] \cap {"success"} = {"success"} /\ m = u
          /\ \A f \in StringFields : f # "success"
      BY <2>3 DEF StringFields
    <3>2. Taken(s, u, o, from, {"success"})
      BY <2>1, <2>b, <3>1 DEF Taken
    <3>3. Joined(s, merged(u, o, from), o, from)
      BY <2>0, <2>2, <3>2, MergedValues
    <3> QED
      BY <2>m, <3>1, <3>3
  <2>4. CASE "success" \notin s.has[from]
    <3>1. s.has[from] \cap {"success"} = {} /\ m = s /\ s.has[o] \cup {} = s.has[o]
      BY <2>4
    <3>2. Taken(s, s, o, from, {"success"})
      BY <3>1 DEF Taken, SameContent
    <3>3. Joined(s, merged(s, o, from), o, from)
      BY <2>0, <3>2, MergedValues
    <3> QED
      BY <2>m, <3>1, <3>3
  <2> QED
    BY <2>3, <2>4
<1>4. CASE class = "LoginRequest"
  BY <1>1, <1>4 DEF MergeFrom, LoginRequest_MergeFrom, Fields, StringFields
<1>5. CASE class = "LoginResponse"
  BY <1>3, <1>5 DEF MergeFrom, Fields
<1>6. CASE class = "ChatRequest"
  BY <1>1, <1>6 DEF MergeFrom, ChatRequest_MergeFrom, Fields, StringFields
<1>7. CASE class = "ChatNotify"
  BY <1>2, <1>7 DEF MergeFrom, Fields
<1> QED
  BY <1>4, <1>5, <1>6, <1>7 DEF Classes

-------------------------------------------------------------------------------
(* What Serialize writes.                                                    *)

\* What a message of the type holds.
LEMMA TypedContent ==
    ASSUME NEW s \in States(Bytes, Seq(WireRecord)), NEW o \in Objects
    PROVE  /\ s.unknown[o] \in Seq(WireRecord)
           /\ \A f \in StringFields : string(s, o, f) \in Bytes
           /\ s.success[o] \in BOOLEAN
BY TypedParts

\* A string field is written as the wire record of its number.
LEMMA StringField ==
    ASSUME NEW number \in 1 .. 15, NEW v \in Bytes
    PROVE  LET r == [number |-> number, type |-> LENGTH_DELIMITED, value |-> v] IN
           /\ r \in WireRecord /\ WriteUnknown(r) = WriteString(number, v)
           /\ WriteString(number, v) \in Bytes
           /\ Len(WriteString(number, v)) = 1 + StringSize(v)
<1> DEFINE r == [number |-> number, type |-> LENGTH_DELIMITED, value |-> v]
           t == MakeTag(number, LENGTH_DELIMITED)
           w == WriteVarint32[Len(v)]
<1>1. r \in WireRecord
  BY DEF WireRecord
<1>2. t \in Nat /\ t < 128
  <2>1. LENGTH_DELIMITED \in 0 .. 7
    BY DEF LENGTH_DELIMITED
  <2>2. number \in Nat /\ number < 16
    OBVIOUS
  <2>3. /\ MakeTag(number, LENGTH_DELIMITED) \in Nat
        /\ number < 16 => MakeTag(number, LENGTH_DELIMITED) < 128
    BY <2>1, <2>2, TagParts
  <2> QED
    BY <2>2, <2>3
<1>3. WriteVarint32[t] = <<t>> /\ WriteVarint32[t] \in Bytes /\ Len(WriteVarint32[t]) = 1
  <2> HIDE DEF t
  <2>1. WriteVarint32[t] = <<t>>
    BY <1>2, VarintWritten
  <2>2. t \in 0 .. 255
    BY <1>2
  <2> QED
    BY <2>1, <2>2, OneByte
<1>4. w \in Bytes /\ Len(v) \in Nat /\ Len(w) = VarintSize32(Len(v)) /\ Len(w) \in Nat
  <2>1. Len(v) \in Nat
    BY BytesFacts
  <2> QED
    BY <2>1, VarintWritten, SizeWritten, BytesFacts
<1>5. WriteUnknown(r) = WriteVarint32[t] \o (w \o v)
  <2>1. TagOf(r) = t /\ r.type = LENGTH_DELIMITED /\ r.value = v
    BY DEF TagOf
  <2> HIDE DEF r
  <2>2. /\ WriteUnknown(r) = WriteVarint32[TagOf(r)] \o Payload(r)
        /\ Payload(r) = WriteVarint32[Len(r.value)] \o r.value
    BY <1>1, <2>1, RecordWritten
  <2> QED
    BY <2>1, <2>2
<1>6. WriteString(number, v) = (WriteVarint32[t] \o w) \o v
  BY DEF WriteString
<1> HIDE DEF w
<1> DEFINE c == WriteVarint32[t]
<1>7. c \in Bytes /\ Len(c) = 1
  BY <1>3
<1> HIDE DEF c
<1>8. (c \o w) \o v = c \o (w \o v)
  BY <1>4, <1>7, BytesJoin
<1>9. /\ w \o v \in Bytes /\ Len(w \o v) = Len(w) + Len(v)
      /\ c \o (w \o v) \in Bytes /\ Len(c \o (w \o v)) = Len(c) + Len(w \o v)
  BY <1>4, <1>7, BytesConcat
<1>10. Len(c \o (w \o v)) = 1 + StringSize(v)
  BY <1>4, <1>7, <1>9 DEF StringSize
<1> QED
  BY <1>1, <1>5, <1>6, <1>8, <1>9, <1>10 DEF c

\* So is the Boolean field.
LEMMA BoolField ==
    ASSUME NEW b \in BOOLEAN
    PROVE  LET r == [number |-> 2, type |-> VARINT, value |-> IF b THEN 1 ELSE 0] IN
           /\ r \in WireRecord /\ WriteUnknown(r) = WriteBool(2, b)
           /\ WriteBool(2, b) \in Bytes /\ Len(WriteBool(2, b)) = 1 + 1
<1> DEFINE n == IF b THEN 1 ELSE 0
           r == [number |-> 2, type |-> VARINT, value |-> n]
           t == MakeTag(2, VARINT)
           c == WriteVarint32[t]
<1>1. n \in Nat /\ n < 128 /\ n \in 0 .. 255
  OBVIOUS
<1>2. r \in WireRecord
  BY DEF WireRecord
<1>3. t = 16
  BY DEF MakeTag, VARINT
<1>4. c = <<16>> /\ c \in Bytes /\ Len(c) = 1
  <2> HIDE DEF t
  <2>1. t \in Nat /\ t < 128
    BY <1>3
  <2>2. c = <<t>>
    BY <2>1, VarintWritten
  <2>3. t \in 0 .. 255
    BY <1>3
  <2>4. <<t>> \in Bytes /\ Len(<<t>>) = 1
    BY <2>3, OneByte
  <2> QED
    BY <1>3, <2>2, <2>4
<1>5. WriteVarint32[n] = <<n>>
  <2> HIDE DEF n
  <2> QED
    BY <1>1, VarintWritten
<1>6. <<n>> \in Bytes /\ Len(<<n>>) = 1
  <2> HIDE DEF n
  <2> QED
    BY <1>1, OneByte
<1>7. WriteUnknown(r) = c \o WriteVarint32[n]
  <2>1. TagOf(r) = t /\ r.type = VARINT /\ r.value = n
    BY DEF TagOf
  <2> HIDE DEF r, n, t
  <2>2. /\ WriteUnknown(r) = WriteVarint32[TagOf(r)] \o Payload(r)
        /\ Payload(r) = WriteVarint32[r.value]
    BY <1>2, <2>1, RecordWritten
  <2> QED
    BY <2>1, <2>2
<1>8. WriteBool(2, b) = c \o <<n>>
  BY DEF WriteBool
<1> HIDE DEF c
<1>9. c \o <<n>> \in Bytes /\ Len(c \o <<n>>) = Len(c) + Len(<<n>>)
  <2> DEFINE d == <<n>>
  <2>1. d \in Bytes
    BY <1>6
  <2> HIDE DEF d
  <2>2. c \o d \in Bytes /\ Len(c \o d) = Len(c) + Len(d)
    BY <1>4, <2>1, BytesConcat
  <2> QED
    BY <2>2 DEF d
<1>10. Len(c \o <<n>>) = 1 + 1
  BY <1>4, <1>6, <1>9
<1> QED
  BY <1>2, <1>5, <1>7, <1>8, <1>9, <1>10

\* A string field of a message.
LEMMA StringFieldOf ==
    ASSUME NEW s \in States(Bytes, Seq(WireRecord)), NEW o \in Objects,
           NEW f \in StringFields, NEW number \in 1 .. 15
    PROVE  LET F == FieldRecords(s, o, Field(f, number, LENGTH_DELIMITED)) IN
           /\ F \in Seq(WireRecord) /\ WriteAll(F) = StringWritten(s, o, f, number)
           /\ StringWritten(s, o, f, number) \in Bytes
           /\ Len(StringWritten(s, o, f, number)) = StringCounted(s, o, f)
<1> DEFINE v == string(s, o, f)
           x == Field(f, number, LENGTH_DELIMITED)
           r == [number |-> number, type |-> LENGTH_DELIMITED, value |-> v]
<1>0. v \in Bytes /\ f # "success"
  BY TypedContent DEF StringFields
<1>x. x.field = f /\ x.number = number /\ x.type = LENGTH_DELIMITED
  BY DEF Field
<1>1. CASE f \in s.has[o]
  <2>1. Value(s, o, f) = v
    BY <1>0 DEF Value
  <2>2. FieldRecords(s, o, x) = <<r>>
    BY <1>1, <1>x, <2>1 DEF FieldRecords
  <2>3. /\ r \in WireRecord /\ WriteUnknown(r) = WriteString(number, v)
        /\ WriteString(number, v) \in Bytes
        /\ Len(WriteString(number, v)) = 1 + StringSize(v)
    <3> HIDE DEF v
    <3> QED
      BY <1>0, StringField
  <2>4. <<r>> \in Seq(WireRecord) /\ WriteAll(<<r>>) = WriteUnknown(r)
    <3> HIDE DEF r
    <3> QED
      BY <2>3, WriteOne
  <2>5. /\ StringWritten(s, o, f, number) = WriteString(number, v)
        /\ StringCounted(s, o, f) = 1 + StringSize(v)
    BY <1>1 DEF StringWritten, StringCounted
  <2> QED
    BY <2>2, <2>3, <2>4, <2>5
<1>2. CASE f \notin s.has[o]
  <2>1. FieldRecords(s, o, x) = << >>
    BY <1>2, <1>x DEF FieldRecords
  <2>2. StringWritten(s, o, f, number) = << >> /\ StringCounted(s, o, f) = 0
    BY <1>2 DEF StringWritten, StringCounted
  <2>3. << >> \in Seq(WireRecord)
    OBVIOUS
  <2> QED
    BY <2>1, <2>2, <2>3, WriteNone, NoBytes
<1> QED
  BY <1>1, <1>2

\* The record of success is what Serialize writes of it.
LEMMA BoolFieldOf ==
    ASSUME NEW s \in States(Bytes, Seq(WireRecord)), NEW o \in Objects
    PROVE  LET F == FieldRecords(s, o, Field("success", 2, VARINT))
               w == IF "success" \in s.has[o] THEN WriteBool(2, s.success[o]) ELSE << >>
           IN
           /\ F \in Seq(WireRecord) /\ WriteAll(F) = w /\ w \in Bytes
           /\ Len(w) = IF "success" \in s.has[o] THEN 1 + 1 ELSE 0
<1> DEFINE b == s.success[o]
           x == Field("success", 2, VARINT)
           r == [number |-> 2, type |-> VARINT, value |-> IF b THEN 1 ELSE 0]
<1>0. b \in BOOLEAN
  BY TypedContent
<1>x. x.field = "success" /\ x.number = 2 /\ x.type = VARINT
  BY DEF Field
<1>1. CASE "success" \in s.has[o]
  <2>2. FieldRecords(s, o, x) = <<r>>
    BY <1>1, <1>x DEF FieldRecords, Value
  <2>3. /\ r \in WireRecord /\ WriteUnknown(r) = WriteBool(2, b)
        /\ WriteBool(2, b) \in Bytes /\ Len(WriteBool(2, b)) = 1 + 1
    <3> HIDE DEF b
    <3> QED
      BY <1>0, BoolField
  <2>4. <<r>> \in Seq(WireRecord) /\ WriteAll(<<r>>) = WriteUnknown(r)
    <3> HIDE DEF r
    <3> QED
      BY <2>3, WriteOne
  <2> QED
    BY <1>1, <2>2, <2>3, <2>4
<1>2. CASE "success" \notin s.has[o]
  <2> DEFINE w == IF "success" \in s.has[o] THEN WriteBool(2, b) ELSE << >>
             F == FieldRecords(s, o, x)
  <2>1. F = << >> /\ w = << >>
    BY <1>2, <1>x DEF FieldRecords
  <2>3. << >> \in Seq(WireRecord)
    OBVIOUS
  <2> HIDE DEF w, F
  <2>4. F \in Seq(WireRecord) /\ WriteAll(F) = w /\ w \in Bytes /\ Len(w) = 0
    BY <2>1, <2>3, WriteNone, NoBytes
  <2> QED
    BY <1>2, <2>4 DEF w, F
<1> QED
  BY <1>1, <1>2

\* Two parts and the unknown fields, one after the other.
LEMMA PartsWritten ==
    ASSUME NEW c \in Seq(WireRecord), NEW d \in Seq(WireRecord), NEW e \in Seq(WireRecord)
    PROVE  /\ (c \o d) \o e \in Seq(WireRecord)
           /\ WriteAll((c \o d) \o e) = (WriteAll(c) \o WriteAll(d)) \o WriteAll(e)
           /\ WriteAll(c) \in Bytes /\ WriteAll(d) \in Bytes /\ WriteAll(e) \in Bytes
           /\ Len((WriteAll(c) \o WriteAll(d)) \o WriteAll(e)) =
                 Len(WriteAll(c)) + Len(WriteAll(d)) + Len(WriteAll(e))
<1> DEFINE j == c \o d
<1>1. j \in Seq(WireRecord) /\ WriteAll(j) = WriteAll(c) \o WriteAll(d)
  BY WriteJoin
<1>2. WriteAll(c) \in Bytes /\ WriteAll(d) \in Bytes /\ WriteAll(e) \in Bytes
  BY RestFacts
<1> HIDE DEF j
<1>3. j \o e \in Seq(WireRecord) /\ WriteAll(j \o e) = WriteAll(j) \o WriteAll(e)
  BY <1>1, WriteJoin
<1> DEFINE C == WriteAll(c)
           D == WriteAll(d)
           E == WriteAll(e)
<1> SUFFICES Len((C \o D) \o E) = Len(C) + Len(D) + Len(E)
  BY <1>1, <1>2, <1>3 DEF j
<1> HIDE DEF C, D, E
<1>4. C \in Bytes /\ D \in Bytes /\ E \in Bytes
  BY <1>2 DEF C, D, E
<1> DEFINE G == C \o D
<1>5. G \in Bytes /\ Len(G) = Len(C) + Len(D)
  BY <1>4, BytesConcat
<1> HIDE DEF G
<1>6. Len(G \o E) = Len(G) + Len(E)
  BY <1>4, <1>5, BytesConcat
<1> QED
  BY <1>5, <1>6 DEF G

\* Serialize writes the wire records the message stands for, and ByteSize counts
\* what it writes.
LEMMA Serialized ==
    ASSUME class \in Classes, NEW s \in States(Bytes, Seq(WireRecord)), NEW o \in Objects
    PROVE  /\ Records(s, o) \in Seq(WireRecord)
           /\ Serialize(s, o) = WriteAll(Records(s, o))
           /\ ByteSize(s, o) = Len(Serialize(s, o))
<1> DEFINE u == s.unknown[o]
           none == << >>
<1>0. u \in Seq(WireRecord) /\ none \in Seq(WireRecord) /\ WriteAll(none) = << >>
  BY TypedContent, WriteNone
<1> HIDE DEF u, none
<1>1. ASSUME NEW f \in StringFields, NEW number \in 1 .. 15
      PROVE  LET F == FieldRecords(s, o, Field(f, number, LENGTH_DELIMITED))
                 w == StringWritten(s, o, f, number)
             IN
             /\ (F \o none) \o u \in Seq(WireRecord)
             /\ w \o WriteAll(u) = WriteAll((F \o none) \o u)
             /\ Len(w \o WriteAll(u)) = StringCounted(s, o, f) + Len(WriteAll(u))
  <2> DEFINE F == FieldRecords(s, o, Field(f, number, LENGTH_DELIMITED))
             w == StringWritten(s, o, f, number)
             n == StringCounted(s, o, f)
  <2>1. F \in Seq(WireRecord) /\ WriteAll(F) = w /\ w \in Bytes /\ Len(w) = n
    BY <1>1, StringFieldOf
  <2> HIDE DEF F, w, n
  <2>2. /\ (F \o none) \o u \in Seq(WireRecord)
        /\ WriteAll((F \o none) \o u) = (WriteAll(F) \o WriteAll(none)) \o WriteAll(u)
        /\ Len((WriteAll(F) \o WriteAll(none)) \o WriteAll(u)) =
              Len(WriteAll(F)) + Len(WriteAll(none)) + Len(WriteAll(u))
        /\ WriteAll(u) \in Bytes
    BY <1>0, <2>1, PartsWritten
  <2>3. w \o << >> = w
    BY <2>1, BytesJoin, NoBytes
  <2>4. Len(WriteAll(u)) \in Nat /\ Len(w) \in Nat /\ Len(WriteAll(none)) = 0
    BY <1>0, <2>1, <2>2, BytesFacts, NoBytes
  <2> QED
    BY <1>0, <2>1, <2>2, <2>3, <2>4 DEF F, w, n
<1>2. CASE class = "LoginRequest"
  <2>1. "name" \in StringFields /\ 1 \in 1 .. 15
    BY DEF StringFields
  <2>2. Records(s, o) = (FieldRecords(s, o, Field("name", 1, LENGTH_DELIMITED)) \o none) \o u
    BY <1>2 DEF Records, Schema, u, none
  <2>3. /\ Serialize(s, o) = StringWritten(s, o, "name", 1) \o WriteAll(u)
        /\ ByteSize(s, o) = StringCounted(s, o, "name") + Len(WriteAll(u))
    BY <1>2 DEF Serialize, ByteSize, LoginRequest_Serialize, LoginRequest_ByteSize,
                ComputeUnknownFieldsSize, u
  <2> QED
    BY <1>1, <2>1, <2>2, <2>3
<1>3. CASE class = "ChatRequest"
  <2>1. "message" \in StringFields /\ 3 \in 1 .. 15
    BY DEF StringFields
  <2>2. Records(s, o) = (FieldRecords(s, o, Field("message", 3, LENGTH_DELIMITED)) \o none) \o u
    BY <1>3 DEF Records, Schema, u, none
  <2>3. /\ Serialize(s, o) = StringWritten(s, o, "message", 3) \o WriteAll(u)
        /\ ByteSize(s, o) = StringCounted(s, o, "message") + Len(WriteAll(u))
    BY <1>3 DEF Serialize, ByteSize, ChatRequest_Serialize, ChatRequest_ByteSize,
                ComputeUnknownFieldsSize, u
  <2> QED
    BY <1>1, <2>1, <2>2, <2>3
<1>4. CASE class = "LoginResponse"
  <2> DEFINE F == FieldRecords(s, o, Field("success", 2, VARINT))
             w == IF "success" \in s.has[o] THEN WriteBool(2, s.success[o]) ELSE << >>
             n == IF "success" \in s.has[o] THEN 1 + 1 ELSE 0
  <2>1. F \in Seq(WireRecord) /\ WriteAll(F) = w /\ w \in Bytes /\ Len(w) = n
    BY BoolFieldOf
  <2>2. Records(s, o) = (F \o none) \o u
    BY <1>4 DEF Records, Schema, u, none
  <2>3. /\ Serialize(s, o) = w \o WriteAll(u)
        /\ ByteSize(s, o) = n + Len(WriteAll(u))
    BY <1>4 DEF Serialize, ByteSize, LoginResponse_Serialize, LoginResponse_ByteSize,
                ComputeUnknownFieldsSize, u
  <2> HIDE DEF F, w, n
  <2>4. /\ (F \o none) \o u \in Seq(WireRecord)
        /\ WriteAll((F \o none) \o u) = (WriteAll(F) \o WriteAll(none)) \o WriteAll(u)
        /\ Len((WriteAll(F) \o WriteAll(none)) \o WriteAll(u)) =
              Len(WriteAll(F)) + Len(WriteAll(none)) + Len(WriteAll(u))
        /\ WriteAll(u) \in Bytes
    BY <1>0, <2>1, PartsWritten
  <2>5. w \o << >> = w
    BY <2>1, BytesJoin, NoBytes
  <2>6. Len(WriteAll(u)) \in Nat /\ Len(w) \in Nat /\ Len(WriteAll(none)) = 0
    BY <1>0, <2>1, <2>4, BytesFacts, NoBytes
  <2> QED
    BY <1>0, <2>1, <2>2, <2>3, <2>4, <2>5, <2>6
<1>5. CASE class = "ChatNotify"
  <2> DEFINE F == FieldRecords(s, o, Field("name", 4, LENGTH_DELIMITED))
             G == FieldRecords(s, o, Field("message", 5, LENGTH_DELIMITED))
             v == StringWritten(s, o, "name", 4)
             w == StringWritten(s, o, "message", 5)
             m == StringCounted(s, o, "name")
             n == StringCounted(s, o, "message")
  <2>0. "name" \in StringFields /\ 4 \in 1 .. 15 /\ "message" \in StringFields /\ 5 \in 1 .. 15
    BY DEF StringFields
  <2>1. /\ F \in Seq(WireRecord) /\ WriteAll(F) = v /\ v \in Bytes /\ Len(v) = m
        /\ G \in Seq(WireRecord) /\ WriteAll(G) = w /\ w \in Bytes /\ Len(w) = n
    BY <2>0, StringFieldOf
  <2>2. Records(s, o) = (F \o G) \o u
    <3>1. Schema[class] = <<Field("name", 4, LENGTH_DELIMITED),
                            Field("message", 5, LENGTH_DELIMITED)>>
      BY <1>5 DEF Schema
    <3> DEFINE a == Field("name", 4, LENGTH_DELIMITED)
               e == Field("message", 5, LENGTH_DELIMITED)
    <3>2. Schema[class] = <<a, e>>
      BY <3>1
    <3> HIDE DEF a, e
    <3>3. Len(Schema[class]) > 1 /\ Schema[class][1] = a /\ Schema[class][2] = e
      BY <3>2
    <3>4. Records(s, o) = (FieldRecords(s, o, a) \o FieldRecords(s, o, e)) \o u
      BY <3>3 DEF Records, u
    <3> QED
      BY <3>4 DEF a, e
  <2>3. /\ Serialize(s, o) = (v \o w) \o WriteAll(u)
        /\ ByteSize(s, o) = m + n + Len(WriteAll(u))
    BY <1>5 DEF Serialize, ByteSize, ChatNotify_Serialize, ChatNotify_ByteSize,
                ComputeUnknownFieldsSize, u
  <2> HIDE DEF F, G, v, w, m, n
  <2>4. /\ (F \o G) \o u \in Seq(WireRecord)
        /\ WriteAll((F \o G) \o u) = (WriteAll(F) \o WriteAll(G)) \o WriteAll(u)
        /\ Len((WriteAll(F) \o WriteAll(G)) \o WriteAll(u)) =
              Len(WriteAll(F)) + Len(WriteAll(G)) + Len(WriteAll(u))
    BY <1>0, <2>1, PartsWritten
  <2> QED
    BY <2>1, <2>2, <2>3, <2>4
<1> QED
  BY <1>2, <1>3, <1>4, <1>5 DEF Classes

\* Messages of the same content are written in the same way.
LEMMA SameWritten ==
    ASSUME class \in Classes, NEW s, NEW t, NEW o, NEW p,
           t.has[p] = s.has[o], t.unknown[p] = s.unknown[o],
           \A f \in StringFields : f \in s.has[o] => string(t, p, f) = string(s, o, f),
           "success" \in s.has[o] => t.success[p] = s.success[o]
    PROVE  Serialize(t, p) = Serialize(s, o)
BY DEF Classes, Serialize, LoginRequest_Serialize, LoginResponse_Serialize,
       ChatRequest_Serialize, ChatNotify_Serialize, StringWritten, StringFields

-------------------------------------------------------------------------------
(* The calls keep the type of the state.                                     *)

TypedStates == States(Bytes, Seq(WireRecord))

LEMMA TypedShaped ==
    /\ << >> \in Bytes /\ << >> \in Seq(WireRecord)
    /\ \A s \in TypedStates : Shaped(s)
<1>1. << >> \in Bytes /\ << >> \in Seq(WireRecord)
  BY NoBytes
<1> QED
  BY <1>1 DEF TypedStates, Shaped

LEMMA CopiedTyped ==
    ASSUME NEW s \in TypedStates, NEW o \in Objects, NEW from \in Objects,
           NEW f \in StringFields, Space(s, o, Needed(s, from))
    PROVE  copied(s, o, from, f) \in TypedStates
<1>1. CASE f \in s.has[from]
  <2> DEFINE v == string(s, from, f)
  <2>1. v \in Bytes /\ << >> \in Bytes
    BY TypedParts, TypedShaped DEF TypedStates
  <2>2. s.ptr[o][f] = kEmptyString => \E n \in Cells : n \notin s.allocated
    <3>1. f \in Needed(s, from) /\ Shaped(s)
      BY <1>1, TypedShaped DEF Needed
    <3> QED
      BY <3>1, SpaceFree
  <2>3. copied(s, o, from, f) = set(s, o, f, v)
    BY <1>1 DEF copied
  <2> HIDE DEF v
  <2>4. set(s, o, f, v) \in States(Bytes, Seq(WireRecord))
    BY <2>1, <2>2, SetTyped DEF TypedStates
  <2> QED
    BY <2>3, <2>4 DEF TypedStates
<1>2. CASE f \notin s.has[from]
  BY <1>2 DEF copied
<1> QED
  BY <1>1, <1>2

LEMMA MergedTyped ==
    ASSUME NEW s \in TypedStates, NEW o \in Objects, NEW from \in Objects
    PROVE  merged(s, o, from) \in TypedStates
<1> DEFINE x == s.unknown[o] \o s.unknown[from]
<1>1. x \in Seq(WireRecord)
  <2>1. s.unknown[o] \in Seq(WireRecord) /\ s.unknown[from] \in Seq(WireRecord)
    BY TypedParts DEF TypedStates
  <2> QED
    BY <2>1
<1>2. merged(s, o, from) = Extend(s, o, x)
  BY DEF merged, Extend
<1> HIDE DEF x
<1>3. Extend(s, o, x) \in States(Bytes, Seq(WireRecord))
  BY <1>1, ExtendTyped DEF TypedStates
<1> QED
  BY <1>2, <1>3 DEF TypedStates

\* MergeFrom of any class.
LEMMA ClassMergeTyped ==
    ASSUME class \in Classes, NEW s \in TypedStates, Good(s, Fields[class]),
           NEW o \in Objects, o \in s.alive, NEW from \in Objects, from # o,
           Space(s, o, Needed(s, from))
    PROVE  MergeFrom(s, o, from) \in TypedStates
<1>1. ASSUME NEW f \in StringFields
      PROVE  merged(copied(s, o, from, f), o, from) \in TypedStates
  BY <1>1, CopiedTyped, MergedTyped
<1>2. CASE class = "ChatNotify"
  <2> DEFINE F == Fields[class]
             m == copied(s, o, from, "name")
             u == copied(m, o, from, "message")
  <2>0. /\ F \in SUBSET FieldNames /\ "name" \in F
        /\ "name" \in StringFields /\ "message" \in StringFields
    BY <1>2 DEF Fields, FieldNames, StringFields
  <2>g. Good(s, F)
    OBVIOUS
  <2> HIDE DEF F
  <2>1. m \in TypedStates
    BY <2>0, CopiedTyped
  <2>2. CopyResult(s, m, o, from, F)
    BY <2>0, <2>g, CopiedGood
  <2> HIDE DEF m
  <2>3. Space(m, o, Needed(m, from))
    BY <2>2 DEF CopyResult
  <2>4. u \in TypedStates
    BY <2>0, <2>1, <2>3, CopiedTyped
  <2> HIDE DEF u
  <2>5. merged(u, o, from) \in TypedStates
    BY <2>4, MergedTyped
  <2> QED
    BY <1>2, <2>5 DEF MergeFrom, ChatNotify_MergeFrom, u, m
<1>3. CASE class = "LoginResponse"
  <2> DEFINE b == s.success[from]
             m == IF "success" \in s.has[from] THEN set_success(s, o, b) ELSE s
  <2>1. b \in BOOLEAN
    BY TypedParts DEF TypedStates
  <2>2. set_success(s, o, b) \in TypedStates
    <3> HIDE DEF b
    <3> QED
      BY <2>1, SuccessTyped DEF TypedStates
  <2>3. m \in TypedStates
    BY <2>2
  <2>4. MergeFrom(s, o, from) = merged(m, o, from)
    BY <1>3 DEF MergeFrom, LoginResponse_MergeFrom
  <2> HIDE DEF m
  <2> QED
    BY <2>3, <2>4, MergedTyped
<1>4. CASE class = "LoginRequest"
  BY <1>1, <1>4 DEF MergeFrom, LoginRequest_MergeFrom, StringFields
<1>5. CASE class = "ChatRequest"
  BY <1>1, <1>5 DEF MergeFrom, ChatRequest_MergeFrom, StringFields
<1> QED
  BY <1>2, <1>3, <1>4, <1>5 DEF Classes

\* What a call is made with, and what is left.
LEMMA AtTypedCall ==
    ASSUME IInv, TypeOK
    PROVE  /\ state \in TypedStates /\ class \in Classes
           /\ Good(state, Fields[class]) /\ state.alive \subseteq Objects
<1>1. state \in TypedStates
  BY DEF TypeOK, StateOK, TypedStates, States, FieldNames
<1> QED
  BY <1>1, AtCall

\* A call whose result is of the type keeps it.
LEMMA CallTyped ==
    ASSUME TypeOK, NEW t \in TypedStates, Call(t)
    PROVE  TypeOK'
<1>1. /\ class' = class /\ state' = t /\ target' = target /\ at' = at /\ input' = input
      /\ returned' = returned /\ legitimate_message_end_' = legitimate_message_end_
      /\ source' = source /\ cut' = cut /\ at = "idle"
  BY DEF Call, parse_vars
<1>2. StateOK'
  BY <1>1 DEF StateOK, TypedStates, States, FieldNames
<1> QED
  BY <1>1, <1>2 DEF TypeOK

LEMMA TypedConstruct ==
    ASSUME IInv, TypeOK, NEW o \in Objects, Construct(o)
    PROVE  TypeOK'
<1>1. SharedCtor(state, o) \in TypedStates
  BY AtTypedCall, ConstructTyped, TypedShaped DEF TypedStates
<1> QED
  BY <1>1, CallTyped DEF Construct

LEMMA TypedDestroy ==
    ASSUME IInv, TypeOK, NEW o \in Objects, Destroy(o)
    PROVE  TypeOK'
<1>1. destroyed(state, o) \in TypedStates
  BY AtTypedCall, DestroyTyped, TypedShaped DEF TypedStates
<1> QED
  BY <1>1, CallTyped DEF Destroy

LEMMA TypedClear ==
    ASSUME IInv, TypeOK, NEW o \in Objects
    PROVE  Clear(state, o) \in TypedStates
BY AtTypedCall, ClassClearTyped, TypedShaped DEF TypedStates

LEMMA TypedUnknown ==
    ASSUME IInv, TypeOK, NEW o \in Objects, UnknownCall(o)
    PROVE  TypeOK'
<1> DEFINE r == [number |-> 7, type |-> VARINT, value |-> 1]
           x == Append(state.unknown[o], r)
<1>1. r \in WireRecord
  BY DEF WireRecord
<1> HIDE DEF r
<1>2. state.unknown[o] \in Seq(WireRecord)
  BY AtTypedCall, TypedParts DEF TypedStates
<1>3. x \in Seq(WireRecord)
  BY <1>1, <1>2
<1>4. Call(Extend(state, o, x))
  BY DEF UnknownCall, Extend, r
<1> HIDE DEF x
<1>5. Extend(state, o, x) \in TypedStates
  BY <1>3, AtTypedCall, ExtendTyped DEF TypedStates
<1> QED
  BY <1>4, <1>5, CallTyped

LEMMA TypedMerge ==
    ASSUME IInv, TypeOK, NEW o \in Objects, NEW from \in Objects, MergeCall(o, from)
    PROVE  TypeOK'
<1>1. o # from /\ o \in state.alive /\ Space(state, o, Needed(state, from))
  BY RoomIsSpace DEF MergeCall, Needed
<1>2. MergeFrom(state, o, from) \in TypedStates
  BY <1>1, AtTypedCall, ClassMergeTyped
<1> QED
  BY <1>2, CallTyped DEF MergeCall

LEMMA TypedSwap ==
    ASSUME IInv, TypeOK, NEW o \in Objects, NEW p \in Objects, SwapCall(o, p)
    PROVE  TypeOK'
<1>1. Call(Exchange(state, o, p))
  BY DEF SwapCall, Exchange
<1>2. Exchange(state, o, p) \in TypedStates
  BY AtTypedCall, ExchangeTyped DEF TypedStates
<1> QED
  BY <1>1, <1>2, CallTyped

LEMMA TypedNewString ==
    ASSUME IInv, TypeOK, NEW value \in Strings, NewString(value)
    PROVE  TypeOK'
<1>1. value \in Bytes
  BY MessagesAssumption
<1>2. new(state) \in Cells
  <2>1. state.allocated \subseteq Cells /\ Cells # state.allocated
    BY AtTypedCall, ShapeParts, TypedShaped DEF NewString
  <2>2. \E n \in Cells : n \notin state.allocated
    BY <2>1
  <2> QED
    BY <2>2 DEF new
<1> DEFINE n == new(state)
<1>3. Call(Keep(state, n, value))
  BY DEF NewString, Keep
<1> HIDE DEF n
<1>4. n \in Cells
  BY <1>2 DEF n
<1>5. Keep(state, n, value) \in TypedStates
  BY <1>1, <1>4, AtTypedCall, KeepTyped DEF TypedStates
<1> QED
  BY <1>3, <1>5, CallTyped

LEMMA TypedDeleteString ==
    ASSUME IInv, TypeOK, NEW c, DeleteString(c)
    PROVE  TypeOK'
<1> DEFINE m == delete(state, c)
<1>1. m \in TypedStates
  BY AtTypedCall, DeleteTyped, TypedShaped DEF TypedStates
<1>2. Call([m EXCEPT !.held = @ \ {c}])
  BY DEF DeleteString
<1> HIDE DEF m
<1>3. [m EXCEPT !.held = @ \ {c}] = Hold(m, m.held \ {c})
  BY <1>1 DEF Hold
<1>4. m.held \ {c} \in SUBSET Cells
  BY <1>1, TypedParts DEF TypedStates
<1>5. Hold(m, m.held \ {c}) \in TypedStates
  BY <1>1, <1>4, HoldTyped DEF TypedStates
<1> QED
  BY <1>2, <1>3, <1>5, CallTyped

LEMMA TypedString ==
    ASSUME IInv, TypeOK, NEW o \in Objects, NEW f \in StringFields, StringCall(o, f)
    PROVE  TypeOK'
<1>0. /\ state \in States(Bytes, Seq(WireRecord)) /\ << >> \in Bytes /\ Shaped(state)
  BY AtTypedCall, TypedShaped DEF TypedStates
<1>r. Room(o, {f}) => (state.ptr[o][f] = kEmptyString => \E n \in Cells : n \notin state.allocated)
  BY <1>0, RoomForOne
<1>1. ASSUME NEW value \in Strings, Room(o, {f}) PROVE set(state, o, f, value) \in TypedStates
  <2>1. value \in Bytes
    BY <1>1, MessagesAssumption
  <2> QED
    BY <1>0, <1>1, <1>r, <2>1, SetTyped DEF TypedStates
<1>2. ASSUME Room(o, {f}) PROVE mutable(state, o, f) \in TypedStates
  BY <1>0, <1>2, <1>r, MutableTyped DEF TypedStates
<1>3. clear(state, o, f) \in TypedStates /\ release(state, o, f) \in TypedStates
  BY <1>0, ClearTyped, ReleaseTyped DEF TypedStates
<1>4. ASSUME NEW c \in state.held \cup {NULL} PROVE set_allocated(state, o, f, c) \in TypedStates
  BY <1>0, <1>4, SetAllocatedTyped DEF TypedStates
<1> QED
  BY <1>1, <1>2, <1>3, <1>4, CallTyped DEF StringCall

LEMMA TypedSuccess ==
    ASSUME IInv, TypeOK, NEW o \in Objects, LoginResponse_success(o)
    PROVE  TypeOK'
<1>1. ASSUME NEW b \in BOOLEAN
      PROVE  set_success(state, o, b) \in TypedStates /\ clear_success(state, o) \in TypedStates
  BY <1>1, AtTypedCall, SuccessTyped DEF TypedStates
<1> QED
  BY <1>1, CallTyped DEF LoginResponse_success

LEMMA TypedCopyConstruct ==
    ASSUME IInv, TypeOK, NEW o \in Objects, NEW from \in Objects, CopyConstruct(o, from)
    PROVE  TypeOK'
<1> DEFINE m == SharedCtor(state, o)
<1>0. /\ o \notin state.alive /\ from \in state.alive /\ o # from
      /\ Space(state, o, Needed(state, from)) /\ Call(MergeFrom(m, o, from))
  BY RoomIsSpace DEF CopyConstruct, Needed
<1>1. m \in TypedStates
  BY AtTypedCall, ConstructTyped, TypedShaped DEF TypedStates
<1>2. /\ Good(m, Fields[class]) /\ SameStrings(state, m)
      /\ m.alive = state.alive \cup {o} /\ m.has[from] = state.has[from]
  BY <1>0, AtTypedCall, AtCall, ConstructGood
<1> HIDE DEF m
<1>3. Needed(m, from) = Needed(state, from)
  BY <1>2 DEF Needed
<1>4. Space(m, o, Needed(m, from))
  <2>1. \A g \in Needed(state, from) : m.ptr[o][g] = state.ptr[o][g]
    BY <1>2 DEF SameStrings, Needed
  <2>2. m.allocated = state.allocated
    BY <1>2 DEF SameStrings
  <2> QED
    BY <1>0, <1>3, <2>1, <2>2, SpaceSame
<1>5. MergeFrom(m, o, from) \in TypedStates
  BY <1>0, <1>1, <1>2, <1>4, AtTypedCall, ClassMergeTyped
<1> QED
  BY <1>0, <1>5, CallTyped

\* A copy of a message: what CopyFrom begins with and what it ends with.
LEMMA CopyDone ==
    ASSUME IInv, TypeOK, NEW o \in Objects, NEW from \in Objects, CopyCall(o, from)
    PROVE  /\ Call(CopyFrom(state, o, from)) /\ CopyFrom(state, o, from) \in TypedStates
           /\ Serialize(CopyFrom(state, o, from), o) = Serialize(state, from)
<1> DEFINE m == Clear(state, o)
           t == MergeFrom(m, o, from)
<1>0. /\ o # from /\ o \in state.alive /\ Space(state, o, Needed(state, from))
      /\ Call(CopyFrom(state, o, from)) /\ CopyFrom(state, o, from) = t
  BY RoomIsSpace DEF CopyCall, CopyFrom, Needed
<1>1. ClearResult(state, m, o, Fields[class])
  BY AtTypedCall, ClassClear
<1>f. Forgotten(state, m, o)
  BY AtTypedCall, ClassClearForgets
<1>t. m \in TypedStates
  BY TypedClear
<1> HIDE DEF m
<1>2. /\ Good(m, Fields[class]) /\ m.has[from] = state.has[from]
      /\ m.alive = state.alive /\ m.ptr = state.ptr /\ m.allocated = state.allocated
  BY <1>0, <1>1 DEF ClearResult
<1>n. Needed(m, from) = Needed(state, from)
  BY <1>2 DEF Needed
<1>3. Space(m, o, Needed(m, from))
  <2>1. \A g \in Needed(state, from) : m.ptr[o][g] = state.ptr[o][g]
    BY <1>2
  <2>2. Space(state, o, Needed(state, from)) /\ m.allocated = state.allocated
    BY <1>0, <1>2
  <2>3. Space(m, o, Needed(state, from))
    BY <2>1, <2>2, SpaceSame
  <2> QED
    BY <2>3, <1>n
<1>4. t \in TypedStates
  BY <1>0, <1>2, <1>3, <1>t, AtTypedCall, ClassMergeTyped
<1>5. Joined(m, t, o, from)
  BY <1>0, <1>2, <1>3, AtTypedCall, ClassMergeValues
<1> HIDE DEF t
<1>6. /\ SameContent(state, m, from) /\ m.has[o] = {} /\ m.unknown[o] = << >>
  BY <1>0, <1>f DEF Forgotten
<1>7. t.unknown[o] = state.unknown[from]
  <2> DEFINE x == state.unknown[from]
  <2>1. x \in Seq(WireRecord)
    BY AtTypedCall, TypedParts DEF TypedStates
  <2>2. t.unknown[o] = << >> \o x
    BY <1>5, <1>6 DEF Joined, SameContent
  <2> HIDE DEF x
  <2>3. << >> \o x = x
    BY <2>1
  <2> QED
    BY <2>2, <2>3 DEF x
<1>8. /\ t.has[o] = state.has[from]
      /\ \A f \in StringFields : f \in state.has[from] => string(t, o, f) = string(state, from, f)
      /\ "success" \in state.has[from] => t.success[o] = state.success[from]
  BY <1>5, <1>6 DEF Joined, SameContent
<1>9. Serialize(t, o) = Serialize(state, from)
  BY <1>7, <1>8, AtTypedCall, SameWritten
<1> QED
  BY <1>0, <1>4, <1>9

-------------------------------------------------------------------------------
(* A content that is being read, in bytes: after k of the records it was     *)
(* made of, of which the last bytes are missing.                             *)

Pending(records, k, missing, b) ==
    /\ k \in 0 .. Len(records)
    /\ missing \in 0 .. Len(Rest(records, k))
    /\ b = Cut(Rest(records, k), missing)

\* The bytes that are missing are those behind the first k records; or they begin
\* inside a record.
Behind(records, k, missing) ==
    k \in 0 .. Len(records) /\ missing = Len(Rest(records, k))
Inside(records, missing) == \A k \in 0 .. Len(records) : ~Behind(records, k, missing)

\* Before the first record all of the content is there.
LEMMA PendingFirst ==
    ASSUME NEW records \in Seq(WireRecord), NEW missing \in Nat,
           missing <= Len(WriteAll(records))
    PROVE  Pending(records, 0, missing, Cut(WriteAll(records), missing))
<1> DEFINE c == WriteAll(records)
<1>1. c \in Bytes /\ Rest(records, 0) = c /\ Len(records) \in Nat
  BY RestFacts, RecordsFacts
<1> HIDE DEF c
<1>2. Len(c) \in Nat
  BY <1>1, BytesFacts
<1>3. missing \in 0 .. Len(c)
  BY <1>2 DEF c
<1> QED
  BY <1>1, <1>3 DEF Pending, c

\* What is there begins with the next record, with a part of it, or is nothing.
LEMMA PendingIs ==
    ASSUME NEW records \in Seq(WireRecord), NEW k, NEW missing, NEW b,
           Pending(records, k, missing, b)
    PROVE  /\ b \in Bytes /\ k \in Nat /\ missing \in Nat
           /\ \/ Behind(records, k, missing) /\ b = << >>
              \/ /\ k + 1 \in 1 .. Len(records)
                 /\ \E rest \in Bytes :
                       /\ Pending(records, k + 1, missing, rest)
                       /\ b = WriteUnknown(records[k + 1]) \o rest
              \/ /\ k + 1 \in 1 .. Len(records) /\ Inside(records, missing) /\ b # << >>
                 /\ Begins(b, WriteUnknown(records[k + 1]))
<1> DEFINE n == Len(records)
           R(i) == Rest(records, i)
<1>0. n \in Nat /\ k \in 0 .. n
  BY RecordsFacts DEF Pending
<1>1. R(k) \in Bytes /\ missing \in 0 .. Len(R(k)) /\ Len(R(k)) \in Nat /\ b = Cut(R(k), missing)
  BY <1>0, RestJoin, BytesFacts DEF Pending
<1>2. b \in Bytes
  <2> DEFINE c == R(k)
  <2>1. c \in Bytes /\ missing \in 0 .. Len(c) /\ b = Cut(c, missing)
    BY <1>1
  <2> HIDE DEF c
  <2> QED
    BY <2>1, CutBytes
<1>3. CASE k = n
  <2>1. R(k) = << >>
    BY <1>3, RestFacts
  <2>2. Len(R(k)) = 0
    BY <2>1
  <2>3. missing = 0
    BY <1>1, <2>2
  <2>4. Cut(<< >>, 0) = << >>
    <3>1. << >> \in Bytes /\ 0 \in 0 .. Len(<< >>)
      BY NoBytes
    <3> QED
      BY <3>1, CutBytes
  <2> QED
    BY <1>0, <1>1, <1>2, <1>3, <2>1, <2>2, <2>3, <2>4 DEF Behind
<1>4. CASE k # n
  <2>0. k + 1 \in 1 .. n /\ k + 1 - 1 = k /\ k + 1 \in 0 .. n
    BY <1>0, <1>4
  <2> DEFINE w == WriteUnknown(records[k + 1])
             d == R(k + 1)
  <2>1. w \in Bytes
    BY <2>0, RecordsFacts, RecordWritten
  <2>2. d \in Bytes
    BY <2>0, RestJoin
  <2>3. R(k) = w \o d
    <3>1. \A i \in 1 .. n : R(i - 1) = WriteUnknown(records[i]) \o R(i)
      BY RestFacts
    <3> DEFINE W(i) == WriteUnknown(records[i])
    <3>2. \A i \in 1 .. n : R(i - 1) = W(i) \o R(i)
      BY <3>1
    <3> HIDE DEF R, W
    <3>3. ASSUME NEW i \in 1 .. n, i - 1 = k PROVE R(k) = W(i) \o R(i)
      BY <3>2, <3>3
    <3> DEFINE j == k + 1
    <3>j. j \in 1 .. n /\ j - 1 = k
      BY <1>0, <1>4
    <3> HIDE DEF j
    <3>4. R(k) = W(j) \o R(j)
      BY <3>3, <3>j
    <3> QED
      BY <3>4 DEF W, j
  <2>4. missing \in 0 .. Len(w \o d) /\ b = Cut(w \o d, missing)
    BY <1>1, <2>3
  <2>5. \/ missing \in 0 .. Len(d) /\ Cut(w \o d, missing) = w \o Cut(d, missing)
        \/ missing > Len(d) /\ Begins(Cut(w \o d, missing), w)
    <3> HIDE DEF w, d
    <3> QED
      BY <2>1, <2>2, <2>4, CutJoin
  <2>6. CASE missing \in 0 .. Len(d) /\ b = w \o Cut(d, missing)
    <3> DEFINE e == Cut(d, missing)
    <3>1. e \in Bytes
      <4> HIDE DEF d
      <4> QED
        BY <2>2, <2>6, CutBytes
    <3>2. Pending(records, k + 1, missing, e)
      BY <2>0, <2>6 DEF Pending
    <3>3. b = w \o e
      BY <2>6
    <3> HIDE DEF e
    <3>4. \E rest \in Bytes :
             /\ Pending(records, k + 1, missing, rest)
             /\ b = WriteUnknown(records[k + 1]) \o rest
      BY <3>1, <3>2, <3>3
    <3> QED
      BY <1>0, <1>1, <1>2, <2>0, <3>4
  <2>7. CASE missing > Len(d) /\ Begins(b, w)
    <3>1. CASE missing = Len(R(k))
      <4>1. Cut(R(k), missing) = << >>
        <5> DEFINE c == R(k)
        <5>1. c \in Bytes /\ missing = Len(c) /\ Len(c) \in 0 .. Len(c) /\ Len(c) - missing = 0
          BY <1>1, <3>1
        <5> HIDE DEF c
        <5>2. Cut(c, missing) = SubSeq(c, 1, 0)
          BY <5>1 DEF Cut
        <5>3. SubSeq(c, 1, 0) = << >>
          BY SubSeqEmpty
        <5> QED
          BY <5>2, <5>3 DEF c
      <4> QED
        BY <1>0, <1>1, <1>2, <3>1, <4>1 DEF Behind
    <3>2. CASE missing # Len(R(k))
      <4>1. missing < Len(R(k)) /\ Len(R(k + 1)) < missing
        BY <1>1, <2>7, <3>2
      <4>2. ASSUME NEW i \in 0 .. n, missing = Len(R(i)) PROVE FALSE
        <5>1. CASE i < k
          <6>1. Len(R(k)) < Len(R(i))
            BY <1>0, <5>1, RestShorter
          <6> QED
            BY <1>1, <4>1, <4>2, <6>1
        <5>2. CASE i = k
          BY <3>2, <4>2, <5>2
        <5>3. CASE i = k + 1
          <6> HIDE DEF R
          <6> QED
            BY <1>1, <4>1, <4>2, <5>3
        <5>4. CASE k + 1 < i
          <6> DEFINE j == k + 1
          <6>1. j \in 0 .. n /\ j < i /\ Len(R(j)) < missing
            BY <2>0, <4>1, <5>4
          <6> HIDE DEF j
          <6>2. Len(R(i)) < Len(R(j))
            BY <6>1, RestShorter
          <6>3. Len(R(j)) \in Nat
            BY <6>1, RestJoin, BytesFacts
          <6> QED
            BY <1>1, <4>2, <6>1, <6>2, <6>3
        <5> QED
          BY <1>0, <5>1, <5>2, <5>3, <5>4
      <4>3. Inside(records, missing)
        BY <4>2 DEF Inside, Behind
      <4>4. b # << >>
        <5> DEFINE c == R(k)
        <5>1. c \in Bytes /\ missing \in 0 .. Len(c) /\ b = Cut(c, missing)
          BY <1>1
        <5>2. missing < Len(c) /\ Len(c) \in Nat
          BY <1>1, <4>1
        <5> HIDE DEF c
        <5>3. Len(b) = Len(c) - missing
          BY <5>1, CutBytes
        <5> QED
          BY <5>2, <5>3, <5>1, NoBytes
      <4> QED
        BY <1>0, <1>1, <1>2, <2>0, <2>7, <4>3, <4>4
    <3> QED
      BY <3>1, <3>2
  <2> QED
    BY <2>4, <2>5, <2>6, <2>7
<1> QED
  BY <1>3, <1>4

\* Nothing can be read, and why.
Stopped(records, k, missing, b) ==
    /\ ReadTag(b) = 0
    /\ \/ Behind(records, k, missing) /\ b = << >>
       \/ Inside(records, missing) /\ b # << >>

\* The tag of the next record can be read.
TagThere(r, b) ==
    /\ r \in WireRecord /\ b # << >>
    /\ ReadTag(b) = TagOf(r) /\ ReadTag(b) # 0
    /\ GetTagFieldNumber(ReadTag(b)) = r.number
    /\ GetTagWireType(ReadTag(b)) = r.type

\* All of it is there, or only a part.
WholeThere(records, k, missing, b) ==
    /\ k + 1 \in 1 .. Len(records)
    /\ TagThere(records[k + 1], b)
    /\ \E rest \in Bytes :
          /\ Pending(records, k + 1, missing, rest)
          /\ AfterVarint(b) = Payload(records[k + 1]) \o rest
PartThere(records, k, missing, b) ==
    /\ k + 1 \in 1 .. Len(records) /\ Inside(records, missing)
    /\ TagThere(records[k + 1], b)
    /\ Begins(AfterVarint(b), Payload(records[k + 1]))

\* No bytes, no tag.
LEMMA NothingRead == ReadTag(<< >>) = 0
<1>1. VarintEnds(<< >>) = {}
  BY DEF VarintEnds
<1> QED
  BY <1>1 DEF ReadTag, VarintReadable

\* The three cases the parser can be in at a record.
LEMMA WhatIsThere ==
    ASSUME NEW records \in Seq(WireRecord), NEW k, NEW missing, NEW b,
           Pending(records, k, missing, b)
    PROVE  \/ Stopped(records, k, missing, b)
           \/ WholeThere(records, k, missing, b)
           \/ PartThere(records, k, missing, b)
<1>1. CASE Behind(records, k, missing) /\ b = << >>
  BY <1>1, NothingRead DEF Stopped
<1> DEFINE r == records[k + 1]
<1>r. k + 1 \in 1 .. Len(records) => r \in WireRecord
  BY RecordsFacts
<1>2. ASSUME k + 1 \in 1 .. Len(records), NEW rest \in Bytes,
             Pending(records, k + 1, missing, rest), b = WriteUnknown(r) \o rest
      PROVE  WholeThere(records, k, missing, b)
  <2>1. r \in WireRecord
    BY <1>2, <1>r
  <2> DEFINE d == Payload(r) \o rest
  <2>2. b # << >> /\ ReadTag(b) = TagOf(r) /\ AfterVarint(b) = d
    <3> HIDE DEF r
    <3> QED
      BY <1>2, <2>1, TagRead
  <2>3. TagOf(r) # 0 /\ GetTagFieldNumber(TagOf(r)) = r.number /\ GetTagWireType(TagOf(r)) = r.type
    <3> HIDE DEF r
    <3> QED
      BY <2>1, RecordWritten
  <2>4. TagThere(r, b)
    BY <2>1, <2>2, <2>3 DEF TagThere
  <2> QED
    BY <1>2, <2>2, <2>4 DEF WholeThere
<1>3. ASSUME k + 1 \in 1 .. Len(records), Inside(records, missing), b # << >>,
             Begins(b, WriteUnknown(r))
      PROVE  Stopped(records, k, missing, b) \/ PartThere(records, k, missing, b)
  <2>1. r \in WireRecord
    BY <1>3, <1>r
  <2>2. \/ ReadTag(b) = 0
        \/ ReadTag(b) = TagOf(r) /\ Begins(AfterVarint(b), Payload(r))
    <3> HIDE DEF r
    <3> QED
      BY <1>3, <2>1, TagCut
  <2>3. TagOf(r) # 0 /\ GetTagFieldNumber(TagOf(r)) = r.number /\ GetTagWireType(TagOf(r)) = r.type
    <3> HIDE DEF r
    <3> QED
      BY <2>1, RecordWritten
  <2>4. CASE ReadTag(b) = 0
    BY <1>3, <2>4 DEF Stopped
  <2>5. CASE ReadTag(b) = TagOf(r) /\ Begins(AfterVarint(b), Payload(r))
    <3>1. b # << >>
      BY <2>3, <2>5, NothingRead
    <3>2. TagThere(r, b)
      BY <2>1, <2>3, <2>5, <3>1 DEF TagThere
    <3> QED
      BY <1>3, <2>5, <3>2 DEF PartThere
  <2> QED
    BY <2>2, <2>4, <2>5
<1> QED
  BY <1>1, <1>2, <1>3, PendingIs

\* Where a tag below 128 is expected and read, the rest is what is behind it.
LEMMA TagExpected ==
    ASSUME NEW rest \in Bytes
    PROVE  LET b == << 42 >> \o rest IN
           ReadTag(b) = 42 /\ AfterVarint(b) = rest
<1>1. WriteVarint32[42] = << 42 >>
  <2>1. \A v \in Nat : v < 128 => WriteVarint32[v] = <<v>>
    BY VarintWritten
  <2> QED
    BY <2>1
<1> DEFINE b == WriteVarint32[42] \o rest
<1>2. VarintReadable(b) /\ VarintValue(b) = 42 /\ AfterVarint(b) = rest
  BY VarintRead
<1> HIDE DEF b
<1>3. ReadTag(b) = 42
  BY <1>2 DEF ReadTag
<1>4. b = << 42 >> \o rest
  BY <1>1 DEF b
<1> QED
  BY <1>2, <1>3, <1>4

\* ExpectTag leaves what is behind the tag.
LEMMA TagSkipped ==
    ASSUME NEW b \in Bytes, ExpectTag(b, 42)
    PROVE  Drop(b, 1) \in Bytes /\ b = << 42 >> \o Drop(b, 1)
<1> DEFINE n == Len(b)
           d == SubSeq(b, 2, n)
           h == << 42 >>
<1>1. n \in Nat /\ b # << >> /\ b[1] = 42 /\ n >= 1
  <2>1. n \in Nat /\ b # << >> /\ b[1] = 42
    BY BytesFacts DEF ExpectTag
  <2>2. n # 0
    <3>1. ASSUME n = 0 PROVE FALSE
      <4>1. b \in Bytes /\ << >> \in Bytes /\ Len(b) = Len(<< >>) /\ Len(b) = 0
        BY <3>1, NoBytes
      <4>2. b = << >>
        BY <4>1, BytesEqual
      <4> QED
        BY <2>1, <4>2
    <3> QED
      BY <3>1
  <2> QED
    BY <2>1, <2>2
<1>2. 2 \in 1 .. Len(b) + 1 /\ n \in 2 - 1 .. Len(b) /\ n - 2 + 1 = n - 1
  BY <1>1
<1>3. d \in Bytes /\ Len(d) = n - 1 /\ \A i \in 1 .. n - 1 : d[i] = b[2 + i - 1]
  <2>1. d \in Bytes /\ Len(d) = n - 2 + 1 /\ \A i \in 1 .. n - 2 + 1 : d[i] = b[2 + i - 1]
    <3> HIDE DEF n
    <3> QED
      BY <1>2, BytesPart
  <2> QED
    BY <1>2, <2>1
<1>4. h \in Bytes /\ Len(h) = 1 /\ h[1] = 42
  BY OneByte
<1>5. Drop(b, 1) = d
  BY DEF Drop
<1> HIDE DEF d, h
<1>6. /\ h \o d \in Bytes /\ Len(h \o d) = n
      /\ \A i \in 1 .. n : (h \o d)[i] = IF i <= 1 THEN h[i] ELSE d[i - 1]
  <2>1. /\ h \o d \in Bytes /\ Len(h \o d) = Len(h) + Len(d)
        /\ \A i \in 1 .. Len(h) + Len(d) :
              (h \o d)[i] = IF i <= Len(h) THEN h[i] ELSE d[i - Len(h)]
    BY <1>3, <1>4, BytesConcat
  <2>2. Len(h) + Len(d) = n
    BY <1>1, <1>3, <1>4
  <2> QED
    BY <1>4, <2>1, <2>2
<1>7. \A i \in 1 .. n : b[i] = (h \o d)[i]
  <2> TAKE i \in 1 .. n
  <2>1. CASE i = 1
    BY <1>1, <1>4, <1>6, <2>1
  <2>2. CASE i # 1
    <3>1. i - 1 \in 1 .. n - 1 /\ ~(i <= 1) /\ 2 + (i - 1) - 1 = i
      BY <1>1, <2>2
    <3>2. d[i - 1] = b[i]
      BY <1>3, <3>1
    <3>3. (h \o d)[i] = d[i - 1]
      BY <1>6, <3>1
    <3> QED
      BY <3>2, <3>3
  <2> QED
    BY <2>1, <2>2
<1>8. b = h \o d
  <2> DEFINE e == h \o d
  <2>1. e \in Bytes /\ Len(b) = Len(e) /\ \A i \in 1 .. Len(b) : b[i] = e[i]
    BY <1>6, <1>7
  <2> HIDE DEF e
  <2>2. b = e
    BY <2>1, BytesEqual
  <2> QED
    BY <2>2 DEF e
<1> QED
  BY <1>3, <1>5, <1>8 DEF h

-------------------------------------------------------------------------------
(* What a message holds of the first k records of a content.                 *)

SchemaOf(c) == {Schema[c][i] : i \in 1 .. Len(Schema[c])}

\* The fields of each class.
LEMMA SchemaSets ==
    /\ SchemaOf("LoginRequest") = {Field("name", 1, LENGTH_DELIMITED)}
    /\ SchemaOf("LoginResponse") = {Field("success", 2, VARINT)}
    /\ SchemaOf("ChatRequest") = {Field("message", 3, LENGTH_DELIMITED)}
    /\ SchemaOf("ChatNotify") = {Field("name", 4, LENGTH_DELIMITED),
                                 Field("message", 5, LENGTH_DELIMITED)}
<1>1. ASSUME NEW x, NEW c, Schema[c] = <<x>> PROVE SchemaOf(c) = {x}
  BY <1>1 DEF SchemaOf
<1>2. ASSUME NEW x, NEW y, NEW c, Schema[c] = <<x, y>> PROVE SchemaOf(c) = {x, y}
  <2>1. Len(Schema[c]) = 2 /\ Schema[c][1] = x /\ Schema[c][2] = y
    BY <1>2
  <2>2. 1 .. 2 = {1, 2}
    OBVIOUS
  <2> QED
    BY <2>1, <2>2 DEF SchemaOf
<1>3. /\ Schema["LoginRequest"] = <<Field("name", 1, LENGTH_DELIMITED)>>
      /\ Schema["LoginResponse"] = <<Field("success", 2, VARINT)>>
      /\ Schema["ChatRequest"] = <<Field("message", 3, LENGTH_DELIMITED)>>
      /\ Schema["ChatNotify"] = <<Field("name", 4, LENGTH_DELIMITED),
                                  Field("message", 5, LENGTH_DELIMITED)>>
  BY DEF Schema
<1> QED
  BY <1>1, <1>2, <1>3

\* A field is known by its name, or by its number and type.
LEMMA SchemaFacts ==
    ASSUME NEW c \in Classes
    PROVE  /\ \A x \in SchemaOf(c) :
                 \/ x.type = LENGTH_DELIMITED /\ x.field \in StringFields
                 \/ x.type = VARINT /\ x.field = "success"
           /\ \A x, y \in SchemaOf(c) :
                 (x.number = y.number /\ x.type = y.type) \/ x.field = y.field => x = y
           /\ {x.field : x \in SchemaOf(c)} = Fields[c]
<1>1. CASE c # "ChatNotify"
  <2>1. ASSUME NEW f, NEW n, NEW type, SchemaOf(c) = {Field(f, n, type)}, Fields[c] = {f},
               \/ type = LENGTH_DELIMITED /\ f \in StringFields
               \/ type = VARINT /\ f = "success"
        PROVE  /\ \A x \in SchemaOf(c) :
                     \/ x.type = LENGTH_DELIMITED /\ x.field \in StringFields
                     \/ x.type = VARINT /\ x.field = "success"
               /\ \A x, y \in SchemaOf(c) :
                     (x.number = y.number /\ x.type = y.type) \/ x.field = y.field => x = y
               /\ {x.field : x \in SchemaOf(c)} = Fields[c]
    <3>1. Field(f, n, type).field = f /\ Field(f, n, type).type = type
      BY DEF Field
    <3> DEFINE z == Field(f, n, type)
    <3> HIDE DEF z
    <3>2. SchemaOf(c) = {z} /\ z.field = f /\ z.type = type
      BY <2>1, <3>1 DEF z
    <3> QED
      BY <2>1, <3>2
  <2>2. "name" \in StringFields /\ "message" \in StringFields
    BY DEF StringFields
  <2>3. CASE c = "LoginRequest"
    <3>1. SchemaOf(c) = {Field("name", 1, LENGTH_DELIMITED)} /\ Fields[c] = {"name"}
      BY <2>3, SchemaSets DEF Fields
    <3> QED
      BY <2>1, <2>2, <3>1
  <2>4. CASE c = "ChatRequest"
    <3>1. SchemaOf(c) = {Field("message", 3, LENGTH_DELIMITED)} /\ Fields[c] = {"message"}
      BY <2>4, SchemaSets DEF Fields
    <3> QED
      BY <2>1, <2>2, <3>1
  <2>5. CASE c = "LoginResponse"
    <3>1. SchemaOf(c) = {Field("success", 2, VARINT)} /\ Fields[c] = {"success"}
      BY <2>5, SchemaSets DEF Fields
    <3> QED
      BY <2>1, <3>1
  <2> QED
    BY <1>1, <2>3, <2>4, <2>5 DEF Classes
<1>2. CASE c = "ChatNotify"
  <2> DEFINE x == Field("name", 4, LENGTH_DELIMITED)
             y == Field("message", 5, LENGTH_DELIMITED)
  <2>1. /\ SchemaOf(c) = {x, y} /\ x.field = "name" /\ y.field = "message"
        /\ x.number = 4 /\ y.number = 5 /\ x.type = LENGTH_DELIMITED /\ y.type = LENGTH_DELIMITED
    BY <1>2, SchemaSets DEF Field
  <2>2. Fields[c] = {"name", "message"}
    BY <1>2 DEF Fields
  <2> HIDE DEF x, y
  <2> QED
    BY <2>1, <2>2 DEF StringFields
<1> QED
  BY <1>1, <1>2

\* The positions of the records of a field.
Occurs(records, x) ==
    {i \in 1 .. Len(records) : records[i].number = x.number /\ records[i].type = x.type}

HasValue(s, o, x, value) ==
    IF x.type = VARINT THEN s.success[o] = (value # 0) ELSE string(s, o, x.field) = value

FieldHeld(s, o, records, x, k) ==
    \/ x.field \notin s.has[o] /\ \A i \in Occurs(records, x) : ~(i <= k)
    \/ /\ x.field \in s.has[o]
       /\ \E i \in Occurs(records, x) :
             /\ i <= k /\ HasValue(s, o, x, records[i].value)
             /\ \A j \in Occurs(records, x) : j <= k => j <= i

ValuesHeld(c, s, o, records, k) == \A x \in SchemaOf(c) : FieldHeld(s, o, records, x, k)

\* OtherRecords, of any class and records.
IsOthers(f, c, records) ==
    f = [i \in 0 .. Len(records) |->
            IF i = 0 THEN << >>
            ELSE IF \E x \in SchemaOf(c) : i \in Occurs(records, x)
                 THEN f[i - 1]
                 ELSE Append(f[i - 1], records[i])]
OthersIn(c, records) == CHOOSE f : IsOthers(f, c, records)

\* The recursion of OtherRecords.
LEMMA OthersDefined ==
    ASSUME NEW c, NEW records \in Seq(WireRecord)
    PROVE  /\ OthersIn(c, records)[0] = << >>
           /\ \A i \in 1 .. Len(records) :
                 OthersIn(c, records)[i] =
                    IF \E x \in SchemaOf(c) : i \in Occurs(records, x)
                    THEN OthersIn(c, records)[i - 1]
                    ELSE Append(OthersIn(c, records)[i - 1], records[i])
<1> DEFINE n == Len(records)
           T == Seq(WireRecord)
           known == {i \in 1 .. n : \E x \in SchemaOf(c) : i \in Occurs(records, x)}
           step == [p \in (1 .. n) \X T |->
                       IF p[1] \in known THEN p[2] ELSE Append(p[2], records[p[1]])]
           g == OthersIn(c, records)
<1>0. n \in Nat /\ (\A i \in 1 .. n : records[i] \in WireRecord) /\ << >> \in T
  BY RecordsFacts
<1>k. \A i \in 1 .. n : i \in known <=> \E x \in SchemaOf(c) : i \in Occurs(records, x)
  OBVIOUS
<1>i. \A f : IsOthers(f, c, records) <=>
         f = [i \in 0 .. n |->
                IF i = 0 THEN << >>
                ELSE IF \E x \in SchemaOf(c) : i \in Occurs(records, x)
                     THEN f[i - 1] ELSE Append(f[i - 1], records[i])]
  BY DEF IsOthers
<1> HIDE DEF n, known
<1>1. step \in [(1 .. n) \X T -> T]
  <2>1. ASSUME NEW p \in (1 .. n) \X T
        PROVE  (IF p[1] \in known THEN p[2] ELSE Append(p[2], records[p[1]])) \in T
    <3>1. p[1] \in 1 .. n /\ p[2] \in Seq(WireRecord) /\ records[p[1]] \in WireRecord
      BY <1>0
    <3>2. Append(p[2], records[p[1]]) \in Seq(WireRecord)
      BY <3>1
    <3> QED
      BY <3>1, <3>2
  <2> QED
    BY <2>1
<1>2. \A i \in 1 .. n, u \in T :
         step[<<i, u>>] = IF i \in known THEN u ELSE Append(u, records[i])
  OBVIOUS
<1> HIDE DEF step, T
<1>3. PICK f \in [0 .. n -> T] : Follows(f, n, << >>, step)
  BY <1>0, <1>1, PrefixRecursion DEF Steps
<1>4. ASSUME NEW i \in 0 .. n
      PROVE  f[i] = IF i = 0 THEN << >>
                    ELSE IF \E x \in SchemaOf(c) : i \in Occurs(records, x)
                         THEN f[i - 1] ELSE Append(f[i - 1], records[i])
  <2>1. f[i] = IF i = 0 THEN << >> ELSE step[<<i, f[i - 1]>>]
    BY <1>3, Zenon DEF Follows
  <2>2. CASE i # 0
    <3>1. i \in 1 .. n /\ i - 1 \in 0 .. n
      BY <1>0, <2>2
    <3>2. f[i - 1] \in T
      BY <1>3, <3>1
    <3>3. step[<<i, f[i - 1]>>] = IF i \in known THEN f[i - 1] ELSE Append(f[i - 1], records[i])
      BY <1>2, <3>1, <3>2
    <3>4. i \in known <=> \E x \in SchemaOf(c) : i \in Occurs(records, x)
      BY <1>k, <3>1
    <3> QED
      BY <2>1, <2>2, <3>3, <3>4, Zenon
  <2> QED
    BY <2>1, <2>2
<1>5. IsOthers(f, c, records)
  <2>1. f = [i \in 0 .. n |-> f[i]]
    BY <1>3
  <2>2. f = [i \in 0 .. n |->
                IF i = 0 THEN << >>
                ELSE IF \E x \in SchemaOf(c) : i \in Occurs(records, x)
                     THEN f[i - 1] ELSE Append(f[i - 1], records[i])]
    BY <1>3, <1>4, <2>1, Zenon
  <2> QED
    BY <1>i, <2>2, Zenon
<1>6. IsOthers(g, c, records)
  BY <1>5, Zenon DEF OthersIn
<1> HIDE DEF g
<1>7. \A i \in 0 .. n :
         g[i] = IF i = 0 THEN << >>
                ELSE IF \E x \in SchemaOf(c) : i \in Occurs(records, x)
                     THEN g[i - 1] ELSE Append(g[i - 1], records[i])
  <2>1. g = [i \in 0 .. n |->
                IF i = 0 THEN << >>
                ELSE IF \E x \in SchemaOf(c) : i \in Occurs(records, x)
                     THEN g[i - 1] ELSE Append(g[i - 1], records[i])]
    BY <1>6, <1>i, Zenon
  <2> QED
    BY <2>1, Zenon
<1>8. 0 \in 0 .. n /\ \A i \in 1 .. n : i \in 0 .. n /\ i # 0
  BY <1>0
<1>9. /\ g[0] = << >>
      /\ \A i \in 1 .. n :
            g[i] = IF \E x \in SchemaOf(c) : i \in Occurs(records, x)
                   THEN g[i - 1] ELSE Append(g[i - 1], records[i])
  BY <1>7, <1>8, Zenon
<1> QED
  BY <1>9, Zenon DEF g, n

\* The message holds what k of the records say, and the rest is there to be read.
AtRecord(c, s, o, records, k, missing, b) ==
    /\ Pending(records, k, missing, b)
    /\ \A i \in 1 .. k : records[i].type # END_GROUP
    /\ ValuesHeld(c, s, o, records, k)
    /\ s.unknown[o] = OthersIn(c, records)[k]

\* Nothing is read yet.
LEMMA AtFirst ==
    ASSUME NEW c, NEW s, NEW o, s.has[o] = {}, s.unknown[o] = << >>,
           NEW records \in Seq(WireRecord), NEW missing \in Nat,
           missing <= Len(WriteAll(records))
    PROVE  AtRecord(c, s, o, records, 0, missing, Cut(WriteAll(records), missing))
<1>1. Pending(records, 0, missing, Cut(WriteAll(records), missing))
  BY PendingFirst
<1>2. ValuesHeld(c, s, o, records, 0)
  <2>1. \A x : \A i \in Occurs(records, x) : ~(i <= 0)
    BY RecordsFacts DEF Occurs
  <2> QED
    BY <2>1 DEF ValuesHeld, FieldHeld
<1>3. OthersIn(c, records)[0] = << >>
  BY OthersDefined
<1>4. \A i \in 1 .. 0 : FALSE
  OBVIOUS
<1> QED
  BY <1>1, <1>2, <1>3, <1>4 DEF AtRecord

\* The values of the fields other than x are the same.
SameValues(c, s, t, o, x) ==
    \A y \in SchemaOf(c) : y # x =>
        /\ y.field \in t.has[o] <=> y.field \in s.has[o]
        /\ \A v : HasValue(t, o, y, v) <=> HasValue(s, o, y, v)

\* A record of another field changes nothing for this one.
LEMMA HeldLonger ==
    ASSUME NEW s, NEW t, NEW o, NEW records \in Seq(WireRecord), NEW k \in Nat, NEW x,
           FieldHeld(s, o, records, x, k), k + 1 \notin Occurs(records, x),
           x.field \in t.has[o] <=> x.field \in s.has[o],
           \A v : HasValue(t, o, x, v) <=> HasValue(s, o, x, v)
    PROVE  FieldHeld(t, o, records, x, k + 1)
<1>1. \A i \in Occurs(records, x) : i \in Nat /\ (i <= k + 1 <=> i <= k)
  <2> TAKE i \in Occurs(records, x)
  <2>1. i \in Nat /\ i # k + 1
    BY RecordsFacts DEF Occurs
  <2> QED
    BY <2>1
<1>2. CASE x.field \notin s.has[o] /\ \A i \in Occurs(records, x) : ~(i <= k)
  BY <1>1, <1>2 DEF FieldHeld
<1>3. ASSUME x.field \in s.has[o], NEW i \in Occurs(records, x),
             i <= k, HasValue(s, o, x, records[i].value),
             \A j \in Occurs(records, x) : j <= k => j <= i
      PROVE  FieldHeld(t, o, records, x, k + 1)
  <2>1. i <= k + 1 /\ HasValue(t, o, x, records[i].value)
    BY <1>1, <1>3
  <2>2. \A j \in Occurs(records, x) : j <= k + 1 => j <= i
    BY <1>1, <1>3
  <2> QED
    BY <1>3, <2>1, <2>2 DEF FieldHeld
<1> QED
  BY <1>2, <1>3 DEF FieldHeld

\* A record of field x has been read.
LEMMA ReadField ==
    ASSUME NEW c \in Classes, NEW s, NEW t, NEW o, NEW records \in Seq(WireRecord),
           NEW k, NEW missing, NEW b, AtRecord(c, s, o, records, k, missing, b),
           NEW rest, Pending(records, k + 1, missing, rest),
           NEW x \in SchemaOf(c), k + 1 \in Occurs(records, x),
           x.field \in t.has[o], HasValue(t, o, x, records[k + 1].value),
           SameValues(c, s, t, o, x), t.unknown[o] = s.unknown[o]
    PROVE  AtRecord(c, t, o, records, k + 1, missing, rest)
<1>0. k \in Nat /\ k + 1 \in 1 .. Len(records) /\ k + 1 - 1 = k /\ Len(records) \in Nat
  BY PendingIs, RecordsFacts DEF AtRecord, Occurs
<1>1. records[k + 1].type # END_GROUP
  BY SchemaFacts DEF Occurs, VARINT, LENGTH_DELIMITED, END_GROUP
<1>2. \A i \in 1 .. k + 1 : records[i].type # END_GROUP
  <2> TAKE i \in 1 .. k + 1
  <2>1. i \in 1 .. k \/ i = k + 1
    BY <1>0
  <2> QED
    BY <1>1, <2>1 DEF AtRecord
<1>3. FieldHeld(t, o, records, x, k + 1)
  <2>1. \A j \in Occurs(records, x) : j <= k + 1 => j <= k + 1
    OBVIOUS
  <2>2. k + 1 <= k + 1
    BY <1>0
  <2> QED
    BY <2>1, <2>2 DEF FieldHeld
<1>4. ASSUME NEW y \in SchemaOf(c), y # x PROVE FieldHeld(t, o, records, y, k + 1)
  <2>1. k + 1 \notin Occurs(records, y)
    BY <1>4, SchemaFacts DEF Occurs
  <2>2. FieldHeld(s, o, records, y, k)
    BY DEF AtRecord, ValuesHeld
  <2> QED
    BY <1>0, <1>4, <2>1, <2>2, HeldLonger DEF SameValues
<1>5. OthersIn(c, records)[k + 1] = OthersIn(c, records)[k]
  <2> DEFINE g == OthersIn(c, records)
             j == k + 1
  <2>1. \A i \in 1 .. Len(records) :
           g[i] = IF \E y \in SchemaOf(c) : i \in Occurs(records, y)
                  THEN g[i - 1] ELSE Append(g[i - 1], records[i])
    BY OthersDefined
  <2>2. j \in 1 .. Len(records) /\ j - 1 = k /\ \E y \in SchemaOf(c) : j \in Occurs(records, y)
    BY <1>0
  <2> HIDE DEF g, j
  <2>3. g[j] = g[j - 1]
    BY <2>1, <2>2
  <2>4. g[j] = g[k]
    BY <2>2, <2>3
  <2> QED
    BY <2>4 DEF g, j
<1> QED
  BY <1>2, <1>3, <1>4, <1>5 DEF AtRecord, ValuesHeld

\* A record has been read that is no field of the class.
LEMMA ReadOther ==
    ASSUME NEW c \in Classes, NEW s, NEW t, NEW o, NEW records \in Seq(WireRecord),
           NEW k, NEW missing, NEW b, AtRecord(c, s, o, records, k, missing, b),
           NEW rest, Pending(records, k + 1, missing, rest), k + 1 \in 1 .. Len(records),
           \A x \in SchemaOf(c) : k + 1 \notin Occurs(records, x),
           records[k + 1].type # END_GROUP,
           NEW z, z \notin SchemaOf(c), SameValues(c, s, t, o, z),
           t.unknown[o] = Append(s.unknown[o], records[k + 1])
    PROVE  AtRecord(c, t, o, records, k + 1, missing, rest)
<1>0. k \in Nat /\ k + 1 \in 1 .. Len(records) /\ k + 1 - 1 = k /\ Len(records) \in Nat
  BY PendingIs, RecordsFacts DEF AtRecord
<1>2. \A i \in 1 .. k + 1 : records[i].type # END_GROUP
  <2> TAKE i \in 1 .. k + 1
  <2>1. i \in 1 .. k \/ i = k + 1
    BY <1>0
  <2> QED
    BY <2>1 DEF AtRecord
<1>4. ASSUME NEW y \in SchemaOf(c) PROVE FieldHeld(t, o, records, y, k + 1)
  <2>1. k + 1 \notin Occurs(records, y) /\ y # z
    BY <1>4
  <2>2. FieldHeld(s, o, records, y, k)
    BY DEF AtRecord, ValuesHeld
  <2> QED
    BY <1>0, <1>4, <2>1, <2>2, HeldLonger DEF SameValues
<1>5. OthersIn(c, records)[k + 1] = Append(OthersIn(c, records)[k], records[k + 1])
  <2> DEFINE g == OthersIn(c, records)
             j == k + 1
  <2>1. \A i \in 1 .. Len(records) :
           g[i] = IF \E y \in SchemaOf(c) : i \in Occurs(records, y)
                  THEN g[i - 1] ELSE Append(g[i - 1], records[i])
    BY OthersDefined
  <2>2. j \in 1 .. Len(records) /\ j - 1 = k /\ ~\E y \in SchemaOf(c) : j \in Occurs(records, y)
    BY <1>0
  <2> HIDE DEF g, j
  <2>3. g[j] = Append(g[j - 1], records[j])
    BY <2>1, <2>2
  <2>4. g[j] = Append(g[k], records[j])
    BY <2>2, <2>3
  <2> QED
    BY <2>4 DEF g, j
<1> QED
  BY <1>2, <1>4, <1>5 DEF AtRecord, ValuesHeld

-------------------------------------------------------------------------------
(* What a message holds when parsing ends.                                   *)

\* A string is empty, or the beginning of what a record has for it.
Beginning(s, o, records, x) ==
    \/ string(s, o, x.field) = << >>
    \/ \E i \in Occurs(records, x) : \E n \in 0 .. Len(records[i].value) :
          string(s, o, x.field) = SubSeq(records[i].value, 1, n)

DoneBehind(c, s, o, records, missing, value, at_end) ==
    /\ value /\ at_end
    /\ \E k : /\ Behind(records, k, missing)
              /\ ValuesHeld(c, s, o, records, k)
              /\ s.unknown[o] = OthersIn(c, records)[k]
DoneRefused(c, s, o, records, missing, value, at_end) ==
    /\ ~(value /\ at_end)
    /\ Inside(records, missing) \/ \E i \in 1 .. Len(records) : records[i].type = END_GROUP
    /\ \A x \in SchemaOf(c) : x.type = LENGTH_DELIMITED => Beginning(s, o, records, x)

Done(c, s, o, records, missing, value, at_end) ==
    \/ DoneBehind(c, s, o, records, missing, value, at_end)
    \/ DoneRefused(c, s, o, records, missing, value, at_end)

\* The content ends behind a record.
LEMMA EndDone ==
    ASSUME NEW c, NEW s, NEW o, NEW records \in Seq(WireRecord), NEW k, NEW missing,
           AtRecord(c, s, o, records, k, missing, << >>)
    PROVE  Done(c, s, o, records, missing, TRUE, TRUE)
<1> DEFINE b == << >>
<1>1. b = << >> /\ AtRecord(c, s, o, records, k, missing, b)
  OBVIOUS
<1> HIDE DEF b
<1>2. Pending(records, k, missing, b)
  BY <1>1 DEF AtRecord
<1>3. Behind(records, k, missing)
  BY <1>1, <1>2, WhatIsThere DEF Stopped, WholeThere, PartThere, TagThere
<1>4. DoneBehind(c, s, o, records, missing, TRUE, TRUE)
  BY <1>1, <1>3 DEF DoneBehind, AtRecord
<1> QED
  BY <1>4 DEF Done

\* ReadTag returns 0: at the end of the content, or where it was cut.
LEMMA StopDone ==
    ASSUME NEW c, NEW s, NEW o, NEW records \in Seq(WireRecord), NEW k, NEW missing, NEW b,
           AtRecord(c, s, o, records, k, missing, b), Stopped(records, k, missing, b),
           \A x \in SchemaOf(c) : x.type = LENGTH_DELIMITED => Beginning(s, o, records, x)
    PROVE  Done(c, s, o, records, missing, TRUE, b = << >>)
<1>1. CASE Behind(records, k, missing) /\ b = << >>
  <2>1. DoneBehind(c, s, o, records, missing, TRUE, b = << >>)
    BY <1>1 DEF DoneBehind, AtRecord
  <2> QED
    BY <2>1 DEF Done
<1>2. CASE Inside(records, missing) /\ b # << >>
  <2>1. DoneRefused(c, s, o, records, missing, TRUE, b = << >>)
    BY <1>2 DEF DoneRefused
  <2> QED
    BY <2>1 DEF Done
<1> QED
  BY <1>1, <1>2 DEF Stopped

\* A string is the whole of itself.
LEMMA BytesWhole ==
    ASSUME NEW v \in Bytes
    PROVE  Len(v) \in 0 .. Len(v) /\ SubSeq(v, 1, Len(v)) = v
<1>1. << >> \in Bytes /\ v \o << >> = v
  BY NoBytes, BytesJoin
<1>2. SubSeq(v \o << >>, 1, Len(v)) = v
  BY <1>1, DropJoin
<1>3. Len(v) \in Nat
  BY BytesFacts
<1> QED
  BY <1>1, <1>2, <1>3

\* What is held of whole records is a beginning too.
LEMMA HeldBegins ==
    ASSUME NEW c \in Classes, NEW s, NEW o, NEW records \in Seq(WireRecord), NEW k,
           ValuesHeld(c, s, o, records, k), NEW x \in SchemaOf(c), x.type = LENGTH_DELIMITED,
           x.field \notin s.has[o] => string(s, o, x.field) = << >>
    PROVE  Beginning(s, o, records, x)
<1>1. CASE x.field \notin s.has[o]
  BY <1>1 DEF Beginning
<1>2. CASE x.field \in s.has[o]
  <2>1. PICK i \in Occurs(records, x) : HasValue(s, o, x, records[i].value)
    BY <1>2 DEF ValuesHeld, FieldHeld
  <2> DEFINE v == records[i].value
  <2>2. string(s, o, x.field) = v
    BY <2>1 DEF HasValue, VARINT, LENGTH_DELIMITED
  <2>3. v \in Bytes
    <3>1. records[i] \in WireRecord /\ records[i].type = LENGTH_DELIMITED
      BY RecordsFacts DEF Occurs
    <3> QED
      BY <3>1, RecordParts
  <2>4. Len(v) \in 0 .. Len(v) /\ SubSeq(v, 1, Len(v)) = v
    <3> HIDE DEF v
    <3> QED
      BY <2>3, BytesWhole
  <2> QED
    BY <2>2, <2>4 DEF Beginning
<1> QED
  BY <1>1, <1>2

-------------------------------------------------------------------------------
(* The steps of the parser.                                                  *)

\* The parser is at a record: what it knows, and what is known of the state.
ParserAt(k, b) ==
    /\ IInv /\ TypeOK /\ at \in {"ReadTag", "parse_message"}
    /\ AtRecord(class, state, target, source, k, cut, b)

\* What the parts of the invariant say at a record.
LEMMA ParserFacts ==
    ASSUME NEW k, NEW b, ParserAt(k, b)
    PROVE  /\ class \in Classes /\ state \in TypedStates /\ source \in Seq(WireRecord)
           /\ Good(state, Fields[class]) /\ Fields[class] \in SUBSET FieldNames
           /\ target \in Objects /\ target \in state.alive
           /\ Pending(source, k, cut, b) /\ b \in Bytes /\ k \in Nat /\ cut \in Nat
           /\ \A x \in SchemaOf(class) :
                 x.type = LENGTH_DELIMITED => Beginning(state, target, source, x)
           /\ \A f \in Fields[class] : f \in StringFields /\ state.ptr[target][f] = kEmptyString =>
                 \E n \in Cells : n \notin state.allocated
<1>1. /\ class \in Classes /\ state \in TypedStates /\ source \in Seq(WireRecord)
      /\ Good(state, Fields[class]) /\ Fields[class] \in SUBSET FieldNames
      /\ target \in Objects /\ target \in state.alive
  BY AtTypedCall, AtCall DEF ParserAt, TypeOK, IInv, RoomLeft
<1>2. Pending(source, k, cut, b)
  BY DEF ParserAt, AtRecord
<1>3. b \in Bytes /\ k \in Nat /\ cut \in Nat
  BY <1>1, <1>2, PendingIs
<1>4. ASSUME NEW x \in SchemaOf(class), x.type = LENGTH_DELIMITED
      PROVE  Beginning(state, target, source, x)
  <2>1. x.field \in StringFields
    BY <1>1, <1>4, SchemaFacts DEF VARINT, LENGTH_DELIMITED
  <2>2. x.field \notin state.has[target] => string(state, target, x.field) = << >>
    BY <1>1, <2>1 DEF Good, Clean, string
  <2>3. ValuesHeld(class, state, target, source, k)
    BY DEF ParserAt, AtRecord
  <2> QED
    BY <1>1, <1>4, <2>2, <2>3, HeldBegins
<1>5. ASSUME NEW f \in Fields[class], f \in StringFields, state.ptr[target][f] = kEmptyString
      PROVE  \E n \in Cells : n \notin state.allocated
  <2>1. Space(state, target, StringsOfClass) /\ f \in StringsOfClass /\ Shaped(state)
    BY <1>1, <1>5 DEF ParserAt, IInv, RoomLeft, StringsOfClass, Good
  <2> QED
    BY <1>1, <1>5, <2>1, SpaceFree
<1> QED
  BY <1>1, <1>2, <1>3, <1>4, <1>5

\* A string field has been written: the others are as they were.
LEMMA FieldSetSame ==
    ASSUME NEW c \in Classes, NEW s, NEW t, NEW o \in Objects, NEW x \in SchemaOf(c),
           x.type = LENGTH_DELIMITED, FieldSet(s, t, o, x.field)
    PROVE  /\ SameValues(c, s, t, o, x) /\ x.field \in t.has[o]
           /\ t.unknown[o] = s.unknown[o]
           /\ \A y \in SchemaOf(c) : y # x /\ y.type = LENGTH_DELIMITED =>
                 string(t, o, y.field) = string(s, o, y.field)
<1> DEFINE f == x.field
<1>1. /\ t.has[o] = s.has[o] \cup {f} /\ t.unknown[o] = s.unknown[o]
      /\ t.success[o] = s.success[o]
      /\ \A g \in StringFields : g # f => string(t, o, g) = string(s, o, g)
  <2>1. FieldSet(s, t, o, f)
    OBVIOUS
  <2> HIDE DEF f
  <2> QED
    BY <2>1, FieldSetContent
<1>2. ASSUME NEW y \in SchemaOf(c), y # x
      PROVE  /\ y.field # f
             /\ \/ y.type = LENGTH_DELIMITED /\ y.field \in StringFields
                \/ y.type = VARINT /\ y.field = "success"
  BY <1>2, SchemaFacts
<1>3. SameValues(c, s, t, o, x)
  BY <1>1, <1>2 DEF SameValues, HasValue, VARINT, LENGTH_DELIMITED
<1> QED
  BY <1>1, <1>2, <1>3 DEF VARINT, LENGTH_DELIMITED

\* What set_name and mutable_name do to a message that is being parsed.
LEMMA StringSet ==
    ASSUME NEW F \in SUBSET FieldNames, NEW s \in TypedStates, Good(s, F),
           NEW o \in Objects, o \in s.alive, NEW f \in F, f \in StringFields, NEW v \in Bytes,
           s.ptr[o][f] = kEmptyString => \E n \in Cells : n \notin s.allocated
    PROVE  /\ set(s, o, f, v) \in TypedStates /\ FieldSet(s, set(s, o, f, v), o, f)
           /\ string(set(s, o, f, v), o, f) = v
           /\ mutable(s, o, f) \in TypedStates /\ FieldSet(s, mutable(s, o, f), o, f)
           /\ string(mutable(s, o, f), o, f) = string(s, o, f)
<1>1. FieldSet(s, set(s, o, f, v), o, f) /\ string(set(s, o, f, v), o, f) = v
  BY SetValues
<1>2. FieldSet(s, mutable(s, o, f), o, f) /\ string(mutable(s, o, f), o, f) = string(s, o, f)
  BY MutableValues
<1>3. /\ set(s, o, f, v) \in States(Bytes, Seq(WireRecord))
      /\ mutable(s, o, f) \in States(Bytes, Seq(WireRecord))
  BY NoBytes, SetTyped, MutableTyped DEF TypedStates
<1> QED
  BY <1>1, <1>2, <1>3 DEF TypedStates

\* The same of the message being parsed.
LEMMA ParserSet ==
    ASSUME NEW k, NEW b, ParserAt(k, b), NEW f \in Fields[class], f \in StringFields,
           NEW v \in Bytes
    PROVE  LET t == set(state, target, f, v)
               m == mutable(state, target, f)
           IN
           /\ t \in TypedStates /\ FieldSet(state, t, target, f) /\ string(t, target, f) = v
           /\ m \in TypedStates /\ FieldSet(state, m, target, f)
           /\ string(m, target, f) = string(state, target, f)
<1>1. /\ state \in TypedStates /\ Good(state, Fields[class])
      /\ Fields[class] \in SUBSET FieldNames /\ target \in Objects /\ target \in state.alive
      /\ state.ptr[target][f] = kEmptyString => \E n \in Cells : n \notin state.allocated
  BY ParserFacts
<1> QED
  BY <1>1, StringSet

\* The bit of the field is set.
LEMMA FieldSetHas ==
    ASSUME NEW s, NEW t, NEW o \in Objects, NEW f, FieldSet(s, t, o, f)
    PROVE  f \in t.has[o] /\ t.unknown[o] = s.unknown[o]
BY DEF FieldSet, WithBit

\* ReadString, of a field of the class, at a record of that field.
LEMMA ReadStringAt ==
    ASSUME NEW k, NEW b, ParserAt(k, b), NEW x \in SchemaOf(class), x.type = LENGTH_DELIMITED,
           WholeThere(source, k, cut, b), k + 1 \in Occurs(source, x)
    PROVE  LET bytes == AfterVarint(b) IN
           /\ ~ReadStringFails(x.field, bytes)
           /\ ReadString(x.field, bytes) =>
                 /\ AtRecord(class, state', target, source, k + 1, cut, AfterString(bytes))
                 /\ AfterString(bytes) \in Bytes /\ state' \in TypedStates
<1> DEFINE r == source[k + 1]
           v == r.value
           bytes == AfterVarint(b)
           f == x.field
           t == set(state, target, f, v)
<1>1. PICK rest \in Bytes : Pending(source, k + 1, cut, rest) /\ bytes = Payload(r) \o rest
  BY DEF WholeThere
<1>2. r \in WireRecord /\ r.type = LENGTH_DELIMITED
  BY DEF WholeThere, TagThere, Occurs
<1>3. v \in Bytes /\ bytes = (WriteVarint32[Len(v)] \o v) \o rest
  <2> HIDE DEF r
  <2>1. v \in Bytes /\ Payload(r) = WriteVarint32[Len(v)] \o v
    BY <1>2, RecordWritten
  <2> QED
    BY <1>1, <2>1 DEF r
<1> HIDE DEF bytes
<1>4. StringReadable(bytes) /\ StringValue(bytes) = v /\ AfterString(bytes) = rest
  <2> HIDE DEF v
  <2> QED
    BY <1>3, StringRead
<1>f. f \in Fields[class] /\ f \in StringFields
  BY ParserFacts, SchemaFacts DEF VARINT, LENGTH_DELIMITED
<1>t. t \in TypedStates /\ FieldSet(state, t, target, f) /\ string(t, target, f) = v
  <2> HIDE DEF f, v
  <2> QED
    BY <1>3, <1>f, ParserSet
<1> HIDE DEF t
<1>5. AtRecord(class, t, target, source, k + 1, cut, rest)
  <2>1. /\ SameValues(class, state, t, target, x) /\ x.field \in t.has[target]
        /\ t.unknown[target] = state.unknown[target]
    <3>1. ASSUME NEW u, FieldSet(state, u, target, x.field)
          PROVE  /\ SameValues(class, state, u, target, x) /\ x.field \in u.has[target]
                 /\ u.unknown[target] = state.unknown[target]
      <4>1. class \in Classes /\ target \in Objects
        BY ParserFacts
      <4>2. SameValues(class, state, u, target, x)
        BY <3>1, <4>1, FieldSetSame
      <4>3. x.field \in u.has[target]
        BY <3>1, <4>1, FieldSetHas
      <4>4. u.unknown[target] = state.unknown[target]
        BY <3>1, <4>1, FieldSetHas
      <4> QED
        BY <4>2, <4>3, <4>4
    <3> QED
      BY <1>t, <3>1
  <2>2. HasValue(t, target, x, source[k + 1].value)
    BY <1>t DEF HasValue, VARINT, LENGTH_DELIMITED
  <2> QED
    BY <1>1, <2>1, <2>2, ParserFacts, ReadField DEF ParserAt
<1>6. ReadString(f, bytes) => state' = t
  BY <1>4 DEF ReadString, t
<1>7. ~ReadStringFails(f, bytes)
  BY <1>4 DEF ReadStringFails
<1> QED
  BY <1>1, <1>4, <1>5, <1>6, <1>7, <1>t DEF bytes

\* ReadString where the record is cut short.
LEMMA ReadStringCut ==
    ASSUME NEW k, NEW b, ParserAt(k, b), NEW x \in SchemaOf(class), x.type = LENGTH_DELIMITED,
           PartThere(source, k, cut, b), k + 1 \in Occurs(source, x)
    PROVE  LET bytes == AfterVarint(b) IN
           /\ ~ReadString(x.field, bytes)
           /\ ReadStringFails(x.field, bytes) =>
                 /\ Done(class, state', target, source, cut, FALSE, FALSE)
                 /\ return(FALSE, FALSE) /\ state' \in TypedStates
<1> DEFINE r == source[k + 1]
           v == r.value
           bytes == AfterVarint(b)
           f == x.field
<1>1. Inside(source, cut) /\ Begins(bytes, Payload(r))
  BY DEF PartThere
<1>2. r \in WireRecord /\ r.type = LENGTH_DELIMITED
  BY DEF PartThere, TagThere, Occurs
<1>3. v \in Bytes /\ Begins(bytes, WriteVarint32[Len(v)] \o v)
  <2> HIDE DEF r, bytes
  <2>1. v \in Bytes /\ Payload(r) = WriteVarint32[Len(v)] \o v
    BY <1>2, RecordWritten
  <2> QED
    BY <1>1, <2>1
<1> HIDE DEF bytes
<1>4. /\ ~StringReadable(bytes)
      /\ VarintReadable(bytes) => Begins(AfterVarint(bytes), v)
  <2> HIDE DEF v
  <2> QED
    BY <1>3, StringCut
<1>f. f \in Fields[class] /\ f \in StringFields
  BY ParserFacts, SchemaFacts DEF VARINT, LENGTH_DELIMITED
<1>6. ASSUME NEW t, FieldSet(state, t, target, f),
             \/ string(t, target, f) = string(state, target, f)
             \/ Begins(string(t, target, f), v)
      PROVE  Done(class, t, target, source, cut, FALSE, FALSE)
  <2>1. Beginning(t, target, source, x)
    <3>1. CASE string(t, target, f) = string(state, target, f)
      BY <3>1, ParserFacts DEF Beginning
    <3>2. CASE Begins(string(t, target, f), v)
      <4> DEFINE w == string(t, target, f)
      <4>1. Len(w) \in 0 .. Len(v) /\ w = SubSeq(v, 1, Len(w))
        <5> HIDE DEF w, v
        <5> QED
          BY <1>3, <3>2, BeginsPart DEF w
      <4> QED
        BY <4>1 DEF Beginning
    <3> QED
      BY <1>6, <3>1, <3>2
  <2>2. ASSUME NEW y \in SchemaOf(class), y.type = LENGTH_DELIMITED, y # x
        PROVE  Beginning(t, target, source, y)
    <3>1. string(t, target, y.field) = string(state, target, y.field)
      BY <1>6, <2>2, ParserFacts, FieldSetSame
    <3> QED
      BY <2>2, <3>1, ParserFacts DEF Beginning
  <2>3. DoneRefused(class, t, target, source, cut, FALSE, FALSE)
    BY <1>1, <2>1, <2>2 DEF DoneRefused
  <2> QED
    BY <2>3 DEF Done
<1>7. ASSUME VarintReadable(bytes), state' = set(state, target, f, AfterVarint(bytes))
      PROVE  Done(class, state', target, source, cut, FALSE, FALSE) /\ state' \in TypedStates
  <2> DEFINE w == AfterVarint(bytes)
             t == set(state, target, f, w)
  <2>1. Begins(w, v) /\ w \in Bytes
    BY <1>4, <1>7 DEF Begins
  <2>e. state' = t
    BY <1>7
  <2> HIDE DEF f, w
  <2>2. t \in TypedStates /\ FieldSet(state, t, target, f) /\ string(t, target, f) = w
    BY <1>f, <2>1, ParserSet
  <2> HIDE DEF t
  <2>3. Done(class, t, target, source, cut, FALSE, FALSE)
    BY <1>6, <2>1, <2>2
  <2> QED
    BY <2>2, <2>3, <2>e
<1>8. ASSUME state' = mutable(state, target, f)
      PROVE  Done(class, state', target, source, cut, FALSE, FALSE) /\ state' \in TypedStates
  <2> DEFINE t == mutable(state, target, f)
  <2>e. state' = t
    BY <1>8
  <2> HIDE DEF f
  <2>2. /\ t \in TypedStates /\ FieldSet(state, t, target, f)
        /\ string(t, target, f) = string(state, target, f)
    BY <1>f, NoBytes, ParserSet
  <2> HIDE DEF t
  <2>3. Done(class, t, target, source, cut, FALSE, FALSE)
    BY <1>6, <2>2
  <2> QED
    BY <2>2, <2>3, <2>e
<1>9. ReadStringFails(f, bytes) =>
         /\ return(FALSE, FALSE)
         /\ \/ VarintReadable(bytes) /\ state' = set(state, target, f, AfterVarint(bytes))
            \/ state' = mutable(state, target, f)
  BY DEF ReadStringFails
<1>10. ~ReadString(f, bytes)
  BY <1>4 DEF ReadString
<1> QED
  BY <1>7, <1>8, <1>9, <1>10 DEF bytes

\* ReadBool, at a record of the field of LoginResponse.
LEMMA ReadBoolAt ==
    ASSUME NEW k, NEW b, ParserAt(k, b), NEW x \in SchemaOf(class), x.type = VARINT,
           WholeThere(source, k, cut, b), k + 1 \in Occurs(source, x)
    PROVE  LET bytes == AfterVarint(b) IN
           /\ VarintReadable(bytes)
           /\ state' = set_success(state, target, VarintValue(bytes) # 0) =>
                 /\ AtRecord(class, state', target, source, k + 1, cut, AfterVarint(bytes))
                 /\ AfterVarint(bytes) \in Bytes /\ state' \in TypedStates
<1> DEFINE r == source[k + 1]
           v == r.value
           bytes == AfterVarint(b)
           t == set_success(state, target, v # 0)
<1>1. PICK rest \in Bytes : Pending(source, k + 1, cut, rest) /\ bytes = Payload(r) \o rest
  BY DEF WholeThere
<1>2. r \in WireRecord /\ r.type = VARINT
  BY DEF WholeThere, TagThere, Occurs
<1>3. v \in Nat /\ bytes = WriteVarint32[v] \o rest
  <2> HIDE DEF r, bytes
  <2>1. r.value \in Nat /\ Payload(r) = WriteVarint32[r.value]
    BY <1>2, RecordWritten
  <2> QED
    BY <1>1, <2>1
<1> HIDE DEF bytes
<1>4. VarintReadable(bytes) /\ VarintValue(bytes) = v /\ AfterVarint(bytes) = rest
  <2> HIDE DEF v
  <2> QED
    BY <1>3, VarintRead
<1>f. x.field = "success"
  BY ParserFacts, SchemaFacts DEF VARINT, LENGTH_DELIMITED
<1>t. /\ t \in TypedStates
      /\ t.has[target] = state.has[target] \cup {"success"} /\ t.success[target] = (v # 0)
      /\ t.unknown[target] = state.unknown[target]
      /\ \A f \in StringFields : string(t, target, f) = string(state, target, f)
  <2> DEFINE q == (v # 0)
  <2>1. q \in BOOLEAN
    OBVIOUS
  <2> HIDE DEF q
  <2>2. set_success(state, target, q) \in TypedStates
    BY <2>1, ParserFacts, SuccessTyped DEF TypedStates
  <2>3. LET u == set_success(state, target, q) IN
           /\ u.has[target] = state.has[target] \cup {"success"} /\ u.success[target] = q
           /\ u.unknown[target] = state.unknown[target]
           /\ \A f \in StringFields : string(u, target, f) = string(state, target, f)
    BY <2>1, ParserFacts, SuccessValues, TypedShaped
  <2> QED
    BY <2>2, <2>3 DEF q
<1> HIDE DEF t
<1>5. AtRecord(class, t, target, source, k + 1, cut, rest)
  <2>1. SameValues(class, state, t, target, x)
    <3>1. ASSUME NEW y \in SchemaOf(class), y # x
          PROVE  /\ y.field \in t.has[target] <=> y.field \in state.has[target]
                 /\ \A w : HasValue(t, target, y, w) <=> HasValue(state, target, y, w)
      <4>1. y.field # "success" /\ y.field \in StringFields /\ y.type = LENGTH_DELIMITED
        BY <1>f, <3>1, ParserFacts, SchemaFacts
      <4> QED
        BY <1>t, <4>1 DEF HasValue, VARINT, LENGTH_DELIMITED
    <3> QED
      BY <3>1 DEF SameValues
  <2>2. HasValue(t, target, x, source[k + 1].value)
    BY <1>t DEF HasValue
  <2>3. x.field \in t.has[target]
    BY <1>f, <1>t
  <2> QED
    BY <1>1, <1>t, <2>1, <2>2, <2>3, ParserFacts, ReadField DEF ParserAt
<1>6. state' = set_success(state, target, VarintValue(bytes) # 0) => state' = t
  BY <1>4 DEF t
<1> QED
  BY <1>1, <1>4, <1>5, <1>6, <1>t DEF bytes

\* Where the value has been cut off.
LEMMA ReadBoolCut ==
    ASSUME NEW k, NEW b, ParserAt(k, b), NEW x \in SchemaOf(class), x.type = VARINT,
           PartThere(source, k, cut, b), k + 1 \in Occurs(source, x)
    PROVE  ~VarintReadable(AfterVarint(b)) /\ Done(class, state, target, source, cut, FALSE, FALSE)
<1> DEFINE r == source[k + 1]
           bytes == AfterVarint(b)
<1>1. Inside(source, cut) /\ Begins(bytes, Payload(r))
  BY DEF PartThere
<1>2. r \in WireRecord /\ r.type = VARINT
  BY DEF PartThere, TagThere, Occurs
<1>3. ~VarintReadable(bytes)
  <2> HIDE DEF r, bytes
  <2>1. ~ValueReadable(r.type, bytes)
    BY <1>1, <1>2, ValueCut
  <2> QED
    BY <1>2, <2>1 DEF ValueReadable
<1>4. DoneRefused(class, state, target, source, cut, FALSE, FALSE)
  BY <1>1, ParserFacts DEF DoneRefused
<1> QED
  BY <1>3, <1>4 DEF Done

-------------------------------------------------------------------------------
(* What a step of the parser may lead to.                                    *)

Outcome ==
    /\ state' \in TypedStates /\ input' \in Bytes
    /\ returned' \in BOOLEAN /\ legitimate_message_end_' \in BOOLEAN
    /\ \/ /\ at' = "ReadTag"
          /\ \E k : AtRecord(class, state', target, source, k, cut, input')
       \/ /\ at' = "parse_message" /\ class = "ChatNotify"
          /\ \E k : AtRecord(class, state', target, source, k, cut, << 42 >> \o input')
       \/ /\ at' = "return"
          /\ Done(class, state', target, source, cut, returned', legitimate_message_end_')

\* The loop goes on.
LEMMA Continues ==
    ASSUME TypeOK, NEW k, NEW bytes \in Bytes, state' \in TypedStates,
           AtRecord(class, state', target, source, k, cut, bytes), continue("ReadTag", bytes)
    PROVE  Outcome
BY DEF Outcome, continue, TypeOK

\* The loop is left.
LEMMA Returns ==
    ASSUME NEW value \in BOOLEAN, NEW at_end \in BOOLEAN, state' \in TypedStates,
           Done(class, state', target, source, cut, value, at_end), return(value, at_end)
    PROVE  Outcome
BY NoBytes DEF Outcome, return

\* ExpectAtEnd, behind a record.
LEMMA ExpectsEnd ==
    ASSUME TypeOK, NEW k, NEW bytes \in Bytes, state' \in TypedStates,
           AtRecord(class, state', target, source, k, cut, bytes), ExpectAtEnd(bytes)
    PROVE  Outcome
<1>1. CASE bytes = << >> /\ return(TRUE, TRUE)
  <2>1. AtRecord(class, state', target, source, k, cut, << >>)
    BY <1>1
  <2>2. Done(class, state', target, source, cut, TRUE, TRUE)
    BY <2>1, EndDone DEF TypeOK
  <2> QED
    BY <1>1, <2>2, Returns
<1>2. CASE bytes # << >> /\ continue("ReadTag", bytes)
  BY <1>2, Continues
<1> QED
  BY <1>1, <1>2 DEF ExpectAtEnd

\* NoTag.
LEMMA StopsAt ==
    ASSUME NEW k, ParserAt(k, input), NoTag
    PROVE  Outcome
<1>1. ReadTag(input) = 0 /\ return(TRUE, input = << >>) /\ state' = state
  BY DEF NoTag
<1>2. Stopped(source, k, cut, input)
  BY <1>1, ParserFacts, WhatIsThere DEF WholeThere, PartThere, TagThere
<1>3. Done(class, state, target, source, cut, TRUE, input = << >>)
  BY <1>2, ParserFacts, StopDone DEF ParserAt
<1>4. (input = << >>) \in BOOLEAN /\ TRUE \in BOOLEAN
  OBVIOUS
<1> DEFINE e == (input = << >>)
<1>5. /\ e \in BOOLEAN /\ TRUE \in BOOLEAN /\ state' \in TypedStates
      /\ Done(class, state', target, source, cut, TRUE, e) /\ return(TRUE, e)
  BY <1>1, <1>3, <1>4, ParserFacts
<1> HIDE DEF e
<1> QED
  BY <1>5, Returns

-------------------------------------------------------------------------------
(* handle_uninterpreted.                                                     *)

\* A wire record has three parts.
LEMMA RecordIs ==
    ASSUME NEW r \in WireRecord
    PROVE  r = [number |-> r.number, type |-> r.type, value |-> r.value]
BY DEF WireRecord

\* The message with one unknown field more.
LEMMA ExtendedAt ==
    ASSUME NEW k, NEW b, ParserAt(k, b), NEW r \in WireRecord, NEW t,
           t = Extend(state, target, Append(state.unknown[target], r))
    PROVE  /\ t \in TypedStates /\ t.unknown[target] = Append(state.unknown[target], r)
           /\ \A z : SameValues(class, state, t, target, z)
           /\ \A x \in SchemaOf(class) :
                 x.type = LENGTH_DELIMITED => Beginning(t, target, source, x)
<1>0. /\ state \in TypedStates /\ class \in Classes /\ target \in Objects /\ Shaped(state)
  BY ParserFacts, TypedShaped
<1> DEFINE u == Append(state.unknown[target], r)
<1>1. u \in Seq(WireRecord)
  <2>1. state.unknown[target] \in Seq(WireRecord)
    BY <1>0, TypedParts DEF TypedStates
  <2> QED
    BY <2>1
<1> HIDE DEF u
<1>2. t = Extend(state, target, u)
  BY DEF u
<1>3. t \in TypedStates
  BY <1>0, <1>1, <1>2, ExtendTyped DEF TypedStates
<1>4. /\ t.has[target] = state.has[target] /\ t.success[target] = state.success[target]
      /\ t.unknown[target] = u
      /\ \A f \in StringFields : string(t, target, f) = string(state, target, f)
  BY <1>0, <1>2, ExtendValues
<1>5. ASSUME NEW y \in SchemaOf(class)
      PROVE  \A v : HasValue(t, target, y, v) <=> HasValue(state, target, y, v)
  <2>1. \/ y.type = LENGTH_DELIMITED /\ y.field \in StringFields
        \/ y.type = VARINT
    BY <1>0, SchemaFacts
  <2> QED
    BY <1>4, <2>1 DEF HasValue, VARINT, LENGTH_DELIMITED
<1>6. \A z : SameValues(class, state, t, target, z)
  BY <1>4, <1>5 DEF SameValues
<1>7. ASSUME NEW x \in SchemaOf(class), x.type = LENGTH_DELIMITED
      PROVE  Beginning(t, target, source, x)
  <2>1. x.field \in StringFields
    BY <1>0, <1>7, SchemaFacts DEF VARINT, LENGTH_DELIMITED
  <2>2. Beginning(state, target, source, x)
    BY <1>7, ParserFacts
  <2>3. string(t, target, x.field) = string(state, target, x.field)
    BY <1>4, <2>1
  <2> QED
    BY <2>2, <2>3 DEF Beginning
<1> QED
  BY <1>3, <1>4, <1>6, <1>7 DEF u

\* A record that is no field of the class, all of it there.
LEMMA OtherWhole ==
    ASSUME NEW k, ParserAt(k, input), WholeThere(source, k, cut, input),
           \A x \in SchemaOf(class) : k + 1 \notin Occurs(source, x), HandleUninterpreted
    PROVE  Outcome
<1> DEFINE r == source[k + 1]
<1>1. PICK rest \in Bytes : Pending(source, k + 1, cut, rest) /\ body = Payload(r) \o rest
  BY DEF WholeThere, body
<1>2. /\ r \in WireRecord /\ GetTagFieldNumber(ReadTag(input)) = r.number
      /\ GetTagWireType(ReadTag(input)) = r.type /\ k + 1 \in 1 .. Len(source)
  BY DEF WholeThere, TagThere
<1>3. CASE r.type = END_GROUP
  <2>1. return(TRUE, FALSE) /\ state' = state
    BY <1>2, <1>3 DEF HandleUninterpreted
  <2>2. DoneRefused(class, state, target, source, cut, TRUE, FALSE)
    BY <1>2, <1>3, ParserFacts DEF DoneRefused
  <2>3. Done(class, state', target, source, cut, TRUE, FALSE)
    BY <2>1, <2>2 DEF Done
  <2>4. state' \in TypedStates
    BY <2>1, ParserFacts
  <2> QED
    BY <2>1, <2>3, <2>4, Returns
<1>4. CASE r.type # END_GROUP
  <2>1. /\ ValueReadable(r.type, body) /\ ValueRead(r.type, body) = r.value
        /\ AfterValue(r.type, body) = rest
    <3> DEFINE d == body
    <3> HIDE DEF r, d
    <3>1. d = Payload(r) \o rest
      BY <1>1 DEF d
    <3>2. /\ ValueReadable(r.type, d) /\ ValueRead(r.type, d) = r.value
          /\ AfterValue(r.type, d) = rest
      BY <1>2, <1>4, <3>1, ValueReadWhole
    <3> QED
      BY <3>2 DEF d
  <2>2. AddUnknown(r.number, r.type, r.value) /\ continue("ReadTag", rest)
    <3>1. SkipField
      BY <1>2, <1>4 DEF HandleUninterpreted
    <3> HIDE DEF r
    <3> QED
      BY <1>2, <2>1, <3>1 DEF SkipField
  <2> DEFINE t == Extend(state, target, Append(state.unknown[target], r))
  <2>3. state' = t
    <3>1. r = [number |-> r.number, type |-> r.type, value |-> r.value]
      <4> HIDE DEF r
      <4> QED
        BY <1>2, RecordIs
    <3> HIDE DEF r
    <3>2. state' = [state EXCEPT !.unknown[target] =
                       Append(@, [number |-> r.number, type |-> r.type, value |-> r.value])]
      BY <2>2 DEF AddUnknown
    <3>3. state' = [state EXCEPT !.unknown[target] = Append(@, r)]
      BY <3>1, <3>2
    <3>4. [state EXCEPT !.unknown[target] = Append(@, r)] = t
      BY DEF Extend
    <3> QED
      BY <3>3, <3>4
  <2>4. /\ t \in TypedStates /\ t.unknown[target] = Append(state.unknown[target], r)
        /\ \A z : SameValues(class, state, t, target, z)
    <3> HIDE DEF r
    <3> QED
      BY <1>2, ExtendedAt
  <2> HIDE DEF t
  <2> DEFINE z == Field("none", 0, 0)
  <2>5. z \notin SchemaOf(class)
    <3>1. z.field = "none"
      BY DEF Field
    <3> HIDE DEF z
    <3>2. z \in SchemaOf(class) => z.field \in StringFields \/ z.field = "success"
      BY ParserFacts, SchemaFacts
    <3> QED
      BY <3>1, <3>2 DEF StringFields
  <2> HIDE DEF z
  <2>6. AtRecord(class, t, target, source, k + 1, cut, rest)
    BY <1>1, <1>2, <1>4, <2>4, <2>5, ParserFacts, ReadOther DEF ParserAt
  <2>7. AtRecord(class, state', target, source, k + 1, cut, rest) /\ state' \in TypedStates
    BY <2>3, <2>4, <2>6
  <2> DEFINE j == k + 1
  <2>8. AtRecord(class, state', target, source, j, cut, rest)
    BY <2>7
  <2> HIDE DEF j
  <2> QED
    BY <2>2, <2>7, <2>8, Continues DEF ParserAt
<1> QED
  BY <1>3, <1>4

\* One that is cut short.
LEMMA OtherPart ==
    ASSUME NEW k, ParserAt(k, input), PartThere(source, k, cut, input), HandleUninterpreted
    PROVE  Outcome
<1> DEFINE r == source[k + 1]
           d == body
<1>1. Inside(source, cut) /\ Begins(d, Payload(r))
  BY DEF PartThere, body
<1>2. /\ r \in WireRecord /\ GetTagFieldNumber(ReadTag(input)) = r.number
      /\ GetTagWireType(ReadTag(input)) = r.type
  BY DEF PartThere, TagThere
<1>3. r.type # END_GROUP /\ ~ValueReadable(r.type, d)
  <2> HIDE DEF r, d
  <2>1. r.type = END_GROUP => Payload(r) = << >>
    BY <1>2, PayloadIs
  <2>2. ~Begins(d, << >>)
    <3>1. ASSUME Begins(d, << >>) PROVE FALSE
      <4>1. Len(d) < Len(<< >>) /\ Len(d) \in Nat /\ Len(<< >>) = 0
        BY <3>1, BytesFacts, NoBytes DEF Begins
      <4> QED
        BY <4>1
    <3> QED
      BY <3>1
  <2>3. ~ValueReadable(r.type, d)
    BY <1>1, <1>2, ValueCut
  <2> QED
    BY <1>1, <2>1, <2>2, <2>3
<1>4. /\ return(FALSE, FALSE)
      /\ \/ /\ r.type = LENGTH_DELIMITED /\ VarintReadable(d)
            /\ AddUnknown(r.number, r.type, AfterVarint(d))
         \/ state' = state
  <2>1. SkipField
    BY <1>2, <1>3 DEF HandleUninterpreted
  <2> HIDE DEF r
  <2> QED
    BY <1>2, <1>3, <2>1 DEF SkipField
<1>5. ASSUME NEW t, t \in TypedStates,
             \A x \in SchemaOf(class) : x.type = LENGTH_DELIMITED => Beginning(t, target, source, x)
      PROVE  Done(class, t, target, source, cut, FALSE, FALSE)
  BY <1>1, <1>5 DEF Done, DoneRefused
<1>6. CASE state' = state
  <2>1. /\ state' \in TypedStates
        /\ \A x \in SchemaOf(class) :
              x.type = LENGTH_DELIMITED => Beginning(state', target, source, x)
    BY <1>6, ParserFacts
  <2> QED
    BY <1>4, <1>5, <2>1, Returns
<1>7. CASE /\ r.type = LENGTH_DELIMITED /\ VarintReadable(d)
           /\ AddUnknown(r.number, r.type, AfterVarint(d))
  <2> DEFINE e == [number |-> r.number, type |-> r.type, value |-> AfterVarint(d)]
             t == Extend(state, target, Append(state.unknown[target], e))
  <2>1. e \in WireRecord
    <3> DEFINE w == AfterVarint(d)
    <3>1. w \in Bytes
      <4> DEFINE v == r.value
      <4>1. v \in Bytes /\ Payload(r) = WriteVarint32[Len(v)] \o v
        <5> HIDE DEF r
        <5> QED
          BY <1>2, <1>7, RecordWritten
      <4> HIDE DEF r, d, v
      <4>2. Begins(d, WriteVarint32[Len(v)] \o v)
        BY <1>1, <4>1
      <4>3. Begins(AfterVarint(d), v)
        BY <1>7, <4>1, <4>2, StringCut
      <4> QED
        BY <4>3 DEF Begins
    <3>2. r.number \in Nat \ {0}
      <4> HIDE DEF r
      <4> QED
        BY <1>2, RecordParts
    <3> HIDE DEF w, r
    <3>3. [number |-> r.number, type |-> r.type, value |-> w] \in WireRecord
      BY <1>7, <3>1, <3>2 DEF WireRecord
    <3> QED
      BY <3>3 DEF w
  <2>2. state' = t
    <3> HIDE DEF r, d
    <3> QED
      BY <1>7 DEF AddUnknown, Extend
  <2> HIDE DEF e
  <2>3. /\ t \in TypedStates
        /\ \A x \in SchemaOf(class) :
              x.type = LENGTH_DELIMITED => Beginning(t, target, source, x)
    BY <2>1, ExtendedAt
  <2> HIDE DEF t
  <2>4. Done(class, t, target, source, cut, FALSE, FALSE)
    BY <1>5, <2>3
  <2> QED
    BY <1>4, <2>2, <2>3, <2>4, Returns
<1> QED
  BY <1>4, <1>6, <1>7

-------------------------------------------------------------------------------
(* The steps of each class.                                                  *)

\* A tag is read: its record is there, whole or in part.
LEMMA TagFound ==
    ASSUME NEW k, NEW b, ParserAt(k, b), ReadTag(b) # 0
    PROVE  /\ WholeThere(source, k, cut, b) \/ PartThere(source, k, cut, b)
           /\ k + 1 \in 1 .. Len(source) /\ TagThere(source[k + 1], b)
<1>1. WholeThere(source, k, cut, b) \/ PartThere(source, k, cut, b)
  BY ParserFacts, WhatIsThere DEF Stopped
<1> QED
  BY <1>1 DEF WholeThere, PartThere

\* The tag is that of a field exactly if the record is.
LEMMA FieldFound ==
    ASSUME NEW k, ParserAt(k, input), NEW x, ReadTag(input) # 0
    PROVE  FieldIs(x.number, x.type) <=> k + 1 \in Occurs(source, x)
BY TagFound DEF FieldIs, Occurs, TagThere

\* A string field is read.
LEMMA StringStep ==
    ASSUME NEW k, NEW b, ParserAt(k, b), NEW x \in SchemaOf(class), x.type = LENGTH_DELIMITED,
           WholeThere(source, k, cut, b) \/ PartThere(source, k, cut, b),
           k + 1 \in Occurs(source, x), NEW bytes, bytes = AfterVarint(b),
           \/ ReadString(x.field, bytes) /\ ExpectAtEnd(AfterString(bytes))
           \/ ReadStringFails(x.field, bytes)
    PROVE  Outcome
<1>1. CASE WholeThere(source, k, cut, b)
  <2>1. ReadString(x.field, bytes) /\ ExpectAtEnd(AfterString(bytes))
    BY <1>1, ReadStringAt
  <2>2. /\ AtRecord(class, state', target, source, k + 1, cut, AfterString(bytes))
        /\ AfterString(bytes) \in Bytes /\ state' \in TypedStates
    BY <1>1, <2>1, ReadStringAt
  <2> DEFINE j == k + 1
             d == AfterString(bytes)
  <2>3. /\ AtRecord(class, state', target, source, j, cut, d) /\ d \in Bytes
        /\ state' \in TypedStates /\ ExpectAtEnd(d)
    BY <2>1, <2>2
  <2> HIDE DEF j, d
  <2> QED
    BY <2>3, ExpectsEnd DEF ParserAt
<1>2. CASE PartThere(source, k, cut, b)
  <2>1. ReadStringFails(x.field, bytes)
    BY <1>2, ReadStringCut
  <2>2. /\ Done(class, state', target, source, cut, FALSE, FALSE)
        /\ return(FALSE, FALSE) /\ state' \in TypedStates
    BY <1>2, <2>1, ReadStringCut
  <2> QED
    BY <2>2, Returns
<1> QED
  BY <1>1, <1>2

\* A record of no field of the class.
LEMMA OtherStep ==
    ASSUME NEW k, ParserAt(k, input), ReadTag(input) # 0,
           \A x \in SchemaOf(class) : ~FieldIs(x.number, x.type), HandleUninterpreted
    PROVE  Outcome
<1>1. \A x \in SchemaOf(class) : k + 1 \notin Occurs(source, x)
  BY FieldFound
<1> QED
  BY <1>1, TagFound, OtherWhole, OtherPart

\* LoginRequest and ChatRequest.
LEMMA OneStringStep ==
    ASSUME NEW k, ParserAt(k, input), NEW x, SchemaOf(class) = {x},
           x.type = LENGTH_DELIMITED, OneString(x.field, x.number)
    PROVE  Outcome
<1>1. CASE NoTag
  BY <1>1, StopsAt
<1>2. CASE /\ FieldIs(x.number, LENGTH_DELIMITED)
           /\ \/ ReadString(x.field, body) /\ ExpectAtEnd(AfterString(body))
              \/ ReadStringFails(x.field, body)
  <2>1. ReadTag(input) # 0 /\ FieldIs(x.number, x.type)
    BY <1>2 DEF FieldIs
  <2>2. k + 1 \in Occurs(source, x)
    BY <2>1, FieldFound
  <2>3. WholeThere(source, k, cut, input) \/ PartThere(source, k, cut, input)
    BY <2>1, TagFound
  <2>4. x \in SchemaOf(class) /\ body = AfterVarint(input)
    BY DEF body
  <2> DEFINE d == body
  <2>5. /\ d = AfterVarint(input)
        /\ \/ ReadString(x.field, d) /\ ExpectAtEnd(AfterString(d))
           \/ ReadStringFails(x.field, d)
    BY <1>2, <2>4
  <2> HIDE DEF d
  <2> QED
    BY <2>2, <2>3, <2>4, <2>5, StringStep
<1>3. CASE /\ ReadTag(input) # 0 /\ ~FieldIs(x.number, LENGTH_DELIMITED)
           /\ HandleUninterpreted
  BY <1>3, OtherStep
<1> QED
  BY <1>1, <1>2, <1>3 DEF OneString

\* LoginResponse.
LEMMA LoginResponseStep ==
    ASSUME NEW k, ParserAt(k, input), LoginResponse_MergePartialFromCodedStream
    PROVE  Outcome
<1> DEFINE x == Field("success", 2, VARINT)
<1>0. /\ SchemaOf(class) = {x} /\ x.number = 2 /\ x.type = VARINT
  BY SchemaSets DEF LoginResponse_MergePartialFromCodedStream, Field
<1> HIDE DEF x
<1>1. CASE NoTag
  BY <1>1, StopsAt
<1>2. CASE FieldIs(2, VARINT)
  <2>1. ReadTag(input) # 0 /\ FieldIs(x.number, x.type)
    BY <1>0, <1>2 DEF FieldIs
  <2>2. k + 1 \in Occurs(source, x)
    BY <2>1, FieldFound
  <2> DEFINE d == body
  <2>4. x \in SchemaOf(class) /\ d = AfterVarint(input)
    BY <1>0 DEF body
  <2>p. \/ /\ VarintReadable(d)
           /\ state' = set_success(state, target, VarintValue(d) # 0)
           /\ ExpectAtEnd(AfterVarint(d))
        \/ ~VarintReadable(d) /\ UNCHANGED state /\ return(FALSE, FALSE)
    BY <1>2, <2>1 DEF LoginResponse_MergePartialFromCodedStream, NoTag
  <2> HIDE DEF d
  <2>5. CASE WholeThere(source, k, cut, input)
    <3>1. VarintReadable(d)
      BY <1>0, <2>2, <2>4, <2>5, ReadBoolAt
    <3>2. state' = set_success(state, target, VarintValue(d) # 0) /\ ExpectAtEnd(AfterVarint(d))
      BY <2>p, <3>1
    <3>3. /\ AtRecord(class, state', target, source, k + 1, cut, AfterVarint(d))
          /\ AfterVarint(d) \in Bytes /\ state' \in TypedStates
      BY <1>0, <2>2, <2>4, <2>5, <3>2, ReadBoolAt
    <3> DEFINE j == k + 1
               e == AfterVarint(d)
    <3>4. /\ AtRecord(class, state', target, source, j, cut, e) /\ e \in Bytes
          /\ state' \in TypedStates /\ ExpectAtEnd(e)
      BY <3>2, <3>3
    <3> HIDE DEF j, e
    <3> QED
      BY <3>4, ExpectsEnd DEF ParserAt
  <2>6. CASE PartThere(source, k, cut, input)
    <3>1. ~VarintReadable(d) /\ Done(class, state, target, source, cut, FALSE, FALSE)
      BY <1>0, <2>2, <2>4, <2>6, ReadBoolCut
    <3>2. state' = state /\ return(FALSE, FALSE)
      BY <2>p, <3>1
    <3>3. state' \in TypedStates /\ Done(class, state', target, source, cut, FALSE, FALSE)
      BY <3>1, <3>2, ParserFacts
    <3> QED
      BY <3>2, <3>3, Returns
  <2> QED
    BY <2>1, <2>5, <2>6, TagFound
<1>3. CASE ReadTag(input) # 0 /\ ~FieldIs(2, VARINT) /\ HandleUninterpreted
  BY <1>0, <1>3, OtherStep
<1> QED
  BY <1>1, <1>2, <1>3 DEF LoginResponse_MergePartialFromCodedStream

\* ChatNotify at parse_message: the tag has been skipped.
LEMMA MessageStep ==
    ASSUME NEW k, ParserAt(k, << 42 >> \o input), class = "ChatNotify", ReadMessage(input)
    PROVE  Outcome
<1> DEFINE x == Field("message", 5, LENGTH_DELIMITED)
           b == << 42 >> \o input
<1>0. /\ x \in SchemaOf(class) /\ x.number = 5 /\ x.type = LENGTH_DELIMITED
      /\ x.field = "message"
  BY SchemaSets DEF Field
<1> HIDE DEF x
<1>1. ReadTag(b) = 42 /\ input = AfterVarint(b)
  BY TagExpected DEF ParserAt, TypeOK
<1>2. ParserAt(k, b)
  OBVIOUS
<1> HIDE DEF b
<1>3. /\ WholeThere(source, k, cut, b) \/ PartThere(source, k, cut, b)
      /\ k + 1 \in 1 .. Len(source) /\ TagThere(source[k + 1], b)
  BY <1>1, <1>2, TagFound
<1>4. k + 1 \in Occurs(source, x)
  <2>1. 42 \div 8 = 5 /\ 42 % 8 = 2
    OBVIOUS
  <2>2. source[k + 1].number = 5 /\ source[k + 1].type = 2
    BY <1>1, <1>3, <2>1 DEF TagThere, GetTagFieldNumber, GetTagWireType
  <2> QED
    BY <1>0, <1>3, <2>2 DEF Occurs, LENGTH_DELIMITED
<1>5. \/ ReadString(x.field, input) /\ ExpectAtEnd(AfterString(input))
      \/ ReadStringFails(x.field, input)
  BY <1>0 DEF ReadMessage
<1> QED
  BY <1>0, <1>1, <1>2, <1>3, <1>4, <1>5, StringStep

\* The name is read, and the tag of the message with it if it is next.
LEMMA NameStep ==
    ASSUME NEW k, ParserAt(k, input), class = "ChatNotify", FieldIs(4, LENGTH_DELIMITED),
           \/ /\ ReadString("name", body)
              /\ \/ /\ ExpectTag(AfterString(body), 42)
                    /\ continue("parse_message", Drop(AfterString(body), 1))
                 \/ /\ ~ExpectTag(AfterString(body), 42)
                    /\ continue("ReadTag", AfterString(body))
           \/ ReadStringFails("name", body)
    PROVE  Outcome
<1> DEFINE x == Field("name", 4, LENGTH_DELIMITED)
           d == body
           e == AfterString(body)
<1>0. /\ x \in SchemaOf(class) /\ x.number = 4 /\ x.type = LENGTH_DELIMITED
      /\ x.field = "name" /\ d = AfterVarint(input) /\ e = AfterString(d)
  BY SchemaSets DEF Field, body
<1>p. \/ /\ ReadString("name", d)
         /\ \/ ExpectTag(e, 42) /\ continue("parse_message", Drop(e, 1))
            \/ continue("ReadTag", e)
      \/ ReadStringFails("name", d)
  OBVIOUS
<1> HIDE DEF x, d, e
<1>1. ReadTag(input) # 0 /\ FieldIs(x.number, x.type)
  BY <1>0 DEF FieldIs
<1>2. k + 1 \in Occurs(source, x)
  BY <1>1, FieldFound
<1>3. CASE WholeThere(source, k, cut, input)
  <2>1. ReadString("name", d)
    BY <1>0, <1>2, <1>3, <1>p, ReadStringAt
  <2>2. AtRecord(class, state', target, source, k + 1, cut, e) /\ e \in Bytes /\ state' \in TypedStates
    BY <1>0, <1>2, <1>3, <2>1, ReadStringAt
  <2> DEFINE j == k + 1
  <2>3. AtRecord(class, state', target, source, j, cut, e)
    BY <2>2
  <2> HIDE DEF j
  <2>4. CASE continue("ReadTag", e)
    BY <2>2, <2>3, <2>4, Continues DEF ParserAt
  <2>5. CASE ExpectTag(e, 42) /\ continue("parse_message", Drop(e, 1))
    <3>1. Drop(e, 1) \in Bytes /\ e = << 42 >> \o Drop(e, 1)
      BY <2>2, <2>5, TagSkipped
    <3> DEFINE w == Drop(e, 1)
    <3>2. w \in Bytes /\ AtRecord(class, state', target, source, j, cut, << 42 >> \o w)
      BY <2>3, <3>1
    <3>3. continue("parse_message", w)
      BY <2>5
    <3> HIDE DEF w
    <3> QED
      BY <2>2, <3>2, <3>3 DEF Outcome, continue, ParserAt, TypeOK
  <2>6. ~ReadStringFails("name", d)
    BY <1>0, <1>2, <1>3, ReadStringAt
  <2> QED
    BY <1>p, <2>4, <2>5, <2>6
<1>4. CASE PartThere(source, k, cut, input)
  <2>1. ReadStringFails("name", d)
    BY <1>0, <1>2, <1>4, <1>p, ReadStringCut
  <2>2. /\ Done(class, state', target, source, cut, FALSE, FALSE)
        /\ return(FALSE, FALSE) /\ state' \in TypedStates
    BY <1>0, <1>2, <1>4, <2>1, ReadStringCut
  <2> QED
    BY <2>2, Returns
<1> QED
  BY <1>1, <1>3, <1>4, TagFound

\* ChatNotify, at the top of the loop.
LEMMA ChatNotifyStep ==
    ASSUME NEW k, ParserAt(k, input), at = "ReadTag", ChatNotify_MergePartialFromCodedStream
    PROVE  Outcome
<1> DEFINE x == Field("name", 4, LENGTH_DELIMITED)
           y == Field("message", 5, LENGTH_DELIMITED)
<1>c. class = "ChatNotify"
  BY DEF ChatNotify_MergePartialFromCodedStream
<1>0. /\ SchemaOf(class) = {x, y} /\ x.number = 4 /\ y.number = 5
      /\ x.type = LENGTH_DELIMITED /\ y.type = LENGTH_DELIMITED /\ y.field = "message"
  BY <1>c, SchemaSets DEF Field
<1> HIDE DEF x, y
<1>1. CASE NoTag
  BY <1>1, StopsAt
<1>2. CASE /\ FieldIs(4, LENGTH_DELIMITED)
           /\ \/ /\ ReadString("name", body)
                 /\ \/ /\ ExpectTag(AfterString(body), 42)
                       /\ continue("parse_message", Drop(AfterString(body), 1))
                    \/ /\ ~ExpectTag(AfterString(body), 42)
                       /\ continue("ReadTag", AfterString(body))
              \/ ReadStringFails("name", body)
  BY <1>2, <1>c, NameStep
<1>3. CASE FieldIs(5, LENGTH_DELIMITED) /\ ReadMessage(body)
  <2> DEFINE d == body
  <2>1. ReadTag(input) # 0 /\ FieldIs(y.number, y.type)
    BY <1>0, <1>3 DEF FieldIs
  <2>2. k + 1 \in Occurs(source, y)
    BY <2>1, FieldFound
  <2>3. WholeThere(source, k, cut, input) \/ PartThere(source, k, cut, input)
    BY <2>1, TagFound
  <2>4. y \in SchemaOf(class) /\ d = AfterVarint(input)
    BY <1>0 DEF body
  <2>5. \/ ReadString(y.field, d) /\ ExpectAtEnd(AfterString(d))
        \/ ReadStringFails(y.field, d)
    BY <1>0, <1>3 DEF ReadMessage
  <2> HIDE DEF d
  <2> QED
    BY <1>0, <2>2, <2>3, <2>4, <2>5, StringStep
<1>4. CASE /\ ReadTag(input) # 0
           /\ ~FieldIs(4, LENGTH_DELIMITED) /\ ~FieldIs(5, LENGTH_DELIMITED)
           /\ HandleUninterpreted
  BY <1>0, <1>4, OtherStep
<1> QED
  BY <1>1, <1>2, <1>3, <1>4 DEF ChatNotify_MergePartialFromCodedStream

-------------------------------------------------------------------------------
(* The invariant.                                                            *)

ParseInv ==
    /\ at = "ReadTag" =>
          \E k : AtRecord(class, state, target, source, k, cut, input)
    /\ at = "parse_message" =>
          /\ class = "ChatNotify"
          /\ \E k : AtRecord(class, state, target, source, k, cut, << 42 >> \o input)
    /\ at = "return" =>
          Done(class, state, target, source, cut, returned, legitimate_message_end_)

DataInv == IInv /\ TypeOK /\ ParseInv

\* One iteration of the loop.
LEMMA DataParse ==
    ASSUME DataInv, MergePartialFromCodedStream
    PROVE  TypeOK' /\ ParseInv'
<1>1. Outcome
  <2>1. CASE at = "parse_message"
    <3>1. class = "ChatNotify" /\ ReadMessage(input)
      BY <2>1 DEF DataInv, ParseInv, MergePartialFromCodedStream,
         LoginRequest_MergePartialFromCodedStream, LoginResponse_MergePartialFromCodedStream,
         ChatRequest_MergePartialFromCodedStream, ChatNotify_MergePartialFromCodedStream
    <3>2. PICK k : ParserAt(k, << 42 >> \o input)
      BY <2>1 DEF DataInv, ParseInv, ParserAt
    <3> QED
      BY <3>1, <3>2, MessageStep
  <2>2. CASE at = "ReadTag"
    <3>1. PICK k : ParserAt(k, input)
      BY <2>2 DEF DataInv, ParseInv, ParserAt
    <3>2. CASE LoginRequest_MergePartialFromCodedStream
      <4> DEFINE x == Field("name", 1, LENGTH_DELIMITED)
      <4>1. class = "LoginRequest" /\ OneString("name", 1)
        BY <3>2 DEF LoginRequest_MergePartialFromCodedStream
      <4>2. /\ SchemaOf(class) = {x} /\ x.type = LENGTH_DELIMITED
            /\ x.field = "name" /\ x.number = 1
        BY <4>1, SchemaSets DEF Field
      <4> HIDE DEF x
      <4>3. OneString(x.field, x.number)
        BY <4>1, <4>2
      <4> QED
        BY <3>1, <4>2, <4>3, OneStringStep
    <3>3. CASE ChatRequest_MergePartialFromCodedStream
      <4> DEFINE x == Field("message", 3, LENGTH_DELIMITED)
      <4>1. class = "ChatRequest" /\ OneString("message", 3)
        BY <3>3 DEF ChatRequest_MergePartialFromCodedStream
      <4>2. /\ SchemaOf(class) = {x} /\ x.type = LENGTH_DELIMITED
            /\ x.field = "message" /\ x.number = 3
        BY <4>1, SchemaSets DEF Field
      <4> HIDE DEF x
      <4>3. OneString(x.field, x.number)
        BY <4>1, <4>2
      <4> QED
        BY <3>1, <4>2, <4>3, OneStringStep
    <3>4. CASE LoginResponse_MergePartialFromCodedStream
      BY <3>1, <3>4, LoginResponseStep
    <3>5. CASE ChatNotify_MergePartialFromCodedStream
      BY <2>2, <3>1, <3>5, ChatNotifyStep
    <3> QED
      BY <3>2, <3>3, <3>4, <3>5 DEF MergePartialFromCodedStream
  <2>3. at \in {"ReadTag", "parse_message"}
    BY ParseKeeps DEF DataInv
  <2> QED
    BY <2>1, <2>2, <2>3
<1>2. /\ class' = class /\ target' = target /\ source' = source /\ cut' = cut
      /\ state'.alive = state.alive
  BY ParseKeeps DEF DataInv, ParseStep
<1>3. at # "idle" /\ target \in state.alive /\ class \in Classes
      /\ source \in Seq(WireRecord) /\ cut \in Nat
  BY ParseKeeps DEF DataInv, TypeOK
<1>4. TypeOK'
  <2>1. /\ state' \in TypedStates /\ input' \in Bytes /\ returned' \in BOOLEAN
        /\ legitimate_message_end_' \in BOOLEAN
        /\ at' \in {"ReadTag", "parse_message", "return"}
    BY <1>1 DEF Outcome
  <2>2. StateOK'
    BY <2>1 DEF StateOK, TypedStates, States, FieldNames
  <2> QED
    BY <1>2, <1>3, <2>1, <2>2 DEF TypeOK
<1>5. ParseInv'
  <2>1. /\ at' = "ReadTag" =>
              \E k : AtRecord(class, state', target, source, k, cut, input')
        /\ at' = "parse_message" =>
              /\ class = "ChatNotify"
              /\ \E k : AtRecord(class, state', target, source, k, cut, << 42 >> \o input')
        /\ at' = "return" =>
              Done(class, state', target, source, cut, returned', legitimate_message_end_')
    BY <1>1 DEF Outcome
  <2> QED
    BY <1>2, <2>1 DEF ParseInv
<1> QED
  BY <1>4, <1>5

\* No message has been made.
LEMMA DataInit == Init => DataInv
<1> SUFFICES ASSUME Init PROVE DataInv
  OBVIOUS
<1>1. << >> \in Seq(WireRecord) /\ << >> \in Bytes
  BY TypedShaped
<1>2. StateOK
  <2> HIDE DEF Bytes
  <2> QED
    BY <1>1 DEF Init, StateOK
<1>3. TypeOK
  BY <1>1, <1>2 DEF Init, TypeOK
<1>4. ParseInv
  BY DEF Init, ParseInv
<1> QED
  BY <1>3, <1>4, IInvInit DEF DataInv

\* A call changes only the objects, and no parsing is under way.
LEMMA CallParse ==
    ASSUME NEW t, Call(t)
    PROVE  ParseInv'
BY DEF Call, ParseInv, parse_vars

\* Parsing begins, with a content made of records.
LEMMA ParseStarts ==
    ASSUME IInv, TypeOK, NEW o \in Objects, NEW records \in Seq(WireRecord), NEW bytes,
           bytes = WriteAll(records), NEW missing \in Nat,
           ParseFromArray(o, records, bytes, missing)
    PROVE  TypeOK' /\ ParseInv'
<1>1. bytes \in Bytes /\ Len(bytes) \in Nat
  BY RestFacts, BytesFacts
<1>2. /\ missing \in 0 .. Len(bytes) /\ class' = class /\ at' = "ReadTag"
      /\ state' = Clear(state, o) /\ target' = o /\ o \in state.alive
      /\ source' = records /\ cut' = missing /\ input' = Cut(bytes, missing)
      /\ returned' = returned /\ legitimate_message_end_' = legitimate_message_end_
  BY <1>1 DEF ParseFromArray, Cut
<1>3. input' \in Bytes
  BY <1>1, <1>2, CutBytes
<1>4. state' \in TypedStates
  BY <1>2, TypedClear
<1>5. state'.alive = state.alive /\ state'.has[o] = {} /\ state'.unknown[o] = << >>
  <2>1. ClearResult(state, Clear(state, o), o, Fields[class])
    BY AtTypedCall, ClassClear
  <2>2. Forgotten(state, Clear(state, o), o)
    BY AtTypedCall, ClassClearForgets
  <2> QED
    BY <1>2, <2>1, <2>2 DEF ClearResult, Forgotten
<1>6. TypeOK'
  <2>1. StateOK'
    BY <1>4 DEF StateOK, TypedStates, States, FieldNames
  <2>2. o \in state'.alive
    BY <1>2, <1>5
  <2> QED
    BY <1>2, <1>3, <2>1, <2>2 DEF TypeOK
<1>7. AtRecord(class, state', o, records, 0, missing, input')
  <2>1. missing <= Len(WriteAll(records))
    BY <1>1, <1>2
  <2>2. AtRecord(class, state', o, records, 0, missing, Cut(WriteAll(records), missing))
    BY <1>5, <2>1, AtFirst
  <2> QED
    BY <1>2, <2>2
<1> QED
  BY <1>2, <1>6, <1>7 DEF ParseInv

\* The contents a program parses are made of records.
LEMMA DataStarts ==
    ASSUME IInv, TypeOK, NEW o \in Objects, ParseCall(o)
    PROVE  TypeOK' /\ ParseInv'
<1>1. PICK missing \in 0 .. MaxCut :
         \/ \E p \in state.alive \ {o} :
               ParseFromArray(o, Records(state, p), Serialize(state, p), missing)
         \/ \E records \in Contents :
               ParseFromArray(o, records, WriteAll(records), missing)
  BY DEF ParseCall
<1>2. missing \in Nat
  BY MessagesAssumption
<1>3. ASSUME NEW p \in state.alive \ {o},
             ParseFromArray(o, Records(state, p), Serialize(state, p), missing)
      PROVE  TypeOK' /\ ParseInv'
  <2>1. p \in Objects
    BY AtTypedCall
  <2>2. Records(state, p) \in Seq(WireRecord) /\ Serialize(state, p) = WriteAll(Records(state, p))
    BY <2>1, AtTypedCall, Serialized DEF TypedStates
  <2> DEFINE r == Records(state, p)
             w == Serialize(state, p)
  <2>3. r \in Seq(WireRecord) /\ w = WriteAll(r) /\ ParseFromArray(o, r, w, missing)
    BY <1>3, <2>2
  <2> HIDE DEF r, w
  <2> QED
    BY <1>2, <2>3, ParseStarts
<1>4. ASSUME NEW records \in Contents, ParseFromArray(o, records, WriteAll(records), missing)
      PROVE  TypeOK' /\ ParseInv'
  <2>1. records \in Seq(WireRecord)
    BY MessagesAssumption
  <2> DEFINE w == WriteAll(records)
  <2>2. w = WriteAll(records) /\ ParseFromArray(o, records, w, missing)
    BY <1>4
  <2> HIDE DEF w
  <2> QED
    BY <1>2, <2>1, <2>2, ParseStarts
<1> QED
  BY <1>1, <1>3, <1>4

\* The result is dropped.
LEMMA DataReturns ==
    ASSUME IInv, TypeOK, ParseReturns
    PROVE  TypeOK' /\ ParseInv'
<1>1. state' \in TypedStates
  <2>1. CASE state.alive = {target}
    <3>1. target \in Objects
      BY <2>1, AtTypedCall
    <3>2. destroyed(state, target) \in TypedStates
      BY <3>1, AtTypedCall, DestroyTyped, TypedShaped DEF TypedStates
    <3> QED
      BY <2>1, <3>2 DEF ParseReturns
  <2>2. CASE state.alive # {target}
    BY <2>2, AtTypedCall DEF ParseReturns
  <2> QED
    BY <2>1, <2>2
<1>2. StateOK'
  BY <1>1 DEF StateOK, TypedStates, States, FieldNames
<1>3. << >> \in Seq(WireRecord)
  BY TypedShaped
<1> QED
  BY <1>2, <1>3 DEF ParseReturns, TypeOK, ParseInv

\* Every call but those of the parser.
LEMMA DataCalls ==
    ASSUME IInv, TypeOK, NEW o \in Objects, NEW p \in Objects,
           \/ Construct(o) \/ Destroy(o) \/ ClearCall(o) \/ UnknownCall(o)
           \/ CopyConstruct(o, p) \/ MergeCall(o, p) \/ CopyCall(o, p) \/ SwapCall(o, p)
           \/ LoginRequest_name(o) \/ LoginResponse_success(o)
           \/ ChatRequest_message(o) \/ ChatNotify_name(o) \/ ChatNotify_message(o)
    PROVE  TypeOK' /\ ParseInv'
<1>1. CASE Construct(o)
  BY <1>1, TypedConstruct, CallParse DEF Construct
<1>2. CASE Destroy(o)
  BY <1>2, TypedDestroy, CallParse DEF Destroy
<1>3. CASE ClearCall(o)
  <2>1. Call(Clear(state, o)) /\ Clear(state, o) \in TypedStates
    BY <1>3, TypedClear DEF ClearCall
  <2> QED
    BY <2>1, CallTyped, CallParse
<1>4. CASE UnknownCall(o)
  BY <1>4, TypedUnknown, CallParse DEF UnknownCall
<1>5. CASE CopyConstruct(o, p)
  BY <1>5, TypedCopyConstruct, CallParse DEF CopyConstruct
<1>6. CASE MergeCall(o, p)
  BY <1>6, TypedMerge, CallParse DEF MergeCall
<1>7. CASE CopyCall(o, p)
  BY <1>7, CopyDone, CallTyped, CallParse
<1>8. CASE SwapCall(o, p)
  <2>1. TypeOK'
    BY <1>8, TypedSwap
  <2>2. ParseInv'
    BY <1>8, CallParse, Zenon DEF SwapCall
  <2> QED
    BY <2>1, <2>2
<1>9. CASE LoginResponse_success(o)
  <2>1. TypeOK'
    BY <1>9, TypedSuccess
  <2>2. ParseInv'
    BY <1>9, CallParse DEF LoginResponse_success
  <2> QED
    BY <2>1, <2>2
<1>10. ASSUME NEW f \in StringFields, StringCall(o, f) PROVE TypeOK' /\ ParseInv'
  <2>1. TypeOK'
    BY <1>10, TypedString
  <2>2. ParseInv'
    BY <1>10, CallParse DEF StringCall
  <2> QED
    BY <2>1, <2>2
<1>11. CASE \/ LoginRequest_name(o) \/ ChatRequest_message(o)
            \/ ChatNotify_name(o) \/ ChatNotify_message(o)
  <2>1. \E f \in StringFields : StringCall(o, f)
    BY <1>11 DEF LoginRequest_name, ChatRequest_message, ChatNotify_name,
                 ChatNotify_message, StringFields
  <2> QED
    BY <1>10, <2>1
<1> QED
  BY <1>1, <1>2, <1>3, <1>4, <1>5, <1>6, <1>7, <1>8, <1>9, <1>11

\* Every step keeps the invariant.
LEMMA DataNext == DataInv /\ [Next]_vars => DataInv'
<1> SUFFICES ASSUME DataInv, [Next]_vars PROVE DataInv'
  OBVIOUS
<1>0. IInv /\ TypeOK /\ IInv'
  BY IInvNext DEF DataInv
<1> SUFFICES TypeOK' /\ ParseInv'
  BY <1>0 DEF DataInv
<1>1. ASSUME NEW o \in Objects,
             Construct(o) \/ Destroy(o) \/ ClearCall(o) \/ ParseCall(o) \/ UnknownCall(o)
      PROVE  TypeOK' /\ ParseInv'
  BY <1>0, <1>1, DataCalls, DataStarts
<1>2. ASSUME NEW o \in Objects, NEW p \in Objects,
             CopyConstruct(o, p) \/ MergeCall(o, p) \/ CopyCall(o, p) \/ SwapCall(o, p)
      PROVE  TypeOK' /\ ParseInv'
  BY <1>0, <1>2, DataCalls
<1>3. ASSUME NEW value \in Strings, NewString(value) PROVE TypeOK' /\ ParseInv'
  <2>1. TypeOK'
    BY <1>0, <1>3, TypedNewString
  <2>2. ParseInv'
    BY <1>3, CallParse DEF NewString
  <2> QED
    BY <2>1, <2>2
<1>4. ASSUME NEW c, DeleteString(c) PROVE TypeOK' /\ ParseInv'
  <2>1. TypeOK'
    BY <1>0, <1>4, TypedDeleteString
  <2>2. ParseInv'
    BY <1>4, CallParse DEF DeleteString
  <2> QED
    BY <2>1, <2>2
<1>5. ASSUME NEW o \in Objects,
             \/ LoginRequest_name(o) \/ LoginResponse_success(o)
             \/ ChatRequest_message(o) \/ ChatNotify_name(o) \/ ChatNotify_message(o)
      PROVE  TypeOK' /\ ParseInv'
  BY <1>0, <1>5, DataCalls
<1>6. CASE MergePartialFromCodedStream
  BY <1>6, DataParse
<1>7. CASE ParseReturns
  BY <1>0, <1>7, DataReturns
<1>8. CASE UNCHANGED vars
  <2>1. TypeOK'
    BY <1>0, <1>8 DEF vars, parse_vars, TypeOK, StateOK
  <2>2. ParseInv'
    BY <1>8 DEF vars, parse_vars, DataInv, ParseInv
  <2> QED
    BY <2>1, <2>2
<1> QED
  BY <1>1, <1>2, <1>3, <1>4, <1>5, <1>6, <1>7, <1>8 DEF Next

\* What a message holds while it is parsed, whatever was done to it before.
THEOREM DataInvariance == Spec => []DataInv
BY DataInit, DataNext, PTL DEF Spec

-------------------------------------------------------------------------------
(* The properties.                                                           *)

\* Every string is one of bytes, and what is read is only ever records.
THEOREM MessagesTyped == Spec => []TypeOK
<1>1. DataInv => TypeOK
  BY DEF DataInv
<1> QED
  BY <1>1, DataInvariance, PTL

\* build_packet is given the size of what is then written.
THEOREM SizesAlwaysAgree == Spec => []SizesAgree
<1>1. DataInv => SizesAgree
  <2> SUFFICES ASSUME DataInv, NEW o \in state.alive
               PROVE  ByteSize(state, o) = Len(Serialize(state, o))
    BY DEF SizesAgree
  <2>1. o \in Objects /\ state \in TypedStates /\ class \in Classes
    BY AtTypedCall DEF DataInv
  <2> QED
    BY <2>1, Serialized DEF TypedStates
<1> QED
  BY <1>1, DataInvariance, PTL

\* What Serialize gives after a call.
LEMMA SerializedAfter ==
    ASSUME NEW t, Call(t), NEW o
    PROVE  Serialize(state, o)' = Serialize(t, o)
<1>1. class' = class /\ state' = t
  BY DEF Call
<1> QED
  BY <1>1 DEF Serialize, LoginRequest_Serialize, LoginResponse_Serialize,
     ChatRequest_Serialize, ChatNotify_Serialize, StringWritten, string

\* CopyFrom leaves nothing of what the message held before.
THEOREM CopiesAreEqual == Spec => CopyIsEqual
<1>1. DataInv => [\A o, p \in Objects :
                    CopyCall(o, p) => Serialize(state, p) = Serialize(state, o)']_vars
  <2> SUFFICES ASSUME DataInv, NEW o \in Objects, NEW p \in Objects, CopyCall(o, p)
               PROVE  Serialize(state, p) = Serialize(state, o)'
    OBVIOUS
  <2> DEFINE t == CopyFrom(state, o, p)
  <2>1. Call(t) /\ Serialize(t, o) = Serialize(state, p)
    BY CopyDone DEF DataInv
  <2> HIDE DEF t
  <2>2. Serialize(state, o)' = Serialize(t, o)
    BY <2>1, SerializedAfter
  <2> QED
    BY <2>1, <2>2
<1> QED
  BY <1>1, DataInvariance, PTL DEF CopyIsEqual

\* The terms of the properties are those of the invariant.
LEMMA TermsAgree ==
    /\ SchemaFields = SchemaOf(class)
    /\ \A x : Occurrences(x) = Occurs(source, x)
    /\ \A x, v : Holds(x, v) <=> HasValue(state, target, x, v)
    /\ OtherRecords = OthersIn(class, source)
<1>1. SchemaFields = SchemaOf(class)
  BY DEF SchemaFields, SchemaOf
<1>2. \A x : Occurrences(x) = Occurs(source, x)
  BY DEF Occurrences, Occurs
<1>3. \A x, v : Holds(x, v) <=> HasValue(state, target, x, v)
  BY DEF Holds, HasValue
<1>4. OtherRecords = OthersIn(class, source)
  BY <1>1, <1>2 DEF OtherRecords, OthersIn, IsOthers
<1> QED
  BY <1>1, <1>2, <1>3, <1>4

\* A message is initialised if every field of its class is set.
LEMMA InitializedIs ==
    ASSUME class \in Classes
    PROVE  IsInitialized(state, target) <=>
              \A x \in SchemaOf(class) : x.field \in state.has[target]
<1>1. IsInitialized(state, target) <=> Fields[class] \subseteq state.has[target]
  <2> DEFINE h == state.has[target]
  <2>1. CASE class = "LoginRequest"
    <3>1. (IsInitialized(state, target) <=> "name" \in h) /\ Fields[class] = {"name"}
      BY <2>1 DEF IsInitialized, LoginRequest_IsInitialized, Fields
    <3> QED
      BY <3>1
  <2>2. CASE class = "LoginResponse"
    <3>1. (IsInitialized(state, target) <=> "success" \in h) /\ Fields[class] = {"success"}
      BY <2>2 DEF IsInitialized, LoginResponse_IsInitialized, Fields
    <3> QED
      BY <3>1
  <2>3. CASE class = "ChatRequest"
    <3>1. (IsInitialized(state, target) <=> "message" \in h) /\ Fields[class] = {"message"}
      BY <2>3 DEF IsInitialized, ChatRequest_IsInitialized, Fields
    <3> QED
      BY <3>1
  <2>4. CASE class = "ChatNotify"
    BY <2>4 DEF IsInitialized, ChatNotify_IsInitialized, Fields
  <2> QED
    BY <2>1, <2>2, <2>3, <2>4 DEF Classes
<1>2. {x.field : x \in SchemaOf(class)} = Fields[class]
  BY SchemaFacts
<1> QED
  BY <1>1, <1>2

\* The bytes behind k records are those that are left.
LEMMA BehindIs ==
    ASSUME source \in Seq(WireRecord), NEW k \in 0 .. Len(source)
    PROVE  CutBehind(k) <=> Behind(source, k, cut)
BY RestWritten DEF CutBehind, Behind

\* What the invariant says of a message when parsing has ended behind k records.
LEMMA ParsedBehind ==
    ASSUME class \in Classes, source \in Seq(WireRecord), returned, legitimate_message_end_,
           NEW k \in 0 .. Len(source), ValuesHeld(class, state, target, source, k),
           state.unknown[target] = OthersIn(class, source)[k]
    PROVE  ParsedTo(k)
<1> DEFINE taken(x) == {i \in Occurs(source, x) : i <= k}
<1>1. ASSUME NEW x \in SchemaOf(class)
      PROVE  /\ x.field \in state.has[target] <=> taken(x) # {}
             /\ taken(x) # {} =>
                   \E i \in taken(x) :
                      /\ \A j \in taken(x) : j <= i
                      /\ HasValue(state, target, x, source[i].value)
  BY DEF ValuesHeld, FieldHeld
<1>2. Parsed <=> \A x \in SchemaOf(class) : taken(x) # {}
  BY <1>1, InitializedIs DEF Parsed
<1> QED
  BY <1>1, <1>2, TermsAgree DEF ParsedTo

\* A whole content is read as it was written.
THEOREM ContentsAreParsed == Spec => []ParsedAsWritten
<1>1. DataInv => ParsedAsWritten
  <2> SUFFICES ASSUME DataInv, at = "return", cut = 0, NoGroup
               PROVE  ParsedTo(Len(source))
    BY DEF ParsedAsWritten
  <2>0. class \in Classes /\ source \in Seq(WireRecord) /\ Len(source) \in Nat
    BY RecordsFacts DEF DataInv, TypeOK
  <2>1. Behind(source, Len(source), cut)
    <3>1. Rest(source, Len(source)) = << >>
      BY <2>0, RestFacts
    <3> QED
      BY <2>0, <3>1, NoBytes DEF Behind
  <2>2. DoneBehind(class, state, target, source, cut, returned, legitimate_message_end_)
    BY <2>0, <2>1 DEF DataInv, ParseInv, Done, DoneRefused, Inside, NoGroup
  <2>3. PICK k : /\ Behind(source, k, cut)
                 /\ ValuesHeld(class, state, target, source, k)
                 /\ state.unknown[target] = OthersIn(class, source)[k]
    BY <2>2 DEF DoneBehind
  <2>4. k = Len(source)
    <3>1. k \in 0 .. Len(source) /\ Len(Rest(source, k)) = Len(Rest(source, Len(source)))
      BY <2>1, <2>3 DEF Behind
    <3>2. Len(Rest(source, k)) \in Nat
      BY <2>0, <3>1, RestJoin, BytesFacts
    <3>3. ~(k < Len(source))
      BY <2>0, <3>1, <3>2, RestShorter
    <3> QED
      BY <2>0, <3>1, <3>3
  <2> QED
    BY <2>0, <2>2, <2>3, <2>4, ParsedBehind DEF DoneBehind, Behind
<1> QED
  BY <1>1, DataInvariance, PTL

\* A content that is cut short is parsed as the records before the cut if it ends
\* behind one of them, and refused if not; no string is anything but the beginning
\* of one that was sent.
THEOREM CutContentsAreRefused == Spec => []CutContent
<1>1. DataInv => CutContent
  <2> SUFFICES ASSUME DataInv, at = "return", cut > 0
               PROVE  /\ NoGroup =>
                            \/ \E k \in 0 .. Len(source) - 1 : CutBehind(k) /\ ParsedTo(k)
                            \/ (\A k \in 0 .. Len(source) : ~CutBehind(k)) /\ ~Parsed
                      /\ \A x \in SchemaFields :
                            x.type = LENGTH_DELIMITED =>
                               \/ string(state, target, x.field) = << >>
                               \/ \E i \in Occurrences(x) :
                                     \E k \in 0 .. Len(source[i].value) :
                                        string(state, target, x.field) =
                                           SubSeq(source[i].value, 1, k)
    BY DEF CutContent
  <2>0. /\ class \in Classes /\ source \in Seq(WireRecord) /\ cut # 0
        /\ target \in Objects /\ Good(state, Fields[class]) /\ Len(source) \in Nat
    BY AtTypedCall, RecordsFacts DEF DataInv, TypeOK
  <2>1. \/ DoneBehind(class, state, target, source, cut, returned, legitimate_message_end_)
        \/ DoneRefused(class, state, target, source, cut, returned, legitimate_message_end_)
    BY DEF DataInv, ParseInv, Done
  <2>2. ASSUME DoneBehind(class, state, target, source, cut, returned,
                          legitimate_message_end_)
        PROVE  \E k \in 0 .. Len(source) - 1 : CutBehind(k) /\ ParsedTo(k)
    <3>1. PICK k : /\ Behind(source, k, cut)
                   /\ ValuesHeld(class, state, target, source, k)
                   /\ state.unknown[target] = OthersIn(class, source)[k]
      BY <2>2 DEF DoneBehind
    <3>2. k \in 0 .. Len(source)
      BY <3>1 DEF Behind
    <3>3. k # Len(source)
      <4>1. ASSUME k = Len(source) PROVE cut = 0
        BY <2>0, <3>1, <4>1, RestFacts, NoBytes DEF Behind
      <4> QED
        BY <2>0, <4>1
    <3>4. CutBehind(k) /\ ParsedTo(k)
      BY <2>0, <2>2, <3>1, <3>2, BehindIs, ParsedBehind DEF DoneBehind
    <3>5. k \in 0 .. Len(source) - 1
      BY <2>0, <3>2, <3>3
    <3> QED
      BY <3>4, <3>5
  <2>3. ASSUME DoneRefused(class, state, target, source, cut, returned,
                           legitimate_message_end_), NoGroup
        PROVE  (\A k \in 0 .. Len(source) : ~CutBehind(k)) /\ ~Parsed
    BY <2>0, <2>3, BehindIs DEF DoneRefused, Inside, NoGroup, Parsed
  <2>4. ASSUME NEW x \in SchemaOf(class), x.type = LENGTH_DELIMITED
        PROVE  Beginning(state, target, source, x)
    <3>1. CASE DoneBehind(class, state, target, source, cut, returned,
                          legitimate_message_end_)
      <4>1. PICK k : ValuesHeld(class, state, target, source, k)
        BY <3>1 DEF DoneBehind
      <4>2. x.field \in StringFields
        BY <2>0, <2>4, SchemaFacts DEF VARINT, LENGTH_DELIMITED
      <4>3. x.field \notin state.has[target] => string(state, target, x.field) = << >>
        BY <2>0, <4>2 DEF Good, Clean, string
      <4> QED
        BY <2>0, <2>4, <4>1, <4>3, HeldBegins
    <3>2. CASE DoneRefused(class, state, target, source, cut, returned,
                           legitimate_message_end_)
      BY <2>4, <3>2 DEF DoneRefused
    <3> QED
      BY <2>1, <3>1, <3>2
  <2> QED
    BY <2>1, <2>2, <2>3, <2>4, TermsAgree DEF Beginning
<1> QED
  BY <1>1, DataInvariance, PTL

==============================================================================
