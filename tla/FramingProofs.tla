---------------------------- MODULE FramingProofs -----------------------------
(***************************************************************************)
(* Proofs about Framing, for every header size, receive buffer, limit, set *)
(* of packets and number of connections.                                   *)
(***************************************************************************)
EXTENDS Framing, TLAPS, SequenceTheorems

\* The front of a concatenation is its first part.
LEMMA FrontOfConcat ==
    ASSUME NEW S, NEW x \in Seq(S), NEW y \in Seq(S)
    PROVE  SubSeq(x \o y, 1, Len(x)) = x
<1>1. /\ x \o y \in Seq(S) /\ Len(x \o y) = Len(x) + Len(y)
      /\ \A i \in 1 .. Len(x) : (x \o y)[i] = x[i]
  BY SMT
<1> DEFINE z == x \o y
<1> HIDE DEF z
<1>2. /\ z \in Seq(S) /\ Len(z) = Len(x) + Len(y) /\ \A i \in 1 .. Len(x) : z[i] = x[i]
  BY <1>1 DEF z
<1>3. SubSeq(z, 1, Len(x)) = x
  BY <1>2
<1> QED
  BY <1>3 DEF z

\* A sequence is its first n elements followed by the others.
LEMMA SplitAt ==
    ASSUME NEW S, NEW w \in Seq(S), NEW n \in 0 .. Len(w)
    PROVE  w = SubSeq(w, 1, n) \o SubSeq(w, n + 1, Len(w))
<1> DEFINE x == SubSeq(w, 1, n)
           y == SubSeq(w, n + 1, Len(w))
<1>1. /\ x \in Seq(S) /\ Len(x) = n
      /\ y \in Seq(S) /\ Len(y) = Len(w) - n
      /\ \A i \in 1 .. n : x[i] = w[i]
      /\ \A i \in 1 .. Len(w) - n : y[i] = w[n + i]
  BY SMT
<1> HIDE DEF x, y
<1>2. x \o y \in Seq(S) /\ Len(x \o y) = Len(w)
  BY <1>1
<1>3. \A i \in 1 .. Len(w) : (x \o y)[i] = w[i]
  BY <1>1
<1>4. x \o y = w
  BY <1>2, <1>3, SeqEqual
<1> QED
  BY <1>4 DEF x, y

\* Concatenation is associative.
LEMMA Regroup ==
    ASSUME NEW S
    PROVE  \A a, b, c \in Seq(S) : a \o (b \o c) = (a \o b) \o c
  BY ConcatAssociative

\* Inserting the first n elements of w into buf behind its first m: the
\* filled sequence begins with some x, and x with the rest of w is what the
\* first m elements of buf and all of w were.
Splits(S, buf, w, m, n) ==
    \E x \in Seq(S), rest \in Seq(S), filled \in Seq(S) :
        /\ filled = SubSeq(buf, 1, m) \o SubSeq(w, 1, n)
                       \o SubSeq(buf, m + 1, Len(buf))
        /\ rest = SubSeq(w, n + 1, Len(w))
        /\ Len(x) = m + n
        /\ Len(filled) >= m + n
        /\ SubSeq(filled, 1, m + n) = x
        /\ SubSeq(buf, 1, m) \o w = x \o rest
        /\ \A i \in 1 .. m + n : filled[i] = x[i]

\* Inserting a chunk at a position splits as Splits says: the copy_n of
\* handle_receive at begin() + packet_buffer_mark_.
LEMMA FilledSplit ==
    ASSUME NEW S
    PROVE  \A buf, w \in Seq(S) : \A m \in 0 .. Len(buf), n \in 0 .. Len(w) :
              Splits(S, buf, w, m, n)
<1> TAKE buf, w \in Seq(S)
<1> TAKE m \in 0 .. Len(buf), n \in 0 .. Len(w)
<1> DEFINE front == SubSeq(buf, 1, m)
           tail == SubSeq(buf, m + 1, Len(buf))
           chunk == SubSeq(w, 1, n)
           rest == SubSeq(w, n + 1, Len(w))
<1>1. front \in Seq(S)
  OBVIOUS
<1>2. Len(front) = m
  OBVIOUS
<1>3. tail \in Seq(S)
  OBVIOUS
<1>4. chunk \in Seq(S)
  OBVIOUS
<1>5. Len(chunk) = n
  OBVIOUS
<1>6. rest \in Seq(S)
  OBVIOUS
<1>7. w = chunk \o rest
  BY SplitAt
<1> HIDE DEF front, tail, chunk, rest
<1> DEFINE x == front \o chunk
<1>8. x \in Seq(S)
  BY <1>1, <1>4
<1>9. Len(x) = m + n
  BY <1>1, <1>4, <1>2, <1>5
<1>10. front \o w = x \o rest
  <2>1. x = front \o chunk
    OBVIOUS
  <2> HIDE DEF x
  <2>2. front \o (chunk \o rest) = (front \o chunk) \o rest
    BY <1>1, <1>4, <1>6, Regroup, SMTT(60)
  <2> QED
    BY <2>1, <2>2, <1>7, Zenon
<1> DEFINE filled == x \o tail
<1> HIDE DEF x
<1>11. filled \in Seq(S)
  BY <1>8, <1>3
<1>12. Len(filled) >= m + n
  BY <1>8, <1>3, <1>9
<1>13. SubSeq(filled, 1, m + n) = x
  <2>1. SubSeq(filled, 1, Len(x)) = x
    BY <1>8, <1>3, FrontOfConcat
  <2> QED
    BY <2>1, <1>9
<1>14. \A i \in 1 .. m + n : filled[i] = x[i]
  BY <1>8, <1>3, <1>9
<1> HIDE DEF filled
<1>15. /\ filled = SubSeq(buf, 1, m) \o SubSeq(w, 1, n)
                     \o SubSeq(buf, m + 1, Len(buf))
       /\ rest = SubSeq(w, n + 1, Len(w))
       /\ SubSeq(buf, 1, m) \o w = x \o rest
  BY <1>10 DEF filled, x, front, chunk, tail, rest
<1> QED
  BY <1>6, <1>8, <1>9, <1>11, <1>12, <1>13, <1>14, <1>15 DEF Splits

\* The parts of a byte and the size of its packet.
LEMMA ByteFacts ==
    ASSUME NEW b \in Byte
    PROVE  /\ b[1] \in Packet
           /\ b[1].n \in Nat
           /\ b[1].content_size \in Nat
           /\ b[2] \in Nat
           /\ b = <<b[1], b[2]>>
           /\ get_packet_size(b[1]) \in Nat
           /\ get_packet_size(b[1]) >= HeaderSize
  BY HeaderSizeAssumption DEF Byte, Packet, get_packet_size

\* Dropping a prefix leaves an unbroken stream unbroken: the rest of a packet
\* is still there in one piece.
LEMMA DropPrefix ==
    ASSUME NEW c \in Seq(Byte), NEW y \in Seq(Byte), NEW k \in Nat,
           Len(c) = k + Len(y),
           \A i \in 1 .. Len(y) : y[i] = c[k + i],
           Contiguous(c)
    PROVE  Contiguous(y)
<1> SUFFICES ASSUME NEW j \in 1 .. Len(y)
             PROVE  /\ y[j][2] \in 1 .. get_packet_size(y[j][1])
                    /\ j + get_packet_size(y[j][1]) - y[j][2] <= Len(y)
                    /\ \A i \in j .. j + get_packet_size(y[j][1]) - y[j][2] :
                          y[i] = <<y[j][1], y[j][2] + i - j>>
  BY DEF Contiguous
<1>1. k + j \in 1 .. Len(c) /\ y[j] = c[k + j] /\ y[j] \in Byte
  OBVIOUS
<1> DEFINE p == y[j][1]
           o == y[j][2]
           size == get_packet_size(p)
<1>2. o \in Nat /\ size \in Nat
  BY <1>1, ByteFacts
<1>3. o \in 1 .. size
  BY <1>1 DEF Contiguous
<1>4. k + j + size - o <= Len(c)
  BY <1>1 DEF Contiguous
<1>5. \A i \in k + j .. k + j + size - o : c[i] = <<p, o + i - (k + j)>>
  BY <1>1 DEF Contiguous
<1> HIDE DEF p, o, size
<1>6. j + size - o <= Len(y)
  BY <1>2, <1>3, <1>4
<1>7. ASSUME NEW i \in j .. j + size - o PROVE y[i] = <<p, o + i - j>>
  <2>1. k + i \in k + j .. k + j + size - o /\ i \in 1 .. Len(y)
    BY <1>2, <1>3, <1>6
  <2>2. y[i] = c[k + i]
    BY <2>1
  <2>3. c[k + i] = <<p, o + (k + i) - (k + j)>>
    BY <1>5, <2>1
  <2>4. o + (k + i) - (k + j) = o + i - j
    BY <1>2, <1>3
  <2> QED
    BY <2>2, <2>3, <2>4
<1> QED
  BY <1>3, <1>6, <1>7 DEF p, o, size

\* A stream that begins with a packet's first byte begins with that packet.
LEMMA FrontPacket ==
    ASSUME NEW c \in Seq(Byte), c # << >>, Contiguous(c), c[1][2] = 1
    PROVE  /\ get_packet_size(c[1][1]) <= Len(c)
           /\ \A k \in 1 .. get_packet_size(c[1][1]) : c[k] = <<c[1][1], k>>
<1> DEFINE size == get_packet_size(c[1][1])
<1>1. 1 \in 1 .. Len(c) /\ c[1] \in Byte
  OBVIOUS
<1>2. size \in Nat
  BY <1>1, ByteFacts
<1>3. 1 + size - 1 <= Len(c)
  BY <1>1 DEF Contiguous
<1>4. \A k \in 1 .. 1 + size - 1 : c[k] = <<c[1][1], 1 + k - 1>>
  BY <1>1 DEF Contiguous
<1> HIDE DEF size
<1>5. \A k \in 1 .. size : c[k] = <<c[1][1], k>>
  BY <1>2, <1>4
<1> QED
  BY <1>2, <1>3, <1>5 DEF size

\* The bytes of a stream with one more packet behind it.
LEMMA Appended ==
    ASSUME NEW c \in Seq(Byte), NEW p \in Packet
    PROVE  LET d == c \o build_packet(p)
           IN  /\ get_packet_size(p) \in Nat /\ get_packet_size(p) >= 1
               /\ d \in Seq(Byte)
               /\ Len(d) = Len(c) + get_packet_size(p)
               /\ \A i \in 1 .. Len(c) : d[i] = c[i]
               /\ \A i \in Len(c) + 1 .. Len(c) + get_packet_size(p) :
                     d[i] = <<p, i - Len(c)>>
<1> DEFINE size == get_packet_size(p)
           q == build_packet(p)
<1>1. size \in Nat /\ size >= 1
  BY HeaderSizeAssumption DEF get_packet_size, Packet
<1>2. /\ q \in Seq(Byte) /\ Len(q) = size
      /\ \A i \in 1 .. size : q[i] = <<p, i>>
  BY <1>1 DEF build_packet, Byte
<1> HIDE DEF size, q
<1>3. /\ c \o q \in Seq(Byte)
      /\ Len(c \o q) = Len(c) + size
      /\ \A i \in 1 .. Len(c) : (c \o q)[i] = c[i]
  BY <1>1, <1>2
<1>4. \A i \in Len(c) + 1 .. Len(c) + size : (c \o q)[i] = <<p, i - Len(c)>>
  BY <1>1, <1>2
<1> QED
  BY <1>1, <1>3, <1>4 DEF size, q

\* A stream stays unbroken when a whole packet is written behind it.
LEMMA AppendContiguous ==
    ASSUME NEW c \in Seq(Byte), NEW p \in Packet, Contiguous(c)
    PROVE  Contiguous(c \o build_packet(p))
<1> DEFINE size == get_packet_size(p)
           d == c \o build_packet(p)
<1>1. size \in Nat /\ size >= 1
  BY Appended
<1>3. /\ Len(d) = Len(c) + size
      /\ \A i \in 1 .. Len(c) : d[i] = c[i]
  BY Appended
<1>4. \A i \in Len(c) + 1 .. Len(c) + size : d[i] = <<p, i - Len(c)>>
  BY Appended
<1> HIDE DEF size, d
<1> SUFFICES ASSUME NEW j \in 1 .. Len(d)
             PROVE  /\ d[j][2] \in 1 .. get_packet_size(d[j][1])
                    /\ j + get_packet_size(d[j][1]) - d[j][2] <= Len(d)
                    /\ \A i \in j .. j + get_packet_size(d[j][1]) - d[j][2] :
                          d[i] = <<d[j][1], d[j][2] + i - j>>
  BY DEF Contiguous, d
<1>5. CASE j <= Len(c)
  <2> DEFINE o == c[j][2]
             s == get_packet_size(c[j][1])
  <2>1. j \in 1 .. Len(c) /\ d[j] = c[j] /\ c[j] \in Byte
    BY <1>3, <1>5
  <2>2. o \in Nat /\ s \in Nat
    BY <2>1, ByteFacts
  <2>3. /\ o \in 1 .. s
        /\ j + s - o <= Len(c)
        /\ \A i \in j .. j + s - o : c[i] = <<c[j][1], o + i - j>>
    BY <2>1 DEF Contiguous
  <2> HIDE DEF o, s
  <2>4. j + s - o <= Len(d)
    BY <1>1, <1>3, <2>2, <2>3
  <2>5. ASSUME NEW i \in j .. j + s - o PROVE d[i] = <<c[j][1], o + i - j>>
    <3>1. i \in 1 .. Len(c)
      BY <2>2, <2>3
    <3> QED
      BY <1>3, <2>3, <3>1
  <2> QED
    BY <2>1, <2>3, <2>4, <2>5 DEF o, s
<1>6. CASE j > Len(c)
  <2>1. j \in Len(c) + 1 .. Len(c) + size /\ d[j] = <<p, j - Len(c)>>
    BY <1>1, <1>3, <1>4, <1>6
  <2>2. d[j][1] = p /\ d[j][2] = j - Len(c)
    BY <2>1
  <2>3. j + size - (j - Len(c)) = Len(c) + size
    BY <1>1, <2>1
  <2>4. j - Len(c) \in 1 .. size
    BY <1>1, <2>1
  <2>5. \A i \in j .. Len(c) + size : d[i] = <<p, (j - Len(c)) + i - j>>
    BY <1>1, <1>4, <2>1
  <2> QED
    BY <1>3, <2>2, <2>3, <2>4, <2>5 DEF size
<1> QED
  BY <1>3, <1>5, <1>6

\* Dropping a prefix keeps the order of the packets.
LEMMA DropOrdered ==
    ASSUME NEW c \in Seq(Byte), NEW y \in Seq(Byte), NEW k \in Nat,
           NEW low, NEW low2, NEW all,
           Len(c) = k + Len(y),
           \A i \in 1 .. Len(y) : y[i] = c[k + i],
           Ordered(c, low, all),
           \A i \in 1 .. Len(y) : c[k + i][1].n > low2
    PROVE  Ordered(y, low2, all)
<1>1. ASSUME NEW j \in 1 .. Len(y)
      PROVE  k + j \in 1 .. Len(c) /\ y[j] = c[k + j]
  OBVIOUS
<1>2. ASSUME NEW j \in 1 .. Len(y)
      PROVE  /\ y[j][1].n \in 1 .. Len(all)
             /\ y[j][1].n > low2
             /\ all[y[j][1].n] = y[j][1]
  BY <1>1 DEF Ordered
<1>3. ASSUME NEW j \in 1 .. Len(y), NEW i \in j + 1 .. Len(y)
      PROVE  \/ y[j][1].n < y[i][1].n
             \/ y[j][1] = y[i][1] /\ y[j][2] < y[i][2]
  <2>1. /\ k + j \in 1 .. Len(c) /\ k + i \in (k + j) + 1 .. Len(c)
        /\ y[j] = c[k + j] /\ y[i] = c[k + i]
    OBVIOUS
  <2> QED
    BY <2>1 DEF Ordered
<1> QED
  BY <1>2, <1>3 DEF Ordered

\* Behind the packet at the front only later packets follow.
LEMMA BehindFront ==
    ASSUME NEW c \in Seq(Byte), c # << >>, Contiguous(c), c[1][2] = 1,
           NEW low, NEW all, Ordered(c, low, all),
           NEW k \in Nat, k >= get_packet_size(c[1][1]),
           NEW i \in k + 1 .. Len(c)
    PROVE  c[i][1].n > c[1][1].n
<1> DEFINE size == get_packet_size(c[1][1])
<1>1. 1 \in 1 .. Len(c) /\ c[1] \in Byte
  OBVIOUS
<1>2. size \in Nat /\ size >= 1
  BY <1>1, ByteFacts, HeaderSizeAssumption
<1>3. size <= Len(c) /\ c[size] = <<c[1][1], size>>
  BY <1>2, FrontPacket
<1> HIDE DEF size
<1>4. size \in 1 .. Len(c) /\ i \in size + 1 .. Len(c) /\ i \in 1 .. Len(c)
  BY <1>2, <1>3 DEF size
<1>5. \/ c[size][1].n < c[i][1].n
      \/ c[size][1] = c[i][1] /\ c[size][2] < c[i][2]
  BY <1>4 DEF Ordered
<1>6. c[size][1] = c[1][1] /\ c[size][2] = size
  BY <1>3
<1>7. c[i][2] \in 1 .. get_packet_size(c[i][1])
  BY <1>4 DEF Contiguous
<1>8. c[1][1].n \in Nat /\ c[i][1].n \in Nat /\ c[i][2] \in Nat
  <2>1. c[i] \in Byte
    BY <1>4
  <2> QED
    BY <1>1, <2>1, ByteFacts
<1>9. CASE c[1][1] = c[i][1] /\ size < c[i][2]
  BY <1>2, <1>7, <1>8, <1>9 DEF size
<1> QED
  BY <1>5, <1>6, <1>8, <1>9

\* The order is kept when the next packet is written.
LEMMA AppendOrdered ==
    ASSUME NEW c \in Seq(Byte), NEW p \in Packet, NEW low \in Nat,
           NEW all \in Seq(Packet), Ordered(c, low, all),
           p.n = Len(all) + 1, low <= Len(all)
    PROVE  Ordered(c \o build_packet(p), low, Append(all, p))
<1> DEFINE size == get_packet_size(p)
           d == c \o build_packet(p)
           more == Append(all, p)
<1>1. size \in Nat /\ size >= 1
  BY Appended
<1>3. /\ Len(d) = Len(c) + size
      /\ \A i \in 1 .. Len(c) : d[i] = c[i]
  BY Appended
<1>4. \A i \in Len(c) + 1 .. Len(c) + size : d[i] = <<p, i - Len(c)>>
  BY Appended
<1> HIDE DEF size, d
<1>5. /\ Len(more) = Len(all) + 1 /\ more[Len(all) + 1] = p
      /\ \A i \in 1 .. Len(all) : more[i] = all[i]
  OBVIOUS
<1> HIDE DEF more
<1>6. ASSUME NEW j \in 1 .. Len(c)
      PROVE  /\ d[j] = c[j]
             /\ c[j][1].n \in 1 .. Len(all)
             /\ c[j][1].n > low
             /\ all[c[j][1].n] = c[j][1]
  BY <1>3 DEF Ordered
<1>7. ASSUME NEW j \in Len(c) + 1 .. Len(c) + size
      PROVE  /\ d[j][1] = p
             /\ d[j][2] = j - Len(c)
  BY <1>4
<1>8. ASSUME NEW j \in 1 .. Len(d)
      PROVE  /\ d[j][1].n \in 1 .. Len(more)
             /\ d[j][1].n > low
             /\ more[d[j][1].n] = d[j][1]
  <2>1. CASE j \in 1 .. Len(c)
    BY <2>1, <1>5, <1>6
  <2>2. CASE j \in Len(c) + 1 .. Len(c) + size
    BY <2>2, <1>5, <1>7
  <2> QED
    BY <1>1, <1>3, <2>1, <2>2
<1>9. ASSUME NEW j \in 1 .. Len(d), NEW i \in j + 1 .. Len(d)
      PROVE  \/ d[j][1].n < d[i][1].n
             \/ d[j][1] = d[i][1] /\ d[j][2] < d[i][2]
  <2>1. CASE i \in 1 .. Len(c)
    <3>1. j \in 1 .. Len(c) /\ i \in j + 1 .. Len(c)
      BY <2>1
    <3> QED
      BY <3>1, <1>3 DEF Ordered
  <2>2. CASE j \in 1 .. Len(c) /\ i \in Len(c) + 1 .. Len(c) + size
    <3>1. d[j][1].n \in 1 .. Len(all)
      BY <2>2, <1>6
    <3>2. d[i][1].n = Len(all) + 1
      BY <2>2, <1>7
    <3> QED
      BY <3>1, <3>2
  <2>3. CASE j \in Len(c) + 1 .. Len(c) + size /\ i \in Len(c) + 1 .. Len(c) + size
    BY <2>3, <1>7
  <2> QED
    BY <1>1, <1>3, <2>1, <2>2, <2>3
<1> QED
  BY <1>8, <1>9 DEF Ordered, d, more

\* The bytes ahead are bytes; with the mark at 0 they are those on the wire.
LEMMA BytesAhead ==
    ASSUME TypeOK, MarkInside
    PROVE  /\ Ahead \in Seq(Byte)
           /\ packet_buffer_mark_[Receiver] = 0 => Ahead = wire
<1> DEFINE buf == packet_buffer_[Receiver]
           m == packet_buffer_mark_[Receiver]
<1>1. buf \in Seq(Byte) /\ m \in 0 .. Len(buf) /\ wire \in Seq(Byte)
  BY FramingAssumption DEF TypeOK, MarkInside
<1> HIDE DEF buf, m
<1>2. SubSeq(buf, 1, m) \in Seq(Byte)
  BY <1>1
<1>3. SubSeq(buf, 1, m) \o wire \in Seq(Byte)
  BY <1>1, <1>2
<1>4. ASSUME m = 0 PROVE SubSeq(buf, 1, m) \o wire = wire
  <2>1. SubSeq(buf, 1, m) = << >>
    BY <1>4, SubSeqEmpty
  <2> QED
    BY <2>1, <1>1, ConcatEmptySeq
<1> QED
  BY <1>3, <1>4 DEF Ahead, buf, m

\* A read moves n bytes of the wire behind the mark: nothing ahead changes.
LEMMA BytesRead ==
    ASSUME TypeOK, MarkInside, NEW n \in Nat, n <= Len(wire)
    PROVE  LET chunk == SubSeq(wire, 1, n)
               filled == Filled(Receiver, chunk)
               rest == SubSeq(wire, n + 1, Len(wire))
               size == packet_data_size(Receiver, chunk)
           IN  /\ size \in Nat /\ size = packet_buffer_mark_[Receiver] + n
               /\ filled \in Seq(Byte) /\ Len(filled) >= size
               /\ rest \in Seq(Byte)
               /\ Len(Ahead) = size + Len(rest)
               /\ SubSeq(filled, 1, size) \o rest = Ahead
               /\ \A i \in 1 .. size : filled[i] = Ahead[i]
               /\ \A i \in 1 .. Len(rest) : rest[i] = Ahead[size + i]
<1> DEFINE buf == packet_buffer_[Receiver]
           m == packet_buffer_mark_[Receiver]
<1>1. buf \in Seq(Byte) /\ m \in 0 .. Len(buf) /\ wire \in Seq(Byte)
  BY FramingAssumption DEF TypeOK, MarkInside
<1>2. packet_data_size(Receiver, SubSeq(wire, 1, n)) = m + n
  <2>1. Len(SubSeq(wire, 1, n)) = n
    BY <1>1
  <2> QED
    BY <2>1 DEF packet_data_size
<1>3. Ahead = SubSeq(buf, 1, m) \o wire
  BY DEF Ahead
<1>4. Filled(Receiver, SubSeq(wire, 1, n)) =
          SubSeq(buf, 1, m) \o SubSeq(wire, 1, n) \o SubSeq(buf, m + 1, Len(buf))
  BY DEF Filled
<1> HIDE DEF buf, m
<1>5. PICK x \in Seq(Byte), rest \in Seq(Byte), filled \in Seq(Byte) :
          /\ filled = SubSeq(buf, 1, m) \o SubSeq(wire, 1, n)
                         \o SubSeq(buf, m + 1, Len(buf))
          /\ rest = SubSeq(wire, n + 1, Len(wire))
          /\ Len(x) = m + n
          /\ Len(filled) >= m + n
          /\ SubSeq(filled, 1, m + n) = x
          /\ SubSeq(buf, 1, m) \o wire = x \o rest
          /\ \A i \in 1 .. m + n : filled[i] = x[i]
  <2>1. n \in 0 .. Len(wire)
    BY <1>1
  <2>2. Splits(Byte, buf, wire, m, n)
    BY <1>1, <2>1, FilledSplit, Zenon
  <2> QED
    BY <2>2 DEF Splits
<1>6. Ahead = x \o rest
  BY <1>3, <1>5
<1>7. /\ Len(x \o rest) = m + n + Len(rest)
      /\ \A i \in 1 .. m + n : (x \o rest)[i] = x[i]
      /\ \A i \in 1 .. Len(rest) : (x \o rest)[m + n + i] = rest[i]
  <2>1. Len(x) \in Nat /\ Len(rest) \in Nat
    OBVIOUS
  <2>2. /\ Len(x \o rest) = Len(x) + Len(rest)
        /\ \A i \in 1 .. Len(x) : (x \o rest)[i] = x[i]
        /\ \A i \in 1 .. Len(rest) : (x \o rest)[Len(x) + i] = rest[i]
    OBVIOUS
  <2>3. Len(x) = m + n
    BY <1>5
  <2> QED
    BY <2>2, <2>3
<1>8. m + n \in Nat
  BY <1>1
<1>9. Filled(Receiver, SubSeq(wire, 1, n)) = filled
  BY <1>4, <1>5
<1> QED
  BY <1>2, <1>5, <1>6, <1>7, <1>8, <1>9 DEF m

\* A packet that is sent is behind all the receiver has ahead.
LEMMA SendAhead ==
    ASSUME TypeOK, MarkInside, NEW p \in Packet, wire' = wire \o build_packet(p),
           UNCHANGED rx_vars
    PROVE  Ahead' = Ahead \o build_packet(p)
<1>1. packet_buffer_' = packet_buffer_ /\ packet_buffer_mark_' = packet_buffer_mark_
  BY DEF rx_vars
<1> DEFINE front == SubSeq(packet_buffer_[Receiver], 1, packet_buffer_mark_[Receiver])
           q == build_packet(p)
<1>2. Ahead = front \o wire /\ Ahead' = front \o (wire \o q)
  BY <1>1 DEF Ahead
<1>3. front \in Seq(Byte)
  <2>1. /\ packet_buffer_[Receiver] \in Seq(Byte)
        /\ packet_buffer_mark_[Receiver] \in 0 .. Len(packet_buffer_[Receiver])
    BY FramingAssumption DEF TypeOK, MarkInside
  <2> QED
    BY <2>1
<1>4. q \in Seq(Byte) /\ wire \in Seq(Byte)
  BY Appended DEF TypeOK
<1> HIDE DEF front, q
<1>5. front \o (wire \o q) = (front \o wire) \o q
  BY <1>3, <1>4, Regroup, SMTT(60)
<1> QED
  BY <1>2, <1>5 DEF q

\* A read leaves what is ahead as it was, or drops all up to its own end.
LEMMA ReadAhead ==
    ASSUME TypeOK, MarkInside, NEW n \in Nat, n <= Len(wire),
           wire' = SubSeq(wire, n + 1, Len(wire))
    PROVE  LET chunk == SubSeq(wire, 1, n)
           IN  /\ KeepChunk(Receiver, chunk) =>
                     /\ Ahead' = Ahead
                     /\ packet_buffer_mark_'[Receiver] = packet_data_size(Receiver, chunk)
               /\ clear_packet_buffer(Receiver) =>
                     /\ Ahead' = wire'
                     /\ ~content_read_mode_'[Receiver]
<1> USE FramingAssumption
<1> DEFINE chunk == SubSeq(wire, 1, n)
           filled == Filled(Receiver, chunk)
           rest == SubSeq(wire, n + 1, Len(wire))
           size == packet_data_size(Receiver, chunk)
<1>1. rest \in Seq(Byte) /\ SubSeq(filled, 1, size) \o rest = Ahead
  BY BytesRead
<1>2. ASSUME KeepChunk(Receiver, chunk)
      PROVE  Ahead' = Ahead /\ packet_buffer_mark_'[Receiver] = size
  <2>1. packet_buffer_'[Receiver] = filled /\ packet_buffer_mark_'[Receiver] = size
    BY <1>2 DEF KeepChunk, TypeOK
  <2> HIDE DEF filled, size
  <2> QED
    BY <1>1, <2>1 DEF Ahead
<1>3. ASSUME clear_packet_buffer(Receiver)
      PROVE  Ahead' = rest /\ ~content_read_mode_'[Receiver]
  <2>1. /\ packet_buffer_'[Receiver] = << >> /\ packet_buffer_mark_'[Receiver] = 0
        /\ ~content_read_mode_'[Receiver]
    BY <1>3 DEF clear_packet_buffer, TypeOK
  <2>2. Ahead' = SubSeq(<< >>, 1, 0) \o rest
    BY <2>1 DEF Ahead
  <2> HIDE DEF rest
  <2>3. << >> \o rest = rest
    BY <1>1, ConcatEmptySeq
  <2>4. SubSeq(<< >>, 1, 0) = << >>
    BY SubSeqEmpty
  <2> QED
    BY <2>1, <2>2, <2>3, <2>4
<1> QED
  BY <1>2, <1>3

\* Types are kept, and the mark stays inside the buffer: the copy_n of
\* handle_receive never inserts behind the end of the vector.
LEMMA Typed == Spec => [](TypeOK /\ MarkInside)
<1>1. Init => TypeOK /\ MarkInside
  BY FramingAssumption DEF Init, RxInit, TypeOK, MarkInside
<1>2. TypeOK /\ MarkInside /\ [Next]_vars => TypeOK' /\ MarkInside'
  <2> SUFFICES ASSUME TypeOK, MarkInside, [Next]_vars
               PROVE  TypeOK' /\ MarkInside'
    OBVIOUS
  <2> USE FramingAssumption
  <2>1. ASSUME NEW kind \in Kinds, Send(kind)
        PROVE  TypeOK' /\ MarkInside'
    <3> DEFINE p == [id |-> kind.id, content_size |-> kind.content_size,
                     n |-> Len(sent) + 1]
    <3>1. p \in Packet
      BY DEF Packet, TypeOK
    <3>2. wire' = wire \o build_packet(p) /\ sent' = Append(sent, p)
      BY <2>1 DEF Send
    <3> HIDE DEF p
    <3>3. wire' \in Seq(Byte)
      BY <3>1, <3>2, Appended DEF TypeOK
    <3>4. sent' \in Seq(Packet)
      BY <3>1, <3>2 DEF TypeOK
    <3> QED
      BY <2>1, <3>3, <3>4 DEF Send, TypeOK, MarkInside, rx_vars
  <2>2. ASSUME NEW n \in 1 .. ReceiveMax, HandleReceive(n)
        PROVE  TypeOK' /\ MarkInside'
    <3> DEFINE chunk == SubSeq(wire, 1, n)
               filled == Filled(Receiver, chunk)
               size == packet_data_size(Receiver, chunk)
               length == get_packet_size(header(filled))
    <3>1. /\ size \in Nat /\ filled \in Seq(Byte) /\ Len(filled) >= size
          /\ SubSeq(wire, n + 1, Len(wire)) \in Seq(Byte)
      BY <2>2, BytesRead DEF HandleReceive
    <3>2. wire' \in Seq(Byte) /\ UNCHANGED <<open, sent, base, connections>>
      BY <2>2, <3>1 DEF HandleReceive
    <3> HIDE DEF chunk, filled, size
    <3>3. \/ ShortHeader(Receiver, chunk) /\ UNCHANGED processed
          \/ Refused(Receiver, chunk) /\ UNCHANGED processed
          \/ Incomplete(Receiver, chunk) /\ UNCHANGED processed
          \/ /\ Complete(Receiver, chunk)
             /\ processed' = Append(processed, PacketBytes(Receiver, chunk))
      BY <2>2 DEF HandleReceive, chunk
    <3>4. ASSUME KeepChunk(Receiver, chunk)
          PROVE  /\ packet_buffer_' \in [Sessions -> Seq(Byte)]
                 /\ packet_buffer_mark_' \in [Sessions -> Nat]
                 /\ MarkInside'
      BY <3>1, <3>4 DEF KeepChunk, TypeOK, MarkInside, filled, size
    <3>5. ASSUME clear_packet_buffer(Receiver)
          PROVE  /\ packet_buffer_' \in [Sessions -> Seq(Byte)]
                 /\ packet_buffer_mark_' \in [Sessions -> Nat]
                 /\ content_read_mode_' \in [Sessions -> BOOLEAN]
                 /\ MarkInside'
      BY <3>5 DEF clear_packet_buffer, TypeOK, MarkInside
    <3>6. CASE ShortHeader(Receiver, chunk) /\ UNCHANGED processed
      BY <3>2, <3>4, <3>6 DEF ShortHeader, TypeOK
    <3>7. CASE Refused(Receiver, chunk) /\ UNCHANGED processed
      BY <3>2, <3>5, <3>7 DEF Refused, TypeOK
    <3>8. CASE Incomplete(Receiver, chunk) /\ UNCHANGED processed
      BY <3>2, <3>4, <3>8 DEF Incomplete, TypeOK
    <3>9. CASE /\ Complete(Receiver, chunk)
               /\ processed' = Append(processed, PacketBytes(Receiver, chunk))
      <4>1. size >= HeaderSize /\ length <= size
        BY <3>9 DEF Complete, size, filled
      <4>2. length \in Nat
        <5>1. 1 \in 1 .. Len(filled)
          BY <4>1, <3>1, HeaderSizeAssumption
        <5>2. filled[1] \in Byte
          BY <5>1, <3>1
        <5> QED
          BY <5>2, ByteFacts DEF header
      <4> HIDE DEF length
      <4>3. SubSeq(filled, 1, length) \in Seq(Byte)
        BY <3>1, <4>1, <4>2
      <4>4. PacketBytes(Receiver, chunk) \in Seq(Byte)
        BY <4>3 DEF PacketBytes, length, filled
      <4>5. processed' \in Seq(Seq(Byte))
        BY <3>9, <4>4 DEF TypeOK
      <4> QED
        BY <3>2, <3>5, <3>9, <4>5 DEF Complete, TypeOK
    <3> QED
      BY <3>3, <3>6, <3>7, <3>8, <3>9
  <2>3. CASE HandleReceiveError
    <3>1. wire' \in Seq(Byte) /\ base' \in Nat
      BY <2>3 DEF HandleReceiveError, TypeOK
    <3> QED
      BY <2>3, <3>1 DEF HandleReceiveError, TypeOK, MarkInside, rx_vars
  <2>4. CASE Reuse
    BY <2>4 DEF Reuse, init, TypeOK, MarkInside
  <2>5. CASE UNCHANGED vars
    BY <2>5 DEF vars, rx_vars, stream_vars, TypeOK, MarkInside
  <2> QED
    BY <2>1, <2>2, <2>3, <2>4, <2>5 DEF Next
<1> QED
  BY <1>1, <1>2, PTL DEF Spec

\* The receiver's state keeps its type.
THEOREM TypeCorrect == Spec => []TypeOK
  BY Typed, PTL
-------------------------------------------------------------------------------
(* The stream invariant.                                                     *)

\* A packet of at least a header says where it stands.
LEMMA PositionOf ==
    ASSUME NEW p \in Packet
    PROVE  position(build_packet(p)) = p.n
<1>1. get_packet_size(p) \in Nat /\ get_packet_size(p) >= 1
  BY HeaderSizeAssumption DEF get_packet_size, Packet
<1>2. 1 \in 1 .. get_packet_size(p)
  BY <1>1
<1>3. build_packet(p)[1] = <<p, 1>>
  BY <1>2 DEF build_packet
<1> QED
  BY <1>3 DEF position, header

\* Every packet processed was sent, and the horizon lies between the packets
\* of earlier connections and the last one sent.
LEMMA Positions ==
    ASSUME TypeOK, StreamInv
    PROVE  /\ \A i \in 1 .. Len(processed) : position(processed[i]) \in 1 .. Len(sent)
           /\ horizon \in Nat
           /\ horizon <= Len(sent)
           /\ base <= horizon
<1>1. ASSUME NEW i \in 1 .. Len(processed)
      PROVE  position(processed[i]) \in 1 .. Len(sent)
  <2>1. PICK k \in 1 .. Len(sent) : processed[i] = build_packet(sent[k])
    BY DEF StreamInv
  <2>2. sent[k] \in Packet /\ sent[k].n = k
    BY DEF TypeOK, StreamInv
  <2> QED
    BY <2>1, <2>2, PositionOf
<1>2. base \in Nat /\ base <= Len(sent) /\ Len(sent) \in Nat
  BY DEF TypeOK, StreamInv
<1>3. CASE processed # << >> /\ position(processed[Len(processed)]) > base
  <2>1. Len(processed) \in 1 .. Len(processed)
    BY <1>3 DEF TypeOK
  <2>2. position(processed[Len(processed)]) \in 1 .. Len(sent)
    BY <2>1, <1>1
  <2> QED
    BY <1>1, <1>2, <1>3, <2>2 DEF horizon
<1>4. CASE ~(processed # << >> /\ position(processed[Len(processed)]) > base)
  BY <1>1, <1>2, <1>4 DEF horizon
<1> QED
  BY <1>3, <1>4

\* When a header is taken for good, it is the one at the front of a packet.
LEMMA HeaderAtFront ==
    ASSUME TypeOK, StreamInv, open, NEW n \in Nat, n <= Len(wire),
           packet_data_size(Receiver, SubSeq(wire, 1, n)) >= HeaderSize,
           HeaderPasses(Receiver, SubSeq(wire, 1, n))
    PROVE  /\ Ahead # << >>
           /\ Ahead[1][2] = 1
           /\ header(Filled(Receiver, SubSeq(wire, 1, n))) = Ahead[1][1]
<1> DEFINE filled == Filled(Receiver, SubSeq(wire, 1, n))
           size == packet_data_size(Receiver, SubSeq(wire, 1, n))
           rest == SubSeq(wire, n + 1, Len(wire))
<1>1. MarkInside
  BY DEF StreamInv
<1>2. /\ size \in Nat /\ rest \in Seq(Byte)
      /\ Len(Ahead) = size + Len(rest)
      /\ \A i \in 1 .. size : filled[i] = Ahead[i]
  BY <1>1, BytesRead
<1>3. size >= HeaderSize
  OBVIOUS
<1>4. content_read_mode_[Receiver] \/ crc_valid(filled)
  BY DEF HeaderPasses
<1> HIDE DEF filled, size, rest
<1>5. 1 \in 1 .. size /\ 1 \in 1 .. HeaderSize /\ Len(Ahead) >= 1
  BY <1>2, <1>3, HeaderSizeAssumption
<1>6. Ahead # << >> /\ filled[1] = Ahead[1]
  BY <1>2, <1>5
<1>7. CASE content_read_mode_[Receiver]
  BY <1>6, <1>7 DEF StreamInv, header, filled
<1>8. CASE crc_valid(filled)
  <2>1. filled[1] = <<header(filled), 1>>
    BY <1>5, <1>8 DEF crc_valid
  <2> QED
    BY <1>6, <2>1 DEF header, filled
<1> QED
  BY <1>4, <1>7, <1>8

\* What a complete packet is: one of those sent, later than all before it, and
\* earlier than everything behind it in the stream.
LEMMA Delivery ==
    ASSUME TypeOK, StreamInv, open, NEW n \in Nat, n <= Len(wire),
           Complete(Receiver, SubSeq(wire, 1, n))
    PROVE  LET size == packet_data_size(Receiver, SubSeq(wire, 1, n))
           IN  \E k \in 1 .. Len(sent) :
                  /\ horizon < k
                  /\ PacketBytes(Receiver, SubSeq(wire, 1, n)) = build_packet(sent[k])
                  /\ \A i \in size + 1 .. Len(Ahead) : Ahead[i][1].n > k
<1> DEFINE chunk == SubSeq(wire, 1, n)
           filled == Filled(Receiver, chunk)
           size == packet_data_size(Receiver, chunk)
           p == Ahead[1][1]
           k == p.n
<1>1. MarkInside
  BY DEF StreamInv
<1>2. /\ size \in Nat /\ filled \in Seq(Byte) /\ Len(filled) >= size
      /\ \A i \in 1 .. size : filled[i] = Ahead[i]
  BY <1>1, BytesRead
<1>3. Ahead # << >> /\ Ahead[1][2] = 1 /\ header(filled) = p
  BY HeaderAtFront DEF Complete
<1>4. Ahead \in Seq(Byte) /\ 1 \in 1 .. Len(Ahead)
  BY <1>1, <1>3, BytesAhead
<1>5. Contiguous(Ahead) /\ Ordered(Ahead, horizon, sent)
  BY DEF StreamInv
<1>6. get_packet_size(p) <= size
  BY <1>3 DEF Complete
<1>7. p \in Packet /\ get_packet_size(p) \in Nat
  <2>1. Ahead[1] \in Byte
    BY <1>4
  <2> QED
    BY <2>1, ByteFacts
<1> HIDE DEF chunk, filled, size
<1>8. k \in 1 .. Len(sent) /\ horizon < k /\ sent[k] = p
  <2>1. k > horizon /\ k \in 1 .. Len(sent) /\ sent[k] = p
    BY <1>4, <1>5 DEF Ordered
  <2>2. horizon \in Nat
    BY Positions
  <2> QED
    BY <2>1, <2>2
<1>9. PacketBytes(Receiver, chunk) = build_packet(p)
  <2>1. PacketBytes(Receiver, chunk) = SubSeq(filled, 1, get_packet_size(p))
    BY <1>3 DEF PacketBytes, filled
  <2>2. \A i \in 1 .. get_packet_size(p) : Ahead[i] = <<p, i>>
    BY <1>3, <1>4, <1>5, FrontPacket
  <2>3. \A i \in 1 .. get_packet_size(p) : filled[i] = <<p, i>>
    BY <1>2, <1>6, <1>7, <2>2
  <2>4. SubSeq(filled, 1, get_packet_size(p)) =
            [i \in 1 .. get_packet_size(p) |-> <<p, i>>]
    BY <1>2, <1>6, <1>7, <2>3
  <2> QED
    BY <2>1, <2>4 DEF build_packet
<1>10. ASSUME NEW i \in size + 1 .. Len(Ahead)
       PROVE  Ahead[i][1].n > k
  BY <1>2, <1>3, <1>4, <1>5, <1>6, BehindFront
<1> QED
  BY <1>8, <1>9, <1>10 DEF chunk, size

\* The packet delivered last is the one the horizon stands at.
LEMMA LastDelivered ==
    ASSUME TypeOK, StreamInv, NEW k \in 1 .. Len(sent), horizon < k,
           NEW bytes, bytes = build_packet(sent[k]),
           processed' = Append(processed, bytes), base' = base
    PROVE  horizon' = k
<1>1. Len(processed') = Len(processed) + 1 /\ processed'[Len(processed')] = bytes
  BY DEF TypeOK
<1>2. processed' # << >>
  BY <1>1 DEF TypeOK
<1>3. position(bytes) = k
  <2>1. sent[k] \in Packet /\ sent[k].n = k
    BY DEF TypeOK, StreamInv
  <2> QED
    BY <2>1, PositionOf
<1>4. k > base'
  BY Positions DEF TypeOK
<1>5. position(processed'[Len(processed')]) = k
  BY <1>1, <1>3
<1> QED
  BY <1>2, <1>4, <1>5 DEF horizon

\* A step leaves the stream as it should be: one step per action, and for a
\* read one per outcome.
LEMMA StreamStep ==
    ASSUME TypeOK, StreamInv, [Next]_vars, TypeOK', MarkInside'
    PROVE  StreamInv'
<1> USE FramingAssumption
<1>0. MarkInside /\ Ahead \in Seq(Byte)
  BY BytesAhead DEF StreamInv
<1>1. ASSUME NEW kind \in Kinds, Send(kind)
      PROVE  StreamInv'
  <2> DEFINE p == [id |-> kind.id, content_size |-> kind.content_size,
                   n |-> Len(sent) + 1]
             c == Ahead
  <2>1. p \in Packet /\ p.n = Len(sent) + 1
    BY DEF Packet, TypeOK
  <2>2. /\ wire' = wire \o build_packet(p) /\ sent' = Append(sent, p)
        /\ open /\ UNCHANGED <<rx_vars, open, processed, base>>
    BY <1>1 DEF Send
  <2> HIDE DEF p
  <2>3. /\ Len(sent') = Len(sent) + 1 /\ sent'[Len(sent) + 1] = p
        /\ \A k \in 1 .. Len(sent) : sent'[k] = sent[k]
    BY <2>2 DEF TypeOK
  <2>4. Ahead' = Ahead \o build_packet(p)
    BY <1>0, <2>1, <2>2, SendAhead
  <2>5. horizon' = horizon /\ horizon \in Nat /\ horizon <= Len(sent)
    BY <2>2, Positions DEF horizon
  <2>6. Contiguous(Ahead) /\ Ordered(Ahead, horizon, sent)
    BY <2>2 DEF StreamInv
  <2>7. Contiguous(Ahead')
    BY <1>0, <2>1, <2>4, <2>6, AppendContiguous
  <2>8. Ordered(Ahead', horizon', sent')
    <3>1. sent \in Seq(Packet)
      BY DEF TypeOK
    <3>2. Ordered(Ahead \o build_packet(p), horizon, Append(sent, p))
      BY <1>0, <2>1, <2>5, <2>6, <3>1, AppendOrdered
    <3> QED
      BY <2>2, <2>4, <2>5, <3>2
  <2>9. (content_read_mode_'[Receiver] /\ Ahead' # << >>) => Ahead'[1][2] = 1
    <3>1. CASE Ahead = << >>
      <4>1. Len(Ahead) = 0
        BY <3>1
      <4>2. /\ get_packet_size(p) \in Nat /\ get_packet_size(p) >= 1
            /\ \A i \in Len(Ahead) + 1 .. Len(Ahead) + get_packet_size(p) :
                  Ahead'[i] = <<p, i - Len(Ahead)>>
        BY <1>0, <2>1, <2>4, Appended
      <4>3. Ahead'[1] = <<p, 1 - 0>>
        BY <4>1, <4>2
      <4> QED
        BY <4>3
    <3>2. CASE Ahead # << >>
      <4>1. Ahead'[1] = Ahead[1]
        BY <1>0, <2>1, <2>4, <3>2, Appended
      <4> QED
        BY <2>2, <3>2, <4>1 DEF StreamInv, rx_vars
    <3> QED
      BY <3>1, <3>2
  <2>10. ASSUME NEW k \in 1 .. Len(sent')
         PROVE  sent'[k].n = k
    <3>1. CASE k = Len(sent) + 1
      BY <2>1, <2>3, <3>1
    <3>2. CASE k \in 1 .. Len(sent)
      BY <2>3, <3>2 DEF StreamInv
    <3> QED
      BY <2>3, <3>1, <3>2 DEF TypeOK
  <2>11. base' <= Len(sent')
    BY <2>2, <2>3 DEF StreamInv, TypeOK
  <2>12. ASSUME NEW i \in 1 .. Len(processed')
         PROVE  \E k \in 1 .. Len(sent') : processed'[i] = build_packet(sent'[k])
    <3>1. PICK k \in 1 .. Len(sent) : processed[i] = build_packet(sent[k])
      BY <2>2 DEF StreamInv
    <3>2. k \in 1 .. Len(sent') /\ sent'[k] = sent[k]
      BY <2>3 DEF TypeOK
    <3> QED
      BY <2>2, <3>1, <3>2
  <2> QED
    BY <2>2, <2>7, <2>8, <2>9, <2>10, <2>11, <2>12 DEF StreamInv
<1>2. ASSUME NEW n \in 1 .. ReceiveMax, HandleReceive(n)
      PROVE  StreamInv'
  <2> DEFINE chunk == SubSeq(wire, 1, n)
             filled == Filled(Receiver, chunk)
             rest == SubSeq(wire, n + 1, Len(wire))
             size == packet_data_size(Receiver, chunk)
  <2>1. /\ n \in Nat /\ n <= Len(wire) /\ open /\ wire' = rest
        /\ UNCHANGED <<open, sent, base, connections>>
    BY <1>2 DEF HandleReceive
  <2>2. /\ size \in Nat /\ rest \in Seq(Byte)
        /\ Len(Ahead) = size + Len(rest)
        /\ SubSeq(filled, 1, size) \o rest = Ahead
        /\ \A i \in 1 .. Len(rest) : rest[i] = Ahead[size + i]
    BY <1>0, <2>1, BytesRead
  <2>3. Contiguous(Ahead) /\ Ordered(Ahead, horizon, sent)
    BY <2>1 DEF StreamInv
  <2>4. \/ ShortHeader(Receiver, chunk) /\ UNCHANGED processed
        \/ Refused(Receiver, chunk) /\ UNCHANGED processed
        \/ Incomplete(Receiver, chunk) /\ UNCHANGED processed
        \/ /\ Complete(Receiver, chunk)
           /\ processed' = Append(processed, PacketBytes(Receiver, chunk))
    BY <1>2 DEF HandleReceive
  <2>5. horizon' = horizon \/ processed' # processed
    BY <2>1 DEF horizon
  <2>6. ASSUME KeepChunk(Receiver, chunk)
        PROVE  Ahead' = Ahead
    BY <1>0, <2>1, <2>6, ReadAhead
  <2>7. ASSUME clear_packet_buffer(Receiver)
        PROVE  Ahead' = rest /\ ~content_read_mode_'[Receiver]
    BY <1>0, <2>1, <2>7, ReadAhead
  <2>8. Contiguous(rest)
    <3> HIDE DEF rest, size
    <3> QED
      BY <1>0, <2>2, <2>3, DropPrefix
  <2>9. /\ MarkInside'
        /\ \A k \in 1 .. Len(sent') : sent'[k].n = k
        /\ base' <= Len(sent')
        /\ open'
    BY <2>1 DEF StreamInv
  <2>10. ASSUME UNCHANGED processed
         PROVE  /\ horizon' = horizon
                /\ \A i \in 1 .. Len(processed') :
                      \E k \in 1 .. Len(sent') : processed'[i] = build_packet(sent'[k])
    BY <2>1, <2>10 DEF StreamInv, horizon
  <2>11. CASE ShortHeader(Receiver, chunk) /\ UNCHANGED processed
    <3>1. Ahead' = Ahead /\ UNCHANGED content_read_mode_
      BY <2>6, <2>11 DEF ShortHeader
    <3> QED
      BY <2>1, <2>3, <2>9, <2>10, <2>11, <3>1 DEF StreamInv
  <2>12. CASE Refused(Receiver, chunk) /\ UNCHANGED processed
    <3>1. Ahead' = rest /\ ~content_read_mode_'[Receiver]
      BY <2>7, <2>12 DEF Refused
    <3>2. Ordered(rest, horizon, sent)
      <4> HIDE DEF rest, size
      <4>1. \A i \in 1 .. Len(rest) : size + i \in 1 .. Len(Ahead)
        BY <2>2
      <4>2. \A i \in 1 .. Len(rest) : Ahead[size + i][1].n > horizon
        BY <2>3, <4>1 DEF Ordered
      <4> QED
        BY <1>0, <2>2, <2>3, <4>2, DropOrdered
    <3> QED
      BY <2>1, <2>8, <2>9, <2>10, <2>12, <3>1, <3>2 DEF StreamInv
  <2>13. CASE Incomplete(Receiver, chunk) /\ UNCHANGED processed
    <3>1. Ahead' = Ahead
      BY <2>6, <2>13 DEF Incomplete
    <3>2. Ahead # << >> /\ Ahead[1][2] = 1
      BY <2>1, <2>13, HeaderAtFront DEF Incomplete
    <3> QED
      BY <2>1, <2>3, <2>9, <2>10, <2>13, <3>1, <3>2 DEF StreamInv
  <2>14. CASE /\ Complete(Receiver, chunk)
              /\ processed' = Append(processed, PacketBytes(Receiver, chunk))
    <3>1. Ahead' = rest /\ ~content_read_mode_'[Receiver]
      BY <2>7, <2>14 DEF Complete
    <3>2. PICK k \in 1 .. Len(sent) :
             /\ horizon < k
             /\ PacketBytes(Receiver, chunk) = build_packet(sent[k])
             /\ \A i \in size + 1 .. Len(Ahead) : Ahead[i][1].n > k
      BY <2>1, <2>14, Delivery
    <3>3. \A i \in 1 .. Len(processed') :
             \E j \in 1 .. Len(sent') : processed'[i] = build_packet(sent'[j])
      BY <2>1, <2>14, <3>2 DEF StreamInv, TypeOK
    <3>4. horizon' = k
      BY <2>1, <2>14, <3>2, LastDelivered
    <3>5. Ordered(rest, k, sent)
      <4> HIDE DEF rest, size
      <4>1. \A i \in 1 .. Len(rest) : size + i \in size + 1 .. Len(Ahead)
        BY <2>2
      <4>2. \A i \in 1 .. Len(rest) : Ahead[size + i][1].n > k
        BY <3>2, <4>1
      <4> QED
        BY <1>0, <2>2, <2>3, <4>2, DropOrdered
    <3> QED
      BY <2>1, <2>8, <2>9, <3>1, <3>3, <3>4, <3>5 DEF StreamInv
  <2> QED
    BY <2>4, <2>11, <2>12, <2>13, <2>14
<1>3. CASE HandleReceiveError
  BY <1>3 DEF HandleReceiveError, StreamInv, TypeOK
<1>4. CASE Reuse
  <2>1. /\ wire = << >> /\ open' /\ packet_buffer_mark_'[Receiver] = 0
        /\ UNCHANGED <<wire, sent, processed, base>>
    BY <1>4 DEF Reuse, init, StreamInv, TypeOK
  <2>2. Ahead' = << >>
    BY <2>1, SubSeqEmpty DEF Ahead
  <2>3. Contiguous(Ahead') /\ Ordered(Ahead', horizon', sent')
    BY <2>2 DEF Contiguous, Ordered
  <2> QED
    BY <2>1, <2>2, <2>3 DEF StreamInv
<1>5. CASE UNCHANGED vars
  BY <1>5 DEF vars, rx_vars, stream_vars, StreamInv, MarkInside, Ahead, horizon
<1> QED
  BY <1>1, <1>2, <1>3, <1>4, <1>5 DEF Next

\* The inductive invariant of the receiver.
LEMMA Inductive == Spec => [](TypeOK /\ MarkInside /\ StreamInv)
<1>1. Init => StreamInv
  <2> SUFFICES ASSUME Init PROVE StreamInv
    OBVIOUS
  <2>1. packet_buffer_[Receiver] = << >> /\ packet_buffer_mark_[Receiver] = 0
    BY FramingAssumption DEF Init, RxInit
  <2>2. Ahead = << >>
    BY <2>1, SubSeqEmpty DEF Ahead, Init
  <2>3. Contiguous(Ahead) /\ Ordered(Ahead, horizon, sent)
    BY <2>2 DEF Contiguous, Ordered
  <2>4. MarkInside /\ base <= Len(sent)
    BY <2>1 DEF MarkInside, Init
  <2> QED
    BY <2>2, <2>3, <2>4 DEF StreamInv, Init
<1>2. StreamInv /\ TypeOK /\ MarkInside /\ [Next]_vars
          /\ (TypeOK /\ MarkInside)' => StreamInv'
  BY StreamStep
<1> QED
  BY <1>1, <1>2, Typed, PTL DEF Spec

\* In every reachable state the bytes ahead of the receiver are an unbroken
\* piece of the stream, and it knows when a packet begins there.
THEOREM StreamUnbroken == Spec => []StreamInv
  BY Inductive, PTL

\* The receiver implements the lossy channel: never a packet twice, out of
\* order, or from an earlier connection.
THEOREM ImplementsChannel == Spec => RefinesChannel
<1> DEFINE mapped == [k \in 1 .. Len(sent) |-> build_packet(sent[k])]
<1>1. Init => Channel!ChannelInit
  BY DEF Init, Channel!ChannelInit, horizon
<1>2. ASSUME TypeOK, StreamInv, [Next]_vars
      PROVE  [Channel!ChannelNext]_(Channel!channel_vars)
  <2>1. ASSUME NEW kind \in Kinds, Send(kind)
        PROVE  Channel!ChannelNext
    <3> DEFINE p == [id |-> kind.id, content_size |-> kind.content_size,
                     n |-> Len(sent) + 1]
    <3>1. build_packet(p) \in Messages
      <4>1. Len(sent) + 1 \in 1 .. MaxPackets
        BY <2>1, FramingAssumption DEF Send, TypeOK
      <4> QED
        BY <4>1 DEF Messages
    <3>2. sent' = Append(sent, p) /\ UNCHANGED <<processed, base>>
      BY <2>1 DEF Send
    <3> HIDE DEF p
    <3>3. mapped' = Append(mapped, build_packet(p))
      BY <3>2 DEF TypeOK
    <3>4. horizon' = horizon
      BY <3>2 DEF horizon
    <3>5. Channel!Transmit(build_packet(p))
      BY <3>2, <3>3, <3>4 DEF Channel!Transmit
    <3> QED
      BY <3>1, <3>5 DEF Channel!ChannelNext
  <2>2. ASSUME NEW n \in 1 .. ReceiveMax, HandleReceive(n)
        PROVE  [Channel!ChannelNext]_(Channel!channel_vars)
    <3>1. n \in Nat /\ n <= Len(wire) /\ open /\ UNCHANGED <<sent, base>>
      BY <2>2 DEF HandleReceive
    <3>2. CASE UNCHANGED processed
      BY <3>1, <3>2 DEF Channel!channel_vars, horizon
    <3>3. CASE /\ Complete(Receiver, SubSeq(wire, 1, n))
               /\ processed' = Append(processed, PacketBytes(Receiver, SubSeq(wire, 1, n)))
      <4>1. PICK k \in 1 .. Len(sent) :
               /\ horizon < k
               /\ PacketBytes(Receiver, SubSeq(wire, 1, n)) = build_packet(sent[k])
        BY <1>2, <3>1, <3>3, Delivery
      <4>2. horizon' = k
        BY <1>2, <3>1, <3>3, <4>1, LastDelivered
      <4>3. Len(mapped) = Len(sent) /\ mapped[k] = build_packet(sent[k])
        BY <4>1 DEF TypeOK
      <4>4. Channel!Deliver(k)
        BY <3>1, <3>3, <4>1, <4>2, <4>3 DEF Channel!Deliver
      <4> QED
        BY <4>3, <4>4 DEF Channel!ChannelNext
    <3> QED
      BY <2>2, <3>2, <3>3 DEF HandleReceive
  <2>3. CASE HandleReceiveError
    <3>1. base' = Len(sent) /\ UNCHANGED <<sent, processed>>
      BY <2>3 DEF HandleReceiveError
    <3>2. Len(mapped) = Len(sent)
      BY DEF TypeOK
    <3>3. horizon' = Len(sent)
      <4>1. CASE processed = << >>
        BY <3>1, <4>1 DEF horizon
      <4>2. CASE processed # << >>
        <5>1. Len(processed) \in 1 .. Len(processed)
          BY <4>2 DEF TypeOK
        <5>2. position(processed[Len(processed)]) \in 1 .. Len(sent)
          BY <1>2, <5>1, Positions
        <5>3. ~(position(processed[Len(processed)]) > Len(sent))
          BY <5>2
        <5> QED
          BY <3>1, <5>3 DEF horizon
      <4> QED
        BY <4>1, <4>2
    <3>4. Channel!Break
      BY <3>1, <3>2, <3>3 DEF Channel!Break
    <3> QED
      BY <3>4 DEF Channel!ChannelNext
  <2>4. CASE Reuse
    BY <2>4 DEF Reuse, Channel!channel_vars, horizon
  <2>5. CASE UNCHANGED vars
    BY <2>5 DEF vars, stream_vars, Channel!channel_vars, horizon
  <2> QED
    BY <1>2, <2>1, <2>2, <2>3, <2>4, <2>5 DEF Next
<1> QED
  BY <1>1, <1>2, Inductive, PTL DEF Spec, RefinesChannel, Channel!ChannelSpec

-------------------------------------------------------------------------------
(* What the receiver cannot lose, and when it cannot miss the limit.         *)

\* Packet k is the next one to interpret, and not all of it has been read.
InFront(k) ==
    /\ Ahead # << >>
    /\ Ahead[1] = <<sent[k], 1>>
    /\ packet_buffer_mark_[Receiver] < get_packet_size(sent[k])

\* A packet is at least its header.
LEMMA PacketFacts ==
    ASSUME NEW p \in Packet
    PROVE  /\ p.content_size \in Nat
           /\ get_packet_size(p) \in Nat
           /\ get_packet_size(p) >= HeaderSize
           /\ get_packet_size(p) >= 1
  BY HeaderSizeAssumption DEF Packet, get_packet_size

\* Nothing is ahead when all that was sent is behind the horizon.
LEMMA NothingAhead ==
    ASSUME TypeOK, StreamInv, open, horizon >= Len(sent)
    PROVE  Ahead = << >> /\ wire = << >> /\ packet_buffer_mark_[Receiver] = 0
<1>1. MarkInside /\ Ahead \in Seq(Byte)
  BY BytesAhead DEF StreamInv
<1>2. Ordered(Ahead, horizon, sent)
  BY DEF StreamInv
<1>3. \A j \in 1 .. Len(Ahead) : FALSE
  <2>1. \A j \in 1 .. Len(Ahead) : Ahead[j][1].n \in 1 .. Len(sent) /\ Ahead[j][1].n > horizon
    BY <1>2 DEF Ordered
  <2>2. horizon \in Nat /\ Len(sent) \in Nat
    BY Positions DEF TypeOK
  <2> QED
    BY <2>1, <2>2
<1>4. Ahead = << >> /\ Len(Ahead) = 0
  BY <1>1, <1>3
<1>5. /\ packet_buffer_mark_[Receiver] \in Nat /\ wire \in Seq(Byte)
      /\ Len(Ahead) = packet_buffer_mark_[Receiver] + 0 + Len(SubSeq(wire, 0 + 1, Len(wire)))
  <2>1. 0 \in Nat /\ 0 <= Len(wire)
    BY DEF TypeOK
  <2> QED
    BY <1>1, <2>1, BytesRead, FramingAssumption DEF TypeOK
<1>6. Len(SubSeq(wire, 0 + 1, Len(wire))) = Len(wire)
  BY <1>5
<1>7. Len(wire) = 0 /\ packet_buffer_mark_[Receiver] = 0
  BY <1>4, <1>5, <1>6
<1> QED
  BY <1>4, <1>5, <1>7

\* A packet that is in front has bytes that were not read.
LEMMA FrontUnread ==
    ASSUME TypeOK, StreamInv, open, NEW k \in 1 .. Len(sent), InFront(k)
    PROVE  wire # << >>
<1>1. MarkInside /\ Ahead \in Seq(Byte) /\ Contiguous(Ahead)
  BY BytesAhead DEF StreamInv
<1>2. get_packet_size(sent[k]) <= Len(Ahead)
  BY <1>1, FrontPacket DEF InFront
<1>3. /\ packet_buffer_mark_[Receiver] \in Nat /\ wire \in Seq(Byte)
      /\ Len(Ahead) = packet_buffer_mark_[Receiver] + 0 + Len(SubSeq(wire, 0 + 1, Len(wire)))
  <2>1. 0 \in Nat /\ 0 <= Len(wire)
    BY DEF TypeOK
  <2> QED
    BY <1>1, <2>1, BytesRead, FramingAssumption DEF TypeOK
<1>4. Len(SubSeq(wire, 0 + 1, Len(wire))) = Len(wire)
  BY <1>3
<1>5. get_packet_size(sent[k]) \in Nat
  <2>1. sent[k] \in Packet
    BY DEF TypeOK
  <2> QED
    BY <2>1, PacketFacts
<1>6. Len(wire) > 0
  BY <1>2, <1>3, <1>4, <1>5 DEF InFront
<1> QED
  BY <1>6

\* The packet a peer sends, and what it does to sent and to what is ahead.
LEMMA Sending ==
    ASSUME TypeOK, StreamInv, NEW kind \in Kinds, Send(kind)
    PROVE  /\ sent' = Append(sent, [id |-> kind.id, content_size |-> kind.content_size,
                                    n |-> Len(sent) + 1])
           /\ Len(sent') = Len(sent) + 1
           /\ sent'[Len(sent) + 1] \in Packet
           /\ \A k \in 1 .. Len(sent) : sent'[k] = sent[k]
           /\ Ahead' = Ahead \o build_packet(sent'[Len(sent) + 1])
           /\ UNCHANGED <<packet_buffer_mark_, content_read_mode_, open, processed, base>>
           /\ horizon' = horizon
<1> DEFINE p == [id |-> kind.id, content_size |-> kind.content_size,
                 n |-> Len(sent) + 1]
<1>1. p \in Packet
  BY FramingAssumption DEF Packet, TypeOK
<1>2. /\ wire' = wire \o build_packet(p) /\ sent' = Append(sent, p)
      /\ UNCHANGED <<rx_vars, open, processed, base>>
  BY DEF Send
<1> HIDE DEF p
<1>3. /\ Len(sent') = Len(sent) + 1 /\ sent'[Len(sent) + 1] = p
      /\ \A k \in 1 .. Len(sent) : sent'[k] = sent[k]
  BY <1>2 DEF TypeOK
<1>4. Ahead' = Ahead \o build_packet(p)
  BY <1>1, <1>2, SendAhead DEF StreamInv
<1> QED
  BY <1>1, <1>2, <1>3, <1>4 DEF p, rx_vars, horizon

\* Sending leaves the packet in front where it is.
LEMMA FrontSent ==
    ASSUME TypeOK, StreamInv, NEW kind \in Kinds, Send(kind),
           NEW k \in 1 .. Len(sent), InFront(k)
    PROVE  InFront(k)'
<1>1. Ahead \in Seq(Byte)
  BY BytesAhead DEF StreamInv
<1> DEFINE q == sent'[Len(sent) + 1]
<1>2. q \in Packet /\ Ahead' = Ahead \o build_packet(q) /\ sent'[k] = sent[k]
      /\ packet_buffer_mark_' = packet_buffer_mark_
  BY Sending
<1> HIDE DEF q
<1>3. 1 \in 1 .. Len(Ahead)
  BY <1>1 DEF InFront
<1>4. /\ Ahead' \in Seq(Byte) /\ Len(Ahead') >= Len(Ahead)
      /\ Ahead'[1] = Ahead[1]
  BY <1>1, <1>2, <1>3, Appended
<1>5. Ahead' # << >>
  BY <1>3, <1>4
<1> QED
  BY <1>2, <1>4, <1>5 DEF InFront

\* A packet sent when nothing is ahead is in front.
LEMMA FrontStarts ==
    ASSUME TypeOK, StreamInv, NEW kind \in Kinds, Send(kind),
           Ahead = << >>, packet_buffer_mark_[Receiver] = 0,
           NEW k, k = Len(sent) + 1
    PROVE  InFront(k)'
<1> DEFINE q == sent'[k]
<1>1. /\ q \in Packet /\ Ahead' = Ahead \o build_packet(q)
      /\ packet_buffer_mark_' = packet_buffer_mark_
      /\ Len(sent') = Len(sent) + 1
  BY Sending
<1> HIDE DEF q
<1>2. Ahead \in Seq(Byte) /\ Len(Ahead) = 0
  BY BytesAhead DEF StreamInv
<1>3. /\ get_packet_size(q) \in Nat /\ get_packet_size(q) >= 1
      /\ Len(Ahead') = Len(Ahead) + get_packet_size(q)
      /\ \A i \in Len(Ahead) + 1 .. Len(Ahead) + get_packet_size(q) :
            Ahead'[i] = <<q, i - Len(Ahead)>>
  BY <1>1, <1>2, Appended
<1>4. Ahead'[1] = <<q, 1 - 0>> /\ Ahead' # << >>
  BY <1>2, <1>3
<1> QED
  BY <1>1, <1>2, <1>3, <1>4 DEF InFront, q

\* The check of the length is the limit.
LEMMA ValidAllowed ==
    ASSUME NEW c \in Seq(Byte), c # << >>
    PROVE  is_header_size_valid(c[1][1]) <=> Allowed(c[1][1])
<1> DEFINE p == c[1][1]
<1>1. p.content_size \in Nat
  <2>1. c[1] \in Byte
    OBVIOUS
  <2> QED
    BY <2>1, ByteFacts
<1> HIDE DEF p
<1>2. is_header_size_valid(p) <=> Allowed(p)
  BY <1>1, MaxChatLenAssumption DEF is_header_size_valid, Allowed
<1> QED
  BY <1>2 DEF p

\* What is handed over begins with the header in front.
LEMMA DeliveredFront ==
    ASSUME TypeOK, StreamInv, open, NEW n \in Nat, n <= Len(wire),
           Complete(Receiver, SubSeq(wire, 1, n))
    PROVE  /\ header(PacketBytes(Receiver, SubSeq(wire, 1, n))) = Ahead[1][1]
           /\ PacketBytes(Receiver, SubSeq(wire, 1, n)) = build_packet(Ahead[1][1])
<1> DEFINE chunk == SubSeq(wire, 1, n)
           filled == Filled(Receiver, chunk)
           size == packet_data_size(Receiver, chunk)
           p == Ahead[1][1]
           m == get_packet_size(p)
<1>1. MarkInside /\ Ahead \in Seq(Byte)
  BY BytesAhead DEF StreamInv
<1>2. /\ Ahead # << >> /\ Ahead[1][2] = 1 /\ header(filled) = p
      /\ m <= size
  BY HeaderAtFront DEF Complete
<1>3. p \in Packet /\ m \in Nat /\ m >= 1
  <2>1. Ahead[1] \in Byte
    BY <1>1, <1>2
  <2> QED
    BY <2>1, ByteFacts, PacketFacts
<1>4. /\ size \in Nat /\ filled \in Seq(Byte) /\ Len(filled) >= size
      /\ \A i \in 1 .. size : filled[i] = Ahead[i]
  BY <1>1, BytesRead
<1>5. PacketBytes(Receiver, chunk) = SubSeq(filled, 1, m)
  BY <1>2 DEF PacketBytes
<1>6. PICK j \in 1 .. Len(sent) : PacketBytes(Receiver, chunk) = build_packet(sent[j])
  BY Delivery
<1>7. SubSeq(filled, 1, m)[1] = <<p, 1>>
  <2>1. filled[1] = Ahead[1] /\ Ahead[1] = <<p, 1>>
    <3>1. 1 \in 1 .. size
      BY <1>2, <1>3, <1>4
    <3>2. Ahead[1] \in Byte
      BY <1>1, <1>2
    <3> QED
      BY <1>2, <1>4, <3>1, <3>2, ByteFacts
  <2> HIDE DEF filled, size, m, p
  <2>2. m \in 1 .. Len(filled)
    BY <1>2, <1>3, <1>4
  <2> QED
    BY <1>4, <2>1, <2>2
<1>8. build_packet(sent[j])[1] = <<sent[j], 1>>
  <2>1. sent[j] \in Packet
    BY DEF TypeOK
  <2>2. get_packet_size(sent[j]) \in Nat /\ get_packet_size(sent[j]) >= 1
    BY <2>1, PacketFacts
  <2> QED
    BY <2>2 DEF build_packet
<1> DEFINE bytes == PacketBytes(Receiver, chunk)
<1>9. bytes = build_packet(sent[j]) /\ bytes[1] = <<p, 1>>
  BY <1>5, <1>6, <1>7
<1> HIDE DEF p, bytes
<1>10. sent[j] = p
  BY <1>8, <1>9
<1>11. header(bytes) = p /\ bytes = build_packet(p)
  BY <1>9, <1>10 DEF header
<1> QED
  BY <1>11 DEF p, bytes

\* A read keeps an allowed packet in front until all of it is there, and then
\* hands it to process_packet, however its bytes were cut.
LEMMA FrontRead ==
    ASSUME TypeOK, StreamInv, NEW n \in 1 .. ReceiveMax, HandleReceive(n),
           NEW k \in 1 .. Len(sent), InFront(k), Allowed(sent[k])
    PROVE  \/ InFront(k)' /\ UNCHANGED processed
           \/ processed' = Append(processed, build_packet(sent[k]))
<1> DEFINE chunk == SubSeq(wire, 1, n)
           filled == Filled(Receiver, chunk)
           size == packet_data_size(Receiver, chunk)
           p == sent[k]
<1>1. MarkInside /\ Ahead \in Seq(Byte) /\ Contiguous(Ahead)
  BY BytesAhead DEF StreamInv, HandleReceive
<1>2. /\ n \in Nat /\ n <= Len(wire) /\ open /\ sent' = sent
      /\ wire' = SubSeq(wire, n + 1, Len(wire))
  BY FramingAssumption DEF HandleReceive
<1>3. /\ p \in Packet /\ get_packet_size(p) \in Nat
      /\ HeaderSize \in Nat /\ HeaderSize >= 1 /\ get_packet_size(p) >= HeaderSize
  <2>1. p \in Packet
    BY DEF TypeOK
  <2> HIDE DEF p
  <2> QED
    BY <2>1, PacketFacts, HeaderSizeAssumption
<1>4. \A i \in 1 .. get_packet_size(p) : Ahead[i] = <<p, i>>
  <2>1. Ahead # << >> /\ Ahead[1][2] = 1 /\ Ahead[1][1] = p
    BY DEF InFront
  <2> QED
    BY <1>1, <2>1, FrontPacket
<1>5. size \in Nat /\ \A i \in 1 .. size : filled[i] = Ahead[i]
  BY <1>1, <1>2, BytesRead
<1>6. ASSUME KeepChunk(Receiver, chunk), size < get_packet_size(p)
      PROVE  InFront(k)'
  <2>1. Ahead' = Ahead /\ packet_buffer_mark_'[Receiver] = size
    BY <1>1, <1>2, <1>6, ReadAhead
  <2> QED
    BY <1>2, <1>6, <2>1 DEF InFront
<1>7. \/ ShortHeader(Receiver, chunk) /\ UNCHANGED processed
      \/ Refused(Receiver, chunk) /\ UNCHANGED processed
      \/ Incomplete(Receiver, chunk) /\ UNCHANGED processed
      \/ /\ Complete(Receiver, chunk)
         /\ processed' = Append(processed, PacketBytes(Receiver, chunk))
  BY DEF HandleReceive
<1>8. ASSUME size >= HeaderSize
      PROVE  header(filled) = p /\ HeaderPasses(Receiver, chunk)
  <2> HIDE DEF filled, size, p
  <2>1. \A i \in 1 .. HeaderSize : i \in 1 .. size /\ i \in 1 .. get_packet_size(p)
    BY <1>3, <1>5, <1>8
  <2>2. \A i \in 1 .. HeaderSize : filled[i] = <<p, i>>
    BY <1>4, <1>5, <2>1
  <2>3. header(filled) = p
    BY <1>3, <2>2 DEF header
  <2>4. crc_valid(filled)
    BY <2>2, <2>3 DEF crc_valid
  <2>5. is_header_size_valid(p)
    <3>1. Ahead # << >> /\ Ahead[1][1] = p /\ Allowed(p)
      BY DEF InFront, p
    <3> QED
      BY <1>1, <3>1, ValidAllowed
  <2> QED
    BY <2>3, <2>4, <2>5 DEF HeaderPasses, filled
<1>9. CASE ShortHeader(Receiver, chunk) /\ UNCHANGED processed
  <2>1. KeepChunk(Receiver, chunk) /\ size < HeaderSize
    BY <1>9 DEF ShortHeader
  <2>2. size < get_packet_size(p)
    BY <1>3, <1>5, <2>1
  <2> QED
    BY <1>6, <1>9, <2>1, <2>2
<1>10. CASE Refused(Receiver, chunk)
  BY <1>8, <1>10 DEF Refused
<1>11. CASE Incomplete(Receiver, chunk) /\ UNCHANGED processed
  <2>1. /\ KeepChunk(Receiver, chunk) /\ size >= HeaderSize
        /\ get_packet_size(header(filled)) > size
    BY <1>11 DEF Incomplete
  <2>2. size < get_packet_size(p)
    BY <1>3, <1>5, <1>8, <2>1
  <2> QED
    BY <1>6, <1>11, <2>1, <2>2
<1>12. CASE /\ Complete(Receiver, chunk)
            /\ processed' = Append(processed, PacketBytes(Receiver, chunk))
  <2>1. PacketBytes(Receiver, chunk) = build_packet(Ahead[1][1])
    BY <1>2, <1>12, DeliveredFront
  <2>2. Ahead[1][1] = p
    BY DEF InFront
  <2> QED
    BY <1>12, <2>1, <2>2
<1> QED
  BY <1>7, <1>9, <1>10, <1>11, <1>12

\* What has been processed stays processed.
LEMMA ProcessedGrows ==
    ASSUME TypeOK, TypeOK', [Next]_vars, NEW k, ProcessedAt(k)
    PROVE  ProcessedAt(k)'
<1>1. PICK i \in 1 .. Len(processed) : position(processed[i]) = k
  BY DEF ProcessedAt
<1>2. \/ UNCHANGED processed
      \/ \E bytes : processed' = Append(processed, bytes)
  BY DEF Next, Send, HandleReceive, HandleReceiveError, Reuse, vars, stream_vars
<1>3. i \in 1 .. Len(processed') /\ processed'[i] = processed[i]
  <2>1. processed \in Seq(Seq(Byte)) /\ processed' \in Seq(Seq(Byte))
    BY DEF TypeOK
  <2>2. CASE UNCHANGED processed
    BY <1>1, <2>2
  <2>3. ASSUME NEW bytes, processed' = Append(processed, bytes)
        PROVE  i \in 1 .. Len(processed') /\ processed'[i] = processed[i]
    BY <1>1, <2>1, <2>3
  <2> QED
    BY <1>2, <2>2, <2>3
<1> QED
  BY <1>1, <1>3 DEF ProcessedAt

\* A packet that was handed over counts as processed.
LEMMA HandedOver ==
    ASSUME TypeOK, StreamInv, NEW k \in 1 .. Len(sent),
           processed' = Append(processed, build_packet(sent[k]))
    PROVE  ProcessedAt(k)'
<1>1. position(build_packet(sent[k])) = k
  <2>1. sent[k] \in Packet /\ sent[k].n = k
    BY DEF TypeOK, StreamInv
  <2> QED
    BY <2>1, PositionOf
<1>2. /\ Len(processed) + 1 \in 1 .. Len(processed')
      /\ processed'[Len(processed) + 1] = build_packet(sent[k])
  BY DEF TypeOK
<1> QED
  BY <1>1, <1>2 DEF ProcessedAt

-------------------------------------------------------------------------------
(* A packet whose first byte is next.                                        *)

\* When the bytes ahead begin with a packet, not all of it is before the mark:
\* handle_receive never returns with a whole packet in the buffer.
FrontMark ==
    (open /\ Ahead # << >> /\ Ahead[1][2] = 1)
        => packet_buffer_mark_[Receiver] < get_packet_size(Ahead[1][1])

LEMMA FrontMarkStep ==
    ASSUME TypeOK, StreamInv, TypeOK', StreamInv', FrontMark, [Next]_vars
    PROVE  FrontMark'
<1>0. Ahead \in Seq(Byte) /\ MarkInside
  BY BytesAhead DEF StreamInv
<1>1. Ahead' # << >> =>
          /\ get_packet_size(Ahead'[1][1]) \in Nat
          /\ get_packet_size(Ahead'[1][1]) >= HeaderSize
          /\ get_packet_size(Ahead'[1][1]) >= 1
          /\ HeaderSize \in Nat
  <2>1. (TypeOK /\ MarkInside => Ahead \in Seq(Byte))'
    BY BytesAhead, PTL
  <2>2. Ahead' \in Seq(Byte)
    BY <2>1 DEF StreamInv
  <2> HAVE Ahead' # << >>
  <2>3. Ahead'[1] \in Byte
    BY <2>2
  <2> QED
    BY <2>3, ByteFacts, HeaderSizeAssumption
<1>2. ASSUME packet_buffer_mark_'[Receiver] = 0
      PROVE  FrontMark'
  BY <1>1, <1>2 DEF FrontMark
<1>3. ASSUME NEW kind \in Kinds, Send(kind)
      PROVE  FrontMark'
  <2> DEFINE q == sent'[Len(sent) + 1]
  <2>1. /\ q \in Packet /\ Ahead' = Ahead \o build_packet(q)
        /\ packet_buffer_mark_' = packet_buffer_mark_ /\ open' = open
    BY <1>3, Sending
  <2> HIDE DEF q
  <2>2. CASE Ahead = << >>
    <3>1. /\ packet_buffer_mark_[Receiver] \in Nat /\ wire \in Seq(Byte)
          /\ Len(Ahead) = packet_buffer_mark_[Receiver] + 0 + Len(SubSeq(wire, 0 + 1, Len(wire)))
      <4>1. 0 \in Nat /\ 0 <= Len(wire)
        BY DEF TypeOK
      <4> QED
        BY <1>0, <4>1, BytesRead, FramingAssumption DEF TypeOK
    <3>2. Len(SubSeq(wire, 0 + 1, Len(wire))) \in Nat
      BY <3>1
    <3>3. packet_buffer_mark_[Receiver] = 0
      BY <2>2, <3>1, <3>2
    <3> QED
      BY <1>2, <2>1, <3>3
  <2>3. CASE Ahead # << >>
    <3>1. 1 \in 1 .. Len(Ahead)
      BY <1>0, <2>3
    <3>2. Ahead'[1] = Ahead[1]
      BY <1>0, <2>1, <3>1, Appended
    <3> QED
      BY <2>1, <2>3, <3>2 DEF FrontMark
  <2> QED
    BY <2>2, <2>3
<1>4. ASSUME NEW n \in 1 .. ReceiveMax, HandleReceive(n)
      PROVE  FrontMark'
  <2> DEFINE chunk == SubSeq(wire, 1, n)
             size == packet_data_size(Receiver, chunk)
  <2>1. /\ n \in Nat /\ n <= Len(wire) /\ open
        /\ wire' = SubSeq(wire, n + 1, Len(wire))
    BY <1>4, FramingAssumption DEF HandleReceive
  <2>2. KeepChunk(Receiver, chunk) => Ahead' = Ahead /\ packet_buffer_mark_'[Receiver] = size
    BY <1>0, <2>1, ReadAhead
  <2>3. size \in Nat
    BY <1>0, <2>1, BytesRead
  <2>4. clear_packet_buffer(Receiver) => packet_buffer_mark_'[Receiver] = 0
    BY FramingAssumption DEF clear_packet_buffer, TypeOK
  <2>5. CASE ShortHeader(Receiver, chunk)
    <3>1. KeepChunk(Receiver, chunk) /\ size < HeaderSize
      BY <2>5 DEF ShortHeader
    <3> HIDE DEF size, chunk
    <3> QED
      BY <1>1, <2>2, <2>3, <3>1 DEF FrontMark
  <2>6. CASE Refused(Receiver, chunk)
    BY <1>2, <2>4, <2>6 DEF Refused
  <2>7. CASE Incomplete(Receiver, chunk)
    <3>1. /\ KeepChunk(Receiver, chunk) /\ size >= HeaderSize
          /\ HeaderPasses(Receiver, chunk)
          /\ get_packet_size(header(Filled(Receiver, chunk))) > size
      BY <2>7 DEF Incomplete
    <3>2. header(Filled(Receiver, chunk)) = Ahead[1][1]
      BY <2>1, <3>1, HeaderAtFront
    <3>3. get_packet_size(Ahead[1][1]) > size
      BY <3>1, <3>2
    <3> HIDE DEF size, chunk
    <3>4. Ahead' # << >> => get_packet_size(Ahead'[1][1]) > size
      BY <2>2, <3>1, <3>3
    <3> QED
      BY <1>1, <2>2, <2>3, <3>1, <3>4 DEF FrontMark
  <2>8. CASE Complete(Receiver, chunk)
    BY <1>2, <2>4, <2>8 DEF Complete
  <2> QED
    BY <1>4, <2>5, <2>6, <2>7, <2>8 DEF HandleReceive
<1>5. CASE HandleReceiveError
  BY <1>5 DEF HandleReceiveError, FrontMark
<1>6. CASE Reuse
  <2>1. packet_buffer_mark_'[Receiver] = 0
    BY <1>6, FramingAssumption DEF Reuse, init, TypeOK
  <2> QED
    BY <1>2, <2>1
<1>7. CASE UNCHANGED vars
  BY <1>7 DEF vars, rx_vars, stream_vars, FrontMark, Ahead
<1> QED
  BY <1>3, <1>4, <1>5, <1>6, <1>7 DEF Next

\* While its connection lasts, a packet of an allowed length whose first byte
\* comes next is not lost: it stays next until process_packet is given it.
THEOREM FrontIsHandedOver == Spec => FrontIsProcessed
<1>1. Init => FrontMark
  <2> SUFFICES ASSUME Init PROVE FrontMark
    OBVIOUS
  <2>1. packet_buffer_[Receiver] = << >> /\ packet_buffer_mark_[Receiver] = 0
    BY FramingAssumption DEF Init, RxInit
  <2>2. Ahead = << >>
    BY <2>1, SubSeqEmpty DEF Ahead, Init
  <2> QED
    BY <2>2 DEF FrontMark
<1>2. TypeOK /\ StreamInv /\ TypeOK' /\ StreamInv' /\ FrontMark /\ [Next]_vars => FrontMark'
  BY FrontMarkStep
<1>3. ASSUME TypeOK, StreamInv, FrontMark, [Next]_vars, NEW k \in 1 .. Len(sent),
             AtFront(k), Allowed(sent[k]), open, open'
      PROVE  AtFront(k)' \/ ProcessedAt(k)' \/ UNCHANGED vars
  <2>1. InFront(k)
    BY <1>3 DEF AtFront, InFront, FrontMark
  <2>2. ASSUME NEW kind \in Kinds, Send(kind) PROVE AtFront(k)'
    BY <1>3, <2>1, <2>2, FrontSent DEF AtFront, InFront
  <2>3. ASSUME NEW n \in 1 .. ReceiveMax, HandleReceive(n)
        PROVE  AtFront(k)' \/ ProcessedAt(k)'
    <3>1. InFront(k)' \/ processed' = Append(processed, build_packet(sent[k]))
      BY <1>3, <2>1, <2>3, FrontRead
    <3>2. InFront(k)' => AtFront(k)'
      BY DEF AtFront, InFront
    <3> QED
      BY <1>3, <3>1, <3>2, HandedOver
  <2> QED
    BY <1>3, <2>2, <2>3 DEF Next, HandleReceiveError, Reuse
<1>4. TypeOK /\ StreamInv /\ FrontMark /\ [Next]_vars =>
          [\A k \in 1 .. Len(sent) :
              (AtFront(k) /\ Allowed(sent[k]) /\ open /\ open')
                  => (AtFront(k)' \/ ProcessedAt(k)')]_vars
  BY <1>3
<1> QED
  BY <1>1, <1>2, <1>4, Inductive, PTL DEF Spec, FrontIsProcessed

-------------------------------------------------------------------------------
(* The first packet of a connection.                                         *)

\* Until it has been processed the first packet of the connection is in front.
FirstInv ==
    (open /\ base < Len(sent) /\ Allowed(sent[base + 1]) /\ ~ProcessedAt(base + 1))
        => InFront(base + 1)

LEMMA FirstStep ==
    ASSUME TypeOK, TypeOK', StreamInv, FirstInv, [Next]_vars
    PROVE  FirstInv'
<1>0. base \in Nat /\ Len(sent) \in Nat /\ base <= Len(sent)
  BY DEF TypeOK, StreamInv
<1>1. ASSUME NEW kind \in Kinds, Send(kind)
      PROVE  FirstInv'
  <2>1. /\ Len(sent') = Len(sent) + 1 /\ UNCHANGED <<open, processed, base>>
        /\ \A k \in 1 .. Len(sent) : sent'[k] = sent[k]
    BY <1>1, Sending
  <2>2. open
    BY <1>1 DEF Send
  <2>3. PICK k \in Nat : k = base + 1
    BY <1>0
  <2>4. CASE base < Len(sent)
    <3>1. k \in 1 .. Len(sent) /\ sent'[k] = sent[k]
      BY <1>0, <2>1, <2>3, <2>4
    <3>2. InFront(k) => InFront(k)'
      BY <1>1, <3>1, FrontSent
    <3>3. (Allowed(sent[k]) /\ ~ProcessedAt(k)) => InFront(k)
      BY <2>2, <2>3, <2>4 DEF FirstInv
    <3> QED
      BY <2>1, <2>3, <3>1, <3>2, <3>3 DEF FirstInv, InFront, ProcessedAt
  <2>5. CASE base = Len(sent)
    <3>1. horizon >= Len(sent)
      BY <2>5, Positions
    <3>2. Ahead = << >> /\ packet_buffer_mark_[Receiver] = 0
      BY <2>2, <3>1, NothingAhead
    <3>3. InFront(k)'
      BY <1>1, <2>3, <2>5, <3>2, FrontStarts
    <3> QED
      BY <2>1, <2>3, <3>3 DEF FirstInv, InFront
  <2> QED
    BY <1>0, <2>4, <2>5
<1>2. ASSUME NEW n \in 1 .. ReceiveMax, HandleReceive(n)
      PROVE  FirstInv'
  <2>1. sent' = sent /\ base' = base /\ open' = open
    BY <1>2 DEF HandleReceive
  <2>2. PICK k \in Nat : k = base + 1
    BY <1>0
  <2> SUFFICES ASSUME open, base < Len(sent), Allowed(sent[k]), ~ProcessedAt(k)'
               PROVE  InFront(k)'
    BY <2>1, <2>2 DEF FirstInv, InFront, ProcessedAt
  <2>3. k \in 1 .. Len(sent)
    BY <1>0, <2>2
  <2>4. ~ProcessedAt(k)
    <3>1. [Next]_vars
      BY <1>2 DEF Next
    <3> QED
      BY <3>1, ProcessedGrows
  <2>5. InFront(k)
    BY <2>2, <2>4 DEF FirstInv
  <2>6. ~(processed' = Append(processed, build_packet(sent[k])))
    BY <2>3, HandedOver
  <2> QED
    BY <1>2, <2>3, <2>5, <2>6, FrontRead
<1>3. CASE HandleReceiveError
  BY <1>3 DEF HandleReceiveError, FirstInv
<1>4. CASE Reuse
  BY <1>0, <1>4 DEF Reuse, FirstInv, StreamInv
<1>5. CASE UNCHANGED vars
  BY <1>5 DEF vars, rx_vars, stream_vars, FirstInv, InFront, ProcessedAt, Ahead
<1> QED
  BY <1>1, <1>2, <1>3, <1>4, <1>5 DEF Next

\* Whatever was refused, lost or left over on the connections before, the first
\* packet of a connection is processed once all its bytes were read.
THEOREM FirstPacketArrives == Spec => []FirstArrives
<1>1. Init => FirstInv
  BY DEF Init, FirstInv
<1>2. TypeOK /\ TypeOK' /\ StreamInv /\ FirstInv /\ [Next]_vars => FirstInv'
  BY FirstStep
<1>3. TypeOK /\ StreamInv /\ FirstInv => FirstArrives
  <2> SUFFICES ASSUME TypeOK, StreamInv, FirstInv, open, wire = << >>,
                      Len(sent) > base, Allowed(sent[base + 1]), ~ProcessedAt(base + 1)
               PROVE  FALSE
    BY DEF FirstArrives
  <2>1. InFront(base + 1) /\ base + 1 \in 1 .. Len(sent)
    BY DEF FirstInv, TypeOK
  <2> QED
    BY <2>1, FrontUnread
<1> QED
  BY <1>1, <1>2, <1>3, Inductive, PTL DEF Spec

-------------------------------------------------------------------------------
(* The limit.                                                                *)

\* In content read mode what is in front passed the limit, or it is the first
\* packet of its connection: then the mode may be left from the one before.
ModeInv ==
    (open /\ content_read_mode_[Receiver]) =>
        IF Ahead = << >> THEN Len(sent) = base
        ELSE Allowed(Ahead[1][1]) \/ Ahead[1][1].n = base + 1

LEMMA ModeStep ==
    ASSUME TypeOK, StreamInv, ModeInv, [Next]_vars
    PROVE  ModeInv'
<1>0. MarkInside /\ Ahead \in Seq(Byte)
  BY BytesAhead DEF StreamInv
<1>1. ASSUME NEW kind \in Kinds, Send(kind)
      PROVE  ModeInv'
  <2> DEFINE p == [id |-> kind.id, content_size |-> kind.content_size,
                   n |-> Len(sent) + 1]
             q == sent'[Len(sent) + 1]
  <2>1. /\ Ahead' = Ahead \o build_packet(q) /\ q \in Packet
        /\ UNCHANGED <<content_read_mode_, open, base>>
        /\ sent' = Append(sent, p)
    BY <1>1, Sending
  <2>2. open /\ sent \in Seq(Packet)
    BY <1>1 DEF Send, TypeOK
  <2>3. q.n = Len(sent) + 1
    <3>1. p \in Packet
      BY FramingAssumption DEF Packet, TypeOK
    <3>2. p.n = Len(sent) + 1
      OBVIOUS
    <3> HIDE DEF p
    <3>3. Append(sent, p)[Len(sent) + 1] = p
      BY <2>2, <3>1
    <3> QED
      BY <2>1, <3>2, <3>3
  <2> HIDE DEF p, q
  <2>4. /\ get_packet_size(q) \in Nat /\ get_packet_size(q) >= 1
        /\ Len(Ahead') = Len(Ahead) + get_packet_size(q)
        /\ \A i \in 1 .. Len(Ahead) : Ahead'[i] = Ahead[i]
        /\ \A i \in Len(Ahead) + 1 .. Len(Ahead) + get_packet_size(q) :
              Ahead'[i] = <<q, i - Len(Ahead)>>
    BY <1>0, <2>1, Appended
  <2>5. Ahead' # << >>
    BY <1>0, <2>4
  <2>6. CASE Ahead = << >>
    <3>1. Ahead'[1] = <<q, 1 - 0>>
      BY <2>4, <2>6
    <3> QED
      BY <2>1, <2>2, <2>3, <2>5, <2>6, <3>1 DEF ModeInv
  <2>7. CASE Ahead # << >>
    <3>1. Ahead'[1] = Ahead[1]
      BY <1>0, <2>4, <2>7
    <3> QED
      BY <2>1, <2>2, <2>5, <2>7, <3>1 DEF ModeInv, Allowed
  <2> QED
    BY <2>6, <2>7
<1>2. ASSUME NEW n \in 1 .. ReceiveMax, HandleReceive(n)
      PROVE  ModeInv'
  <2> DEFINE chunk == SubSeq(wire, 1, n)
  <2>1. /\ n \in Nat /\ n <= Len(wire) /\ open
        /\ wire' = SubSeq(wire, n + 1, Len(wire))
        /\ UNCHANGED <<sent, base, open>>
    BY <1>2, FramingAssumption DEF HandleReceive
  <2>2. \/ KeepChunk(Receiver, chunk) /\ UNCHANGED content_read_mode_
        \/ clear_packet_buffer(Receiver)
        \/ Incomplete(Receiver, chunk)
    BY <1>2 DEF HandleReceive, ShortHeader, Refused, Complete
  <2>3. CASE clear_packet_buffer(Receiver)
    BY <1>0, <2>1, <2>3, ReadAhead DEF ModeInv
  <2>4. CASE KeepChunk(Receiver, chunk) /\ UNCHANGED content_read_mode_
    <3>1. Ahead' = Ahead
      BY <1>0, <2>1, <2>4, ReadAhead
    <3> QED
      BY <2>1, <2>4, <3>1 DEF ModeInv
  <2>5. CASE Incomplete(Receiver, chunk)
    <3>1. Ahead' = Ahead
      BY <1>0, <2>1, <2>5, ReadAhead DEF Incomplete
    <3>2. /\ Ahead # << >>
          /\ header(Filled(Receiver, chunk)) = Ahead[1][1]
      BY <2>1, <2>5, HeaderAtFront DEF Incomplete
    <3>3. content_read_mode_[Receiver] \/ is_header_size_valid(Ahead[1][1])
      BY <2>5, <3>2 DEF Incomplete, HeaderPasses
    <3>4. is_header_size_valid(Ahead[1][1]) => Allowed(Ahead[1][1])
      BY <1>0, <3>2, ValidAllowed
    <3> QED
      BY <2>1, <3>1, <3>2, <3>3, <3>4 DEF ModeInv
  <2> QED
    BY <2>2, <2>3, <2>4, <2>5
<1>3. CASE HandleReceiveError
  BY <1>3 DEF HandleReceiveError, ModeInv
<1>4. CASE Reuse
  <2>1. /\ wire = << >> /\ packet_buffer_mark_'[Receiver] = 0 /\ base = Len(sent)
        /\ UNCHANGED <<wire, sent, base>>
    BY <1>4, FramingAssumption DEF Reuse, init, StreamInv, TypeOK
  <2>2. Ahead' = << >>
    BY <2>1, SubSeqEmpty DEF Ahead
  <2> QED
    BY <2>1, <2>2 DEF ModeInv
<1>5. CASE UNCHANGED vars
  BY <1>5 DEF vars, rx_vars, stream_vars, ModeInv, Ahead
<1> QED
  BY <1>1, <1>2, <1>3, <1>4, <1>5 DEF Next

\* The mode left by an earlier connection lets at most the first packet of a
\* connection past the limit.
THEOREM LimitAfterFirst == Spec => LimitKeptAfterFirst
<1>1. Init => ModeInv
  BY FramingAssumption DEF Init, RxInit, ModeInv
<1>2. TypeOK /\ StreamInv /\ ModeInv /\ [Next]_vars => ModeInv'
  BY ModeStep
<1> DEFINE Kept == processed' # processed =>
                      LET p == header(processed'[Len(processed')])
                      IN  Allowed(p) \/ p.n = base + 1
<1>3. TypeOK /\ TypeOK' /\ StreamInv /\ ModeInv /\ [Next]_vars => [Kept]_vars
  <2> SUFFICES ASSUME TypeOK, TypeOK', StreamInv, ModeInv, Next, processed' # processed
               PROVE  LET p == header(processed'[Len(processed')])
                      IN  Allowed(p) \/ p.n = base + 1
    OBVIOUS
  <2>1. PICK n \in 1 .. ReceiveMax : HandleReceive(n)
    BY DEF Next, Send, HandleReceiveError, Reuse
  <2> DEFINE chunk == SubSeq(wire, 1, n)
             bytes == PacketBytes(Receiver, chunk)
             p == Ahead[1][1]
  <2>2. /\ n \in Nat /\ n <= Len(wire) /\ open
        /\ Complete(Receiver, chunk) /\ processed' = Append(processed, bytes)
    BY <2>1, FramingAssumption DEF HandleReceive
  <2>3. MarkInside /\ Ahead \in Seq(Byte)
    BY BytesAhead DEF StreamInv
  <2>4. /\ packet_data_size(Receiver, chunk) >= HeaderSize
        /\ HeaderPasses(Receiver, chunk)
    BY <2>2 DEF Complete
  <2>5. Ahead # << >> /\ Ahead[1][2] = 1 /\ header(Filled(Receiver, chunk)) = p
    BY <2>2, <2>4, HeaderAtFront
  <2>6. Allowed(p) \/ p.n = base + 1
    <3>1. content_read_mode_[Receiver] \/ is_header_size_valid(p)
      BY <2>4, <2>5 DEF HeaderPasses
    <3>2. is_header_size_valid(p) => Allowed(p)
      BY <2>3, <2>5, ValidAllowed
    <3> QED
      BY <2>2, <2>5, <3>1, <3>2 DEF ModeInv
  <2>7. processed'[Len(processed')] = bytes
    <3>1. processed \in Seq(Seq(Byte)) /\ processed' \in Seq(Seq(Byte))
      BY DEF TypeOK
    <3> HIDE DEF bytes
    <3> QED
      BY <2>2, <3>1
  <2>8. header(bytes) = p
    BY <2>1, <2>2, <2>5, DeliveredFront
  <2> QED
    BY <2>6, <2>7, <2>8
<1> QED
  BY <1>1, <1>2, <1>3, Inductive, PTL DEF Spec, LimitKeptAfterFirst

-------------------------------------------------------------------------------
(* A peer that waits.                                                        *)

\* All up to the horizon was processed; at most one packet is beyond it, and
\* that one is in front.
PacedInv ==
    /\ \A k \in 1 .. Len(sent) : Allowed(sent[k])
    /\ \A k \in base + 1 .. horizon : ProcessedAt(k)
    /\ (open /\ horizon < Len(sent)) => Len(sent) = horizon + 1 /\ InFront(Len(sent))

LEMMA PacedStep ==
    ASSUME Paced, \A kind \in Kinds : Allowed(kind),
           TypeOK, TypeOK', StreamInv, StreamInv', PacedInv, [Next]_vars
    PROVE  PacedInv'
<1>0. /\ base \in Nat /\ Len(sent) \in Nat /\ horizon \in Nat
      /\ base <= horizon /\ horizon <= Len(sent)
  BY Positions DEF TypeOK
<1>1. ASSUME NEW kind \in Kinds, Send(kind)
      PROVE  PacedInv'
  <2>1. open /\ wire = << >>
    BY <1>1 DEF Send
  <2>2. horizon = Len(sent)
    <3> SUFFICES ASSUME horizon < Len(sent) PROVE FALSE
      BY <1>0
    <3>1. PICK k \in 1 .. Len(sent) : k = Len(sent)
      BY <1>0
    <3>2. InFront(k)
      BY <2>1, <3>1 DEF PacedInv
    <3> QED
      BY <2>1, <3>2, FrontUnread
  <2>3. Ahead = << >> /\ packet_buffer_mark_[Receiver] = 0
    BY <1>0, <2>1, <2>2, NothingAhead
  <2>4. /\ sent' = Append(sent, [id |-> kind.id, content_size |-> kind.content_size,
                                 n |-> Len(sent) + 1])
        /\ Len(sent') = Len(sent) + 1
        /\ \A k \in 1 .. Len(sent) : sent'[k] = sent[k]
        /\ UNCHANGED <<open, processed, base>> /\ horizon' = horizon
    BY <1>1, Sending
  <2>5. PICK k \in Nat : k = Len(sent) + 1
    BY <1>0
  <2>6. InFront(k)'
    BY <1>1, <2>3, <2>5, FrontStarts
  <2>7. Allowed(sent'[k])
    <3> DEFINE p == [id |-> kind.id, content_size |-> kind.content_size,
                     n |-> Len(sent) + 1]
    <3>1. Allowed(p)
      BY DEF Allowed
    <3>2. p \in Packet /\ sent \in Seq(Packet)
      BY FramingAssumption DEF Packet, TypeOK
    <3> HIDE DEF p
    <3>3. Append(sent, p)[Len(sent) + 1] = p
      BY <3>2
    <3> QED
      BY <2>4, <2>5, <3>1, <3>3 DEF p
  <2>8. \A j \in 1 .. Len(sent') : Allowed(sent'[j])
    <3> SUFFICES ASSUME NEW j \in 1 .. Len(sent') PROVE Allowed(sent'[j])
      OBVIOUS
    <3>1. CASE j = k
      BY <2>7, <3>1
    <3>2. CASE j # k
      <4>1. j \in 1 .. Len(sent)
        BY <1>0, <2>4, <2>5, <3>2
      <4> QED
        BY <2>4, <4>1 DEF PacedInv
    <3> QED
      BY <3>1, <3>2
  <2>9. \A j \in base' + 1 .. horizon' : ProcessedAt(j)'
    BY <2>4 DEF PacedInv, ProcessedAt
  <2>10. Len(sent') = horizon' + 1 /\ InFront(Len(sent))'
    BY <2>2, <2>4, <2>5, <2>6 DEF InFront
  <2> QED
    BY <2>8, <2>9, <2>10 DEF PacedInv
<1>2. ASSUME NEW n \in 1 .. ReceiveMax, HandleReceive(n)
      PROVE  PacedInv'
  <2>1. /\ open /\ n <= Len(wire) /\ n >= 1
        /\ UNCHANGED <<sent, base, open>> /\ [Next]_vars
    BY <1>2, FramingAssumption DEF HandleReceive, Next
  <2>2. horizon < Len(sent)
    <3> SUFFICES ASSUME horizon >= Len(sent) PROVE FALSE
      BY <1>0
    <3>1. wire = << >>
      BY <2>1, NothingAhead
    <3> QED
      BY <2>1, <3>1
  <2>3. PICK k \in 1 .. Len(sent) : k = Len(sent)
    BY <1>0, <2>2
  <2>4. InFront(k) /\ k = horizon + 1 /\ Allowed(sent[k])
    BY <2>1, <2>2, <2>3 DEF PacedInv
  <2>5. CASE InFront(k)' /\ UNCHANGED processed
    <3>1. horizon' = horizon
      BY <2>1, <2>5 DEF horizon
    <3> QED
      BY <2>1, <2>3, <2>4, <2>5, <3>1 DEF PacedInv, ProcessedAt, InFront
  <2>6. CASE processed' = Append(processed, build_packet(sent[k]))
    <3>1. horizon' = k
      BY <1>0, <2>1, <2>4, <2>6, LastDelivered
    <3>2. ProcessedAt(k)'
      BY <2>6, HandedOver
    <3>3. ASSUME NEW j \in base' + 1 .. horizon'
          PROVE  ProcessedAt(j)'
      <4>1. CASE j = k
        BY <3>2, <4>1
      <4>2. CASE j # k
        <5>1. j \in base + 1 .. horizon
          BY <1>0, <2>1, <2>4, <3>1, <4>2
        <5>2. ProcessedAt(j)
          BY <5>1 DEF PacedInv
        <5> QED
          BY <2>1, <5>2, ProcessedGrows
      <4> QED
        BY <4>1, <4>2
    <3> QED
      BY <1>0, <2>1, <2>3, <3>1, <3>3 DEF PacedInv
  <2> QED
    BY <1>2, <2>4, <2>5, <2>6, FrontRead
<1>3. CASE HandleReceiveError
  <2>1. ~open' /\ base' = Len(sent) /\ UNCHANGED <<sent, processed>>
    BY <1>3 DEF HandleReceiveError
  <2>2. horizon' = Len(sent)
    <3>1. CASE processed = << >>
      BY <2>1, <3>1 DEF horizon
    <3>2. CASE processed # << >>
      <4>1. Len(processed) \in 1 .. Len(processed)
        BY <3>2 DEF TypeOK
      <4>2. position(processed[Len(processed)]) \in 1 .. Len(sent)
        BY <4>1, Positions
      <4>3. ~(position(processed[Len(processed)]) > Len(sent))
        BY <4>2
      <4> QED
        BY <2>1, <4>3 DEF horizon
    <3> QED
      BY <3>1, <3>2
  <2>3. \A j \in base' + 1 .. horizon' : FALSE
    BY <1>0, <2>1, <2>2
  <2> QED
    BY <2>1, <2>3 DEF PacedInv
<1>4. CASE Reuse
  <2>1. base = Len(sent) /\ UNCHANGED <<sent, processed, base>>
    BY <1>4 DEF Reuse, StreamInv
  <2>2. horizon' = horizon /\ horizon = Len(sent)
    BY <1>0, <2>1 DEF horizon
  <2> QED
    BY <1>0, <2>1, <2>2 DEF PacedInv, ProcessedAt
<1>5. CASE UNCHANGED vars
  BY <1>5 DEF vars, rx_vars, stream_vars, PacedInv, InFront, ProcessedAt, Ahead, horizon
<1> QED
  BY <1>1, <1>2, <1>3, <1>4, <1>5 DEF Next

\* A receiver loses nothing it should accept if the peer writes a packet only
\* after all before it were read, and never one over the limit: what is lost
\* otherwise is lost to coalescing and to what follows a refused header.
THEOREM PacedPeerLosesNothing ==
    ASSUME Paced, \A kind \in Kinds : Allowed(kind)
    PROVE  Spec => []NothingLost
<1>1. Init => PacedInv
  BY DEF Init, PacedInv, horizon
<1>2. /\ TypeOK /\ TypeOK' /\ StreamInv /\ StreamInv' /\ PacedInv /\ [Next]_vars
      => PacedInv'
  BY PacedStep
<1>3. TypeOK /\ StreamInv /\ PacedInv => NothingLost
  <2> SUFFICES ASSUME TypeOK, StreamInv, PacedInv, open, wire = << >>,
                      NEW k \in base + 1 .. Len(sent)
               PROVE  ProcessedAt(k)
    BY DEF NothingLost
  <2>1. /\ base \in Nat /\ Len(sent) \in Nat /\ horizon \in Nat
        /\ horizon <= Len(sent)
    BY Positions DEF TypeOK
  <2>2. PICK j \in Nat : j = Len(sent)
    BY <2>1
  <2>3. horizon = Len(sent)
    <3> SUFFICES ASSUME horizon < Len(sent) PROVE FALSE
      BY <2>1
    <3>1. j \in 1 .. Len(sent) /\ InFront(j)
      BY <2>1, <2>2 DEF PacedInv
    <3> QED
      BY <3>1, FrontUnread
  <2> QED
    BY <2>1, <2>3 DEF PacedInv
<1> QED
  BY <1>1, <1>2, <1>3, Inductive, PTL DEF Spec

===============================================================================
