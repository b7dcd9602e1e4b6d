---------------------- MODULE ChatSystemProofs --------------------------------
(***************************************************************************)
(* Proofs about a client and the server together, for every number of      *)
(* sessions, connections, packets and lines, every header size and every   *)
(* limit.                                                                  *)
(***************************************************************************)
EXTENDS ChatSystem, ChatServerProofs, FunctionTheorems

-------------------------------------------------------------------------------
(* The server: every packet is processed once at most.                       *)

\* b is a byte that connection c carries, or the first byte in front of the mark
\* of the session that serves it: all the bytes a header can still be read from.
Ahead(c, b) ==
    \/ \E j \in 1 .. Len(inbound[c]) : inbound[c][j] = b
    \/ \E s \in Sessions : /\ is_open[s] /\ conn[s] = c
                           /\ packet_buffer_mark_[s] > 0
                           /\ packet_buffer_[s][1] = b

\* No header can be read any more of the packet with number n.
Spent(n) ==
    \A c \in Connections, b \in Byte : Ahead(c, b) /\ b[2] = 1 => b[1].n # n

\* Bytes ahead are of packets that were sent, each by one peer.
Numbered ==
    \A c \in Connections, b \in Byte : Ahead(c, b) => b[1].n \in 1 .. sends
OneOwner ==
    \A c, d \in Connections : \A a, b \in Byte :
        Ahead(c, a) /\ Ahead(d, b) /\ a[1].n = b[1].n => c = d

\* A packet begins after the bytes of all that were sent before it.
Rising(bytes) ==
    \A i, j \in 1 .. Len(bytes) :
        i < j /\ bytes[j][2] = 1 => bytes[i][1].n < bytes[j][1].n
InOrder ==
    /\ \A c \in Connections : Rising(inbound[c])
    /\ \A s \in Sessions : is_open[s] /\ packet_buffer_mark_[s] > 0 =>
          \A j \in 1 .. Len(inbound[conn[s]]) :
              inbound[conn[s]][j][2] = 1 =>
                  packet_buffer_[s][1][1].n < inbound[conn[s]][j][1].n

\* The mode a session is left in by a connection is never wrong for the next one:
\* where the header counts as checked the stream is at the first byte of one.
AtStart(bytes) == bytes # << >> => bytes[1][2] = 1
ModeChecked ==
    \A s \in Sessions : is_open[s] /\ content_read_mode_[s] =>
        IF packet_buffer_mark_[s] > 0
        THEN packet_buffer_[s][1][2] = 1
        ELSE AtStart(inbound[conn[s]])

\* Nothing was sent before a connection arrived, or lost before it was accepted.
Unread ==
    \A c \in Connections :
        /\ c > accepted => AtStart(inbound[c])
        /\ c > arrived => inbound[c] = << >>

WireInv == Numbered /\ OneOwner /\ InOrder /\ ModeChecked /\ Unread


\* Bytes ahead on a connection are bytes of its peer.
LEMMA AheadFrom ==
    ASSUME Inv, NamesInv, NEW c \in Connections, NEW b, Ahead(c, b)
    PROVE  b \in Byte /\ b[1].from = c
<1>0. TypeOK /\ InBounds /\ BytesOwn /\ FrontOwn
  BY DEF Inv, NamesInv
<1>1. ASSUME NEW j \in 1 .. Len(inbound[c]), inbound[c][j] = b
      PROVE  b \in Byte /\ b[1].from = c
  <2>1. inbound[c] \in Seq(Byte)
    BY <1>0 DEF TypeOK
  <2>2. inbound[c][j] \in Byte
    BY <2>1
  <2> QED
    BY <1>0, <1>1, <2>2 DEF BytesOwn
<1>2. ASSUME NEW s \in Sessions, is_open[s], conn[s] = c, packet_buffer_mark_[s] > 0,
             packet_buffer_[s][1] = b
      PROVE  b \in Byte /\ b[1].from = c
  <2>1. /\ packet_buffer_[s] \in Seq(Byte) /\ packet_buffer_mark_[s] \in Nat
        /\ packet_buffer_mark_[s] <= Len(packet_buffer_[s])
    BY <1>0 DEF TypeOK, InBounds
  <2>2. 1 \in 1 .. packet_buffer_mark_[s] /\ 1 \in 1 .. Len(packet_buffer_[s])
    BY <1>2, <2>1
  <2>3. packet_buffer_[s][1] \in Byte
    BY <2>1, <2>2
  <2> QED
    BY <1>0, <1>2, <2>2, <2>3 DEF FrontOwn
<1> QED
  BY <1>1, <1>2 DEF Ahead

\* What a step that brings no new bytes keeps.
LEMMA NothingNew ==
    ASSUME Numbered, OneOwner, sends' = sends,
           \A c \in Connections, b \in Byte : Ahead(c, b)' => Ahead(c, b)
    PROVE  /\ Numbered' /\ OneOwner'
           /\ \A n : Spent(n) => Spent(n)'
<1>1. Numbered'
  BY DEF Numbered
<1>2. OneOwner'
  BY DEF OneOwner
<1>3. \A n : Spent(n) => Spent(n)'
  BY DEF Spent
<1> QED
  BY <1>1, <1>2, <1>3

wire_vars == <<inbound, is_open, conn, packet_buffer_mark_, packet_buffer_,
               content_read_mode_, accepted, sends>>

\* Handlers that read nothing, and connections that arrive.
LEMMA ElsewhereWire ==
    ASSUME Inv, WireInv, UNCHANGED wire_vars, arrived' \in {arrived, arrived + 1}
    PROVE  /\ WireInv'
           /\ \A c \in Connections, b \in Byte : Ahead(c, b)' <=> Ahead(c, b)
<1>1. \A c \in Connections, b \in Byte : Ahead(c, b)' <=> Ahead(c, b)
  BY DEF Ahead, wire_vars
<1>2. Numbered' /\ OneOwner'
  BY <1>1, NothingNew DEF WireInv, wire_vars
<1>3. InOrder' /\ ModeChecked'
  BY DEF WireInv, InOrder, ModeChecked, Rising, AtStart, wire_vars
<1>4. arrived \in Nat /\ \A c \in Connections : c \in Nat
  BY DEF Inv, TypeOK, Connections
<1>5. Unread'
  BY <1>4 DEF WireInv, Unread, AtStart, wire_vars
<1> QED
  BY <1>1, <1>2, <1>3, <1>5 DEF WireInv

\* The packet that PeerSend(c, kind) sends.
Sent(c, kind) ==
    [id |-> kind.id, content_size |-> kind.content_size, from |-> c, n |-> sends + 1]

\* The bytes of a packet follow those that were sent before.
LEMMA SendWire ==
    ASSUME Inv, NamesInv, WireInv, NEW c \in Connections, NEW kind \in Kinds, PeerSend(c, kind)
    PROVE  /\ WireInv'
           /\ Sent(c, kind) \in InPacket
           /\ \A d \in Connections, b \in Byte :
                 Ahead(d, b)' => Ahead(d, b) \/ (d = c /\ b[1] = Sent(c, kind))
<1> DEFINE p == Sent(c, kind)
           size == get_packet_size(p)
           new == build_packet(p)
           old == inbound[c]
<1>0. TypeOK /\ InBounds
  BY DEF Inv
<1>1. p \in InPacket /\ p.n = sends + 1 /\ sends \in Nat
  <2>1. kind.id \in PacketIds /\ kind.content_size \in Nat
    BY ServerAssumption DEF PacketIds
  <2> QED
    BY <1>0, <2>1 DEF InPacket, TypeOK, Connections, Sent
<1>2. /\ inbound' = [inbound EXCEPT ![c] = old \o new]
      /\ sends' = sends + 1 /\ c <= arrived
      /\ UNCHANGED <<is_open, conn, packet_buffer_mark_, packet_buffer_,
                     content_read_mode_, accepted, arrived>>
  BY DEF PeerSend, Sent, rx_vars, socket_vars
<1>3. new \in Seq(Byte) /\ Len(new) = size /\ size \in Nat \ {0}
      /\ \A i \in 1 .. size : new[i] = <<p, i>>
  <2>1. new \in Seq(Byte)
    BY <1>1, BuildTyped
  <2>2. size \in Nat \ {0}
    BY <1>1, HeaderSizeAssumption DEF get_packet_size, InPacket
  <2>3. new = [i \in 1 .. size |-> <<p, i>>]
    BY DEF build_packet
  <2> QED
    BY <2>1, <2>2, <2>3
<1>4. old \in Seq(Byte) /\ inbound \in [Connections -> Seq(Byte)]
  BY <1>0 DEF TypeOK
<1> HIDE DEF p, size, new, old
<1>5. /\ old \o new \in Seq(Byte) /\ Len(old \o new) = Len(old) + size
      /\ Len(old) \in Nat
      /\ \A i \in 1 .. Len(old) : (old \o new)[i] = old[i]
      /\ \A i \in Len(old) + 1 .. Len(old) + size : (old \o new)[i] = <<p, i - Len(old)>>
  <2>1. /\ old \o new \in Seq(Byte) /\ Len(old \o new) = Len(old) + Len(new)
        /\ \A i \in 1 .. Len(old) + Len(new) :
              (old \o new)[i] = IF i <= Len(old) THEN old[i] ELSE new[i - Len(old)]
    BY <1>3, <1>4, ConcatProperties, Zenon
  <2>2. Len(old) \in Nat
    BY <1>4
  <2> QED
    BY <1>3, <2>1, <2>2
<1> DEFINE bytes == old \o new
<1>6. /\ inbound'[c] = bytes
      /\ \A d \in Connections : d # c => inbound'[d] = inbound[d]
  BY <1>2, <1>4
<1> HIDE DEF bytes
<1>7. /\ Len(bytes) = Len(old) + size
      /\ \A i \in 1 .. Len(old) : bytes[i] = old[i]
      /\ \A i \in Len(old) + 1 .. Len(old) + size : bytes[i] = <<p, i - Len(old)>>
  BY <1>5 DEF bytes
<1>8. ASSUME NEW d \in Connections, NEW b \in Byte, Ahead(d, b)'
      PROVE  Ahead(d, b) \/ (d = c /\ b[1] = p)
  <2>1. ASSUME NEW j \in 1 .. Len(inbound'[d]), inbound'[d][j] = b
        PROVE  (\E i \in 1 .. Len(inbound[d]) : inbound[d][i] = b) \/ (d = c /\ b[1] = p)
    <3>1. CASE d # c
      BY <1>6, <2>1, <3>1
    <3>2. CASE d = c /\ j <= Len(old)
      <4>1. j \in 1 .. Len(old) /\ old[j] = b
        BY <1>5, <1>6, <1>7, <2>1, <3>2
      <4> QED
        BY <3>2, <4>1 DEF old
    <3>3. CASE d = c /\ j > Len(old)
      <4>1. j \in Len(old) + 1 .. Len(old) + size
        BY <1>3, <1>5, <1>6, <1>7, <3>3
      <4>2. b = <<p, j - Len(old)>>
        BY <1>6, <1>7, <2>1, <3>3, <4>1
      <4> QED
        BY <3>3, <4>2
    <3> QED
      BY <1>3, <1>5, <3>1, <3>2, <3>3
  <2> QED
    BY <1>2, <1>8, <2>1 DEF Ahead
<1>9. Numbered'
  <2> SUFFICES ASSUME NEW d \in Connections, NEW b \in Byte, Ahead(d, b)'
               PROVE  b[1].n \in 1 .. sends'
    BY DEF Numbered
  <2>1. CASE Ahead(d, b)
    BY <1>1, <1>2, <2>1 DEF WireInv, Numbered
  <2>2. CASE b[1] = p
    BY <1>1, <1>2, <2>2
  <2> QED
    BY <1>8, <2>1, <2>2
<1>10. OneOwner'
  <2> SUFFICES ASSUME NEW d \in Connections, NEW e \in Connections,
                      NEW a \in Byte, NEW b \in Byte,
                      Ahead(d, a)', Ahead(e, b)', a[1].n = b[1].n
               PROVE  d = e
    BY DEF OneOwner
  <2>1. \A f \in Connections, x \in Byte : Ahead(f, x) => x[1].n # sends + 1
    <3>1. \A k \in 1 .. sends : k # sends + 1
      BY <1>1
    <3> QED
      BY <3>1 DEF WireInv, Numbered
  <2>2. /\ Ahead(d, a) \/ (d = c /\ a[1].n = sends + 1)
        /\ Ahead(e, b) \/ (e = c /\ b[1].n = sends + 1)
    BY <1>1, <1>8
  <2>3. CASE Ahead(d, a) /\ Ahead(e, b)
    BY <2>3 DEF WireInv, OneOwner
  <2>4. a[1].n = sends + 1 => ~Ahead(d, a) /\ ~Ahead(e, b)
    BY <2>1
  <2> QED
    BY <2>2, <2>3, <2>4
<1>11. \A j \in 1 .. Len(old) : Ahead(c, old[j]) /\ old[j] \in Byte
  BY <1>4 DEF Ahead, old
<1>12. \A j \in 1 .. Len(old) : old[j][1].n <= sends
  BY <1>1, <1>11 DEF WireInv, Numbered
<1>13. Rising(bytes)
  <2> SUFFICES ASSUME NEW i \in 1 .. Len(bytes), NEW j \in 1 .. Len(bytes), i < j,
                      bytes[j][2] = 1
               PROVE  bytes[i][1].n < bytes[j][1].n
    BY DEF Rising
  <2>1. CASE j <= Len(old)
    <3>1. i \in 1 .. Len(old) /\ j \in 1 .. Len(old)
      BY <1>3, <1>5, <1>7, <2>1
    <3>2. old[i][1].n < old[j][1].n
      BY <1>7, <3>1 DEF WireInv, InOrder, Rising, old
    <3> QED
      BY <1>7, <3>1, <3>2
  <2>2. CASE j > Len(old)
    <3>1. j \in Len(old) + 1 .. Len(old) + size
      BY <1>3, <1>5, <1>7, <2>2
    <3>2. bytes[j] = <<p, j - Len(old)>>
      BY <1>7, <3>1
    <3>3. j = Len(old) + 1
      BY <1>5, <3>1, <3>2
    <3>4. i \in 1 .. Len(old)
      BY <1>5, <3>3
    <3>5. bytes[i][1].n <= sends /\ bytes[i][1].n \in Nat
      BY <1>7, <1>11, <1>12, <3>4 DEF Byte, InPacket
    <3> QED
      BY <1>1, <3>2, <3>5
  <2> QED
    BY <1>5, <2>1, <2>2
<1>14. InOrder'
  <2>1. \A d \in Connections : Rising(inbound'[d])
    BY <1>6, <1>13 DEF WireInv, InOrder
  <2>2. ASSUME NEW s \in Sessions, is_open[s], packet_buffer_mark_[s] > 0,
               NEW j \in 1 .. Len(inbound'[conn[s]]), inbound'[conn[s]][j][2] = 1
        PROVE  packet_buffer_[s][1][1].n < inbound'[conn[s]][j][1].n
    <3>1. conn[s] \in Connections
      BY <1>0, <2>2, OpenServes
    <3>2. CASE conn[s] # c
      BY <1>6, <2>2, <3>1, <3>2 DEF WireInv, InOrder
    <3>3. CASE conn[s] = c /\ j <= Len(old)
      <4>1. j \in 1 .. Len(old) /\ inbound'[c][j] = old[j]
        BY <1>3, <1>5, <1>6, <1>7, <2>2, <3>3
      <4> QED
        BY <2>2, <3>3, <4>1 DEF WireInv, InOrder, old
    <3>4. CASE conn[s] = c /\ j > Len(old)
      <4>1. j \in Len(old) + 1 .. Len(old) + size
        BY <1>3, <1>5, <1>6, <1>7, <2>2, <3>4
      <4>2. inbound'[c][j] = <<p, j - Len(old)>>
        BY <1>6, <1>7, <4>1
      <4>3. Ahead(c, packet_buffer_[s][1])
        BY <2>2, <3>4 DEF Ahead
      <4>4. packet_buffer_[s][1][1].n \in 1 .. sends
        BY <4>3, AheadFrom DEF WireInv, Numbered
      <4> QED
        BY <1>1, <3>4, <4>2, <4>4
    <3> QED
      BY <1>3, <1>5, <1>6, <1>7, <3>2, <3>3, <3>4
  <2> QED
    BY <1>2, <2>1, <2>2 DEF InOrder
<1>15. ASSUME AtStart(old) PROVE AtStart(bytes)
  <2>1. CASE old = << >>
    <3>1. Len(old) = 0
      BY <2>1
    <3>2. bytes[1] = <<p, 1>>
      BY <1>3, <1>7, <3>1
    <3> QED
      BY <3>2 DEF AtStart
  <2>2. CASE old # << >>
    <3>1. 1 \in 1 .. Len(old)
      BY <1>4, <2>2
    <3> QED
      BY <1>7, <1>15, <2>2, <3>1 DEF AtStart
  <2> QED
    BY <2>1, <2>2
<1>16. \A d \in Connections : AtStart(inbound[d]) => AtStart(inbound'[d])
  BY <1>6, <1>15 DEF old
<1>17. ModeChecked'
  <2>1. \A s \in Sessions : is_open[s] => conn[s] \in Connections
    BY <1>0, OpenServes
  <2> QED
    BY <1>2, <1>16, <2>1 DEF WireInv, ModeChecked
<1>18. Unread'
  <2>1. c \in Nat /\ arrived \in Nat
    BY <1>0 DEF TypeOK, Connections
  <2>2. \A d \in Connections : d > arrived => d # c
    BY <1>2, <2>1
  <2> QED
    BY <1>2, <1>6, <1>16, <2>2 DEF WireInv, Unread
<1> QED
  BY <1>1, <1>8, <1>9, <1>10, <1>14, <1>17, <1>18 DEF WireInv, p

\* A session that is accepted has nothing in front of its mark.
LEMMA AcceptWire ==
    ASSUME Inv, NamesInv, WireInv, NEW s \in Sessions, HandleAccept(s)
    PROVE  /\ WireInv'
           /\ \A d \in Connections, b \in Byte : Ahead(d, b)' => Ahead(d, b)
<1>0. TypeOK /\ InBounds /\ OnePlace
  BY DEF Inv, PoolInv
<1>1. /\ accepted' = accepted + 1 /\ accepted < arrived
      /\ conn' = [conn EXCEPT ![s] = accepted + 1]
      /\ is_open' = [is_open EXCEPT ![s] = TRUE]
      /\ packet_buffer_mark_' = [packet_buffer_mark_ EXCEPT ![s] = 0]
      /\ UNCHANGED <<packet_buffer_, content_read_mode_, inbound, arrived, sends>>
  BY DEF HandleAccept, init, peer_vars
<1>2. /\ accepted \in Nat /\ arrived \in Nat /\ arrived <= MaxConnections
      /\ conn'[s] = accepted + 1 /\ packet_buffer_mark_'[s] = 0
      /\ \A t \in Sessions : t # s =>
            /\ is_open'[t] = is_open[t] /\ conn'[t] = conn[t]
            /\ packet_buffer_mark_'[t] = packet_buffer_mark_[t]
  BY <1>0, <1>1 DEF TypeOK, InBounds
<1>3. \A t \in Sessions : packet_buffer_mark_'[t] > 0 => t # s
  BY <1>2
<1>4. ASSUME NEW d \in Connections, NEW b \in Byte, Ahead(d, b)' PROVE Ahead(d, b)
  BY <1>1, <1>2, <1>3, <1>4 DEF Ahead
<1>5. Numbered' /\ OneOwner'
  BY <1>1, <1>4, NothingNew DEF WireInv
<1>6. InOrder'
  BY <1>1, <1>2, <1>3 DEF WireInv, InOrder
<1>7. accepted + 1 \in Connections /\ accepted + 1 > accepted
  BY <1>1, <1>2, ServerAssumption DEF Connections
<1>8. ModeChecked'
  <2> SUFFICES ASSUME NEW t \in Sessions, is_open'[t], content_read_mode_[t]
               PROVE  IF packet_buffer_mark_'[t] > 0
                      THEN packet_buffer_[t][1][2] = 1
                      ELSE AtStart(inbound[conn'[t]])
    BY <1>1 DEF ModeChecked, AtStart
  <2>1. CASE t = s
    <3>1. AtStart(inbound[accepted + 1])
      BY <1>7 DEF WireInv, Unread
    <3> QED
      BY <1>2, <2>1, <3>1
  <2>2. CASE t # s
    BY <1>2, <2>2 DEF WireInv, ModeChecked
  <2> QED
    BY <2>1, <2>2
<1>9. Unread'
  <2>1. \A c \in Connections : c > accepted + 1 => c > accepted
    BY <1>2 DEF Connections
  <2> QED
    BY <1>1, <2>1 DEF WireInv, Unread, AtStart
<1> QED
  BY <1>4, <1>5, <1>6, <1>8, <1>9 DEF WireInv

\* So has one that is closed, whose connection is gone.
LEMMA ReleaseWire ==
    ASSUME Inv, NamesInv, WireInv, NEW s \in Sessions, HandleReceiveError(s)
    PROVE  /\ WireInv'
           /\ \A d \in Connections, b \in Byte : Ahead(d, b)' => Ahead(d, b)
<1>0. TypeOK /\ InBounds /\ OneReader
  BY DEF Inv
<1>1. /\ is_open' = [is_open EXCEPT ![s] = FALSE]
      /\ inbound' = [inbound EXCEPT ![conn[s]] = << >>]
      /\ UNCHANGED <<packet_buffer_mark_, packet_buffer_, content_read_mode_, conn,
                     accepted, arrived, sends>>
  BY DEF HandleReceiveError, close_session, rx_vars
<1>2. is_open[s] /\ conn[s] \in Connections
  <2>1. is_open[s]
    BY <1>0 DEF HandleReceiveError, OneReader
  <2> QED
    BY <1>0, <2>1, OpenServes
<1>3. /\ ~is_open'[s] /\ \A t \in Sessions : t # s => is_open'[t] = is_open[t]
      /\ inbound'[conn[s]] = << >>
      /\ \A c \in Connections : c # conn[s] => inbound'[c] = inbound[c]
  BY <1>0, <1>1, <1>2 DEF TypeOK
<1>4. \A t \in Sessions : is_open'[t] =>
         is_open[t] /\ conn[t] \in Connections /\ conn[t] # conn[s]
  <2> SUFFICES ASSUME NEW t \in Sessions, is_open'[t]
               PROVE  is_open[t] /\ conn[t] \in Connections /\ conn[t] # conn[s]
    OBVIOUS
  <2>1. t # s /\ is_open[t]
    BY <1>3
  <2> QED
    BY <1>0, <1>2, <2>1, OpenServes DEF NamesInv, ServesAlone
<1>5. Len(inbound'[conn[s]]) = 0
  BY <1>3
<1>6. ASSUME NEW d \in Connections, NEW b \in Byte, Ahead(d, b)' PROVE Ahead(d, b)
  <2>1. ASSUME NEW j \in 1 .. Len(inbound'[d]), inbound'[d][j] = b PROVE Ahead(d, b)
    <3>1. d # conn[s]
      BY <1>5, <2>1
    <3> QED
      BY <1>3, <2>1, <3>1 DEF Ahead
  <2>2. ASSUME NEW t \in Sessions, is_open'[t], conn[t] = d, packet_buffer_mark_[t] > 0,
               packet_buffer_[t][1] = b
        PROVE  Ahead(d, b)
    BY <1>4, <2>2 DEF Ahead
  <2> QED
    BY <1>1, <1>6, <2>1, <2>2 DEF Ahead
<1>7. Numbered' /\ OneOwner'
  BY <1>1, <1>6, NothingNew DEF WireInv
<1>8. Rising(inbound'[conn[s]]) /\ AtStart(inbound'[conn[s]])
  BY <1>3, <1>5 DEF Rising, AtStart
<1>9. InOrder'
  <2>1. \A d \in Connections : Rising(inbound'[d])
    BY <1>3, <1>8 DEF WireInv, InOrder
  <2>2. \A t \in Sessions : is_open'[t] => inbound'[conn[t]] = inbound[conn[t]]
    BY <1>3, <1>4
  <2> QED
    BY <1>1, <1>4, <2>1, <2>2 DEF WireInv, InOrder
<1>10. ModeChecked'
  BY <1>1, <1>3, <1>4 DEF WireInv, ModeChecked, AtStart
<1>11. Unread'
  BY <1>1, <1>3, <1>8 DEF WireInv, Unread
<1> QED
  BY <1>6, <1>7, <1>9, <1>10, <1>11 DEF WireInv

\* The byte a header is read at: the first in front of the mark, or the first
\* that is read.
FirstByte(s) ==
    IF packet_buffer_mark_[s] > 0 THEN packet_buffer_[s][1] ELSE inbound[conn[s]][1]

\* What a receive reads, leaves, and finds at the front.
LEMMA ReceiveBytes ==
    ASSUME Inv, NamesInv, NEW s \in Sessions, NEW n \in 1 .. HeaderSize, HandleReceive(s, n)
    PROVE  LET c == conn[s]
               chunk == SubSeq(inbound[c], 1, n)
               rest == SubSeq(inbound[c], n + 1, Len(inbound[c]))
           IN  /\ is_open[s] /\ c \in Connections
               /\ inbound' = [inbound EXCEPT ![c] = rest]
               /\ Len(inbound[c]) \in Nat /\ n <= Len(inbound[c])
               /\ Len(rest) = Len(inbound[c]) - n
               /\ \A i \in 1 .. Len(rest) : rest[i] = inbound[c][n + i]
               /\ FirstByte(s) \in Byte /\ Ahead(c, FirstByte(s))
               /\ Filled(s, chunk)[1] = FirstByte(s)
               /\ packet_data_size(s, chunk) \in Nat \ {0}
               /\ packet_data_size(s, chunk) <= Len(Filled(s, chunk))
               /\ Filled(s, chunk) \in Seq(Byte)
               /\ chunk \in Seq(Byte)
<1> DEFINE c == conn[s]
           old == inbound[c]
           chunk == SubSeq(old, 1, n)
           rest == SubSeq(old, n + 1, Len(old))
           mark == packet_buffer_mark_[s]
<1>0. TypeOK /\ InBounds /\ OneReader
  BY DEF Inv
<1>1. /\ reads[s] > 0 /\ n <= Len(old) /\ inbound' = [inbound EXCEPT ![c] = rest]
  BY DEF HandleReceive
<1>2. is_open[s] /\ c \in Connections
  <2>1. is_open[s]
    BY <1>0, <1>1 DEF OneReader
  <2> QED
    BY <1>0, <2>1, OpenServes
<1>3. old \in Seq(Byte)
  BY <1>0, <1>2 DEF TypeOK
<1>4. n \in 1 .. Len(old) /\ Len(old) \in Nat /\ n \in Nat \ {0}
  BY <1>1, <1>3, HeaderSizeAssumption
<1>5. /\ packet_buffer_[s] \in Seq(Byte) /\ mark \in 0 .. Len(packet_buffer_[s])
      /\ mark \in Nat
  BY <1>0 DEF TypeOK, InBounds
<1> HIDE DEF old, mark
<1>6. /\ chunk \in Seq(Byte) /\ Len(chunk) = n /\ chunk[1] = old[1]
      /\ Len(rest) = Len(old) - n
      /\ \A i \in 1 .. Len(old) - n : rest[i] = old[n + i]
  BY <1>3, <1>4
<1> HIDE DEF chunk, rest
<1>7. /\ packet_data_size(s, chunk) = mark + n
      /\ \A i \in 1 .. mark + n :
            Filled(s, chunk)[i] = IF i <= mark THEN packet_buffer_[s][i] ELSE chunk[i - mark]
  BY <1>5, <1>6, FilledBytes DEF mark
<1>8. /\ Filled(s, chunk) \in Seq(Byte)
      /\ packet_data_size(s, chunk) <= Len(Filled(s, chunk))
  BY <1>5, <1>6, FilledTyped DEF mark
<1>9. mark + n \in Nat \ {0} /\ 1 \in 1 .. mark + n
  BY <1>4, <1>5
<1>10. Filled(s, chunk)[1] = FirstByte(s)
  <2>1. CASE mark > 0
    <3>1. 1 <= mark
      BY <1>5, <2>1
    <3>2. Filled(s, chunk)[1] = packet_buffer_[s][1]
      BY <1>7, <1>9, <3>1
    <3> QED
      BY <2>1, <3>2 DEF FirstByte, mark
  <2>2. CASE ~(mark > 0)
    <3>1. mark = 0
      BY <1>5, <2>2
    <3>2. Filled(s, chunk)[1] = chunk[1]
      BY <1>7, <1>9, <3>1
    <3> QED
      BY <1>6, <2>2, <3>2 DEF FirstByte, mark, old, c
  <2> QED
    BY <2>1, <2>2
<1>11. Ahead(c, FirstByte(s))
  <2>1. CASE mark > 0
    BY <1>2, <2>1 DEF Ahead, FirstByte, mark
  <2>2. CASE ~(mark > 0)
    <3>1. 1 \in 1 .. Len(old)
      BY <1>4
    <3> QED
      BY <2>2, <3>1 DEF Ahead, FirstByte, mark, old
  <2> QED
    BY <2>1, <2>2
<1>12. FirstByte(s) \in Byte
  BY <1>2, <1>11, AheadFrom
<1> QED
  BY <1>1, <1>2, <1>4, <1>6, <1>7, <1>8, <1>9, <1>10, <1>11, <1>12 DEF chunk, rest, old, mark

\* A header that counts as checked is one: it is read from its first byte.
LEMMA HeaderWhole ==
    ASSUME Inv, NamesInv, WireInv, NEW s \in Sessions, NEW n \in 1 .. HeaderSize,
           HandleReceive(s, n),
           HeaderPasses(s, SubSeq(inbound[conn[s]], 1, n))
    PROVE  FirstByte(s)[2] = 1
<1> DEFINE c == conn[s]
           chunk == SubSeq(inbound[c], 1, n)
<1>1. /\ is_open[s] /\ Filled(s, chunk)[1] = FirstByte(s)
      /\ Len(inbound[c]) \in Nat /\ n <= Len(inbound[c])
  BY ReceiveBytes
<1> HIDE DEF chunk
<1>2. CASE content_read_mode_[s]
  <2>1. inbound[c] # << >>
    BY <1>1, HeaderSizeAssumption
  <2> QED
    BY <1>1, <1>2, <2>1 DEF WireInv, ModeChecked, AtStart, FirstByte
<1>3. CASE crc_valid(Filled(s, chunk))
  <2>1. Filled(s, chunk)[1] = <<header(Filled(s, chunk)), 1>>
    BY <1>3, HeaderSizeAssumption DEF crc_valid
  <2> QED
    BY <1>1, <2>1
<1> QED
  BY <1>2, <1>3 DEF HeaderPasses, chunk

\* A receive moves the first byte, or takes it away with all in front.
LEMMA ReceiveWire ==
    ASSUME Inv, NamesInv, WireInv, NEW s \in Sessions, NEW n \in 1 .. HeaderSize,
           HandleReceive(s, n)
    PROVE  /\ WireInv'
           /\ \A d \in Connections, b \in Byte : Ahead(d, b)' => Ahead(d, b)
<1> DEFINE c == conn[s]
           old == inbound[c]
           chunk == SubSeq(inbound[c], 1, n)
           rest == SubSeq(inbound[c], n + 1, Len(inbound[c]))
           first == FirstByte(s)
<1>0. TypeOK /\ InBounds /\ NamesInv
  BY DEF Inv
<1>1. /\ is_open[s] /\ c \in Connections
      /\ inbound' = [inbound EXCEPT ![c] = rest]
      /\ Len(old) \in Nat /\ n <= Len(old)
      /\ Len(rest) = Len(old) - n
      /\ \A i \in 1 .. Len(rest) : rest[i] = old[n + i]
      /\ first \in Byte /\ Ahead(c, first)
      /\ Filled(s, chunk)[1] = first
      /\ packet_data_size(s, chunk) \in Nat \ {0}
  BY ReceiveBytes
<1>2. /\ UNCHANGED <<is_open, conn, accepted, arrived, sends>>
      /\ \/ /\ KeepChunk(s, chunk)
            /\ \/ content_read_mode_' = content_read_mode_
               \/ /\ HeaderPasses(s, chunk)
                  /\ content_read_mode_' = [content_read_mode_ EXCEPT ![s] = TRUE]
         \/ clear_packet_buffer(s)
  BY DEF HandleReceive, ShortHeader, Refused, Incomplete, Complete, socket_vars
<1>3. HeaderPasses(s, chunk) => first[2] = 1
  BY HeaderWhole
<1> HIDE DEF chunk, first, rest
<1>4. inbound'[c] = rest /\ \A d \in Connections : d # c => inbound'[d] = inbound[d]
  BY <1>0, <1>1 DEF TypeOK
<1>5. \A t \in Sessions : is_open[t] /\ t # s => conn[t] \in Connections /\ conn[t] # c
  <2> SUFFICES ASSUME NEW t \in Sessions, is_open[t], t # s
               PROVE  conn[t] \in Connections /\ conn[t] # c
    OBVIOUS
  <2> QED
    BY <1>0, <1>1, OpenServes DEF NamesInv, ServesAlone
\* What is in front of the marks after the step.
<1>6. \A t \in Sessions : t # s =>
         /\ packet_buffer_mark_'[t] = packet_buffer_mark_[t]
         /\ packet_buffer_'[t] = packet_buffer_[t]
         /\ content_read_mode_'[t] = content_read_mode_[t]
  BY <1>0, <1>2 DEF TypeOK, KeepChunk, clear_packet_buffer
<1>7. packet_buffer_mark_'[s] > 0 => packet_buffer_'[s][1] = first
  <2>1. CASE KeepChunk(s, chunk)
    <3>1. packet_buffer_'[s] = Filled(s, chunk)
      BY <1>0, <2>1 DEF TypeOK, KeepChunk
    <3> QED
      BY <1>1, <3>1
  <2>2. CASE clear_packet_buffer(s)
    <3>1. packet_buffer_mark_'[s] = 0
      BY <1>0, <2>2 DEF TypeOK, clear_packet_buffer
    <3> QED
      BY <3>1
  <2> QED
    BY <1>2, <2>1, <2>2
<1>8. content_read_mode_'[s] => packet_buffer_mark_'[s] > 0 /\ first[2] = 1
  <2>1. CASE clear_packet_buffer(s)
    BY <1>0, <2>1 DEF TypeOK, clear_packet_buffer
  <2>2. CASE /\ KeepChunk(s, chunk)
             /\ \/ content_read_mode_' = content_read_mode_
                \/ /\ HeaderPasses(s, chunk)
                   /\ content_read_mode_' = [content_read_mode_ EXCEPT ![s] = TRUE]
    <3>1. packet_buffer_mark_'[s] = packet_data_size(s, chunk)
      BY <1>0, <2>2 DEF TypeOK, KeepChunk
    <3>2. packet_buffer_mark_'[s] > 0
      BY <1>1, <3>1
    <3>3. content_read_mode_[s] => HeaderPasses(s, chunk)
      BY DEF HeaderPasses
    <3> QED
      BY <1>3, <2>2, <3>2, <3>3
  <2> QED
    BY <1>2, <2>1, <2>2
<1>9. \A i \in 1 .. Len(rest) : n + i \in 1 .. Len(old) /\ rest[i] = old[n + i]
  <2> SUFFICES ASSUME NEW i \in 1 .. Len(rest) PROVE n + i \in 1 .. Len(old)
    BY <1>1
  <2> HIDE DEF old
  <2> QED
    BY <1>1
<1>10. ASSUME NEW d \in Connections, NEW b \in Byte, Ahead(d, b)' PROVE Ahead(d, b)
  <2>1. ASSUME NEW j \in 1 .. Len(inbound'[d]), inbound'[d][j] = b PROVE Ahead(d, b)
    <3>1. CASE d = c
      <4>1. j \in 1 .. Len(rest) /\ rest[j] = b
        BY <1>4, <2>1, <3>1
      <4>2. n + j \in 1 .. Len(old) /\ old[n + j] = b
        BY <1>9, <4>1
      <4> QED
        BY <3>1, <4>2 DEF Ahead
    <3>2. CASE d # c
      BY <1>4, <2>1, <3>2 DEF Ahead
    <3> QED
      BY <3>1, <3>2
  <2>2. ASSUME NEW t \in Sessions, is_open[t], conn[t] = d, packet_buffer_mark_'[t] > 0,
               packet_buffer_'[t][1] = b
        PROVE  Ahead(d, b)
    <3>1. CASE t = s
      BY <1>1, <1>7, <2>2, <3>1
    <3>2. CASE t # s
      BY <1>6, <2>2, <3>2 DEF Ahead
    <3> QED
      BY <3>1, <3>2
  <2> QED
    BY <1>2, <1>10, <2>1, <2>2 DEF Ahead
<1>11. Numbered' /\ OneOwner'
  BY <1>2, <1>10, NothingNew DEF WireInv
<1>12. \A j \in 1 .. Len(rest) : rest[j][2] = 1 => first[1].n < rest[j][1].n
  <2> SUFFICES ASSUME NEW j \in 1 .. Len(rest), rest[j][2] = 1
               PROVE  first[1].n < rest[j][1].n
    OBVIOUS
  <2>1. n + j \in 1 .. Len(old) /\ rest[j] = old[n + j]
    BY <1>9
  <2>2. CASE packet_buffer_mark_[s] > 0
    BY <1>1, <2>1, <2>2 DEF WireInv, InOrder, first, FirstByte
  <2>3. CASE ~(packet_buffer_mark_[s] > 0)
    <3>1. first = old[1] /\ 1 \in 1 .. Len(old) /\ 1 < n + j
      BY <1>1, <2>1, <2>3 DEF first, FirstByte
    <3>2. Rising(old)
      BY <1>1 DEF WireInv, InOrder
    <3> HIDE DEF old
    <3> QED
      BY <2>1, <3>1, <3>2 DEF Rising
  <2> QED
    BY <2>2, <2>3
<1>13. Rising(rest)
  <2> SUFFICES ASSUME NEW i \in 1 .. Len(rest), NEW j \in 1 .. Len(rest), i < j,
                      rest[j][2] = 1
               PROVE  rest[i][1].n < rest[j][1].n
    BY DEF Rising
  <2>1. /\ n + i \in 1 .. Len(old) /\ rest[i] = old[n + i]
        /\ n + j \in 1 .. Len(old) /\ rest[j] = old[n + j] /\ n + i < n + j
    BY <1>9
  <2>2. Rising(old)
    BY <1>1 DEF WireInv, InOrder
  <2> HIDE DEF old
  <2> QED
    BY <2>1, <2>2 DEF Rising
<1>14. InOrder'
  <2>1. \A d \in Connections : Rising(inbound'[d])
    BY <1>4, <1>13 DEF WireInv, InOrder
  <2>2. ASSUME NEW t \in Sessions, is_open[t], packet_buffer_mark_'[t] > 0,
               NEW j \in 1 .. Len(inbound'[conn[t]]), inbound'[conn[t]][j][2] = 1
        PROVE  packet_buffer_'[t][1][1].n < inbound'[conn[t]][j][1].n
    <3>1. CASE t = s
      BY <1>4, <1>7, <1>12, <2>2, <3>1
    <3>2. CASE t # s
      <4>1. inbound'[conn[t]] = inbound[conn[t]]
        BY <1>4, <1>5, <2>2, <3>2
      <4> QED
        BY <1>6, <2>2, <3>2, <4>1 DEF WireInv, InOrder
    <3> QED
      BY <3>1, <3>2
  <2> QED
    BY <1>2, <2>1, <2>2 DEF InOrder
<1>15. ModeChecked'
  <2> SUFFICES ASSUME NEW t \in Sessions, is_open[t], content_read_mode_'[t]
               PROVE  IF packet_buffer_mark_'[t] > 0
                      THEN packet_buffer_'[t][1][2] = 1
                      ELSE AtStart(inbound'[conn[t]])
    BY <1>2 DEF ModeChecked, AtStart
  <2>1. CASE t = s
    BY <1>7, <1>8, <2>1
  <2>2. CASE t # s
    <3>1. inbound'[conn[t]] = inbound[conn[t]]
      BY <1>4, <1>5, <2>2
    <3> QED
      BY <1>6, <2>2, <3>1 DEF WireInv, ModeChecked
  <2> QED
    BY <2>1, <2>2
<1>16. Unread'
  <2>1. c <= accepted /\ c <= arrived /\ accepted \in Nat /\ arrived \in Nat /\ c \in Nat
    BY <1>0, <1>1 DEF TypeOK, InBounds, Connections
  <2>2. \A d \in Connections : d > accepted \/ d > arrived => d # c
    BY <2>1 DEF Connections
  <2> QED
    BY <1>2, <1>4, <2>2 DEF WireInv, Unread, AtStart
<1> QED
  BY <1>10, <1>11, <1>14, <1>15, <1>16 DEF WireInv

\* Every step keeps WireInv, and brings no bytes but those a peer sends.
LEMMA WireStep ==
    ASSUME Inv, NamesInv, WireInv, [Next]_vars
    PROVE  /\ WireInv'
           /\ \/ /\ sends' = sends
                 /\ \A d \in Connections, b \in Byte : Ahead(d, b)' => Ahead(d, b)
              \/ \E c \in Connections, kind \in Kinds : PeerSend(c, kind)
<1>1. CASE Connect
  <2>1. UNCHANGED wire_vars /\ arrived' = arrived + 1
    BY <1>1 DEF Connect, wire_vars, rx_vars, socket_vars
  <2> QED
    BY <2>1, ElsewhereWire DEF wire_vars
<1>2. CASE \E c \in Connections, kind \in Kinds : PeerSend(c, kind)
  BY <1>2, SendWire
<1>3. CASE \/ \E c \in Connections : PeerClose(c)
           \/ \E s \in Sessions : HandleAcceptError(s) \/ HandleWrite(s)
           \/ RunReturns
           \/ UNCHANGED vars
  <2>1. UNCHANGED wire_vars /\ arrived' = arrived
    BY <1>3 DEF PeerClose, HandleAcceptError, HandleWrite, RunReturns, vars, wire_vars,
                rx_vars, socket_vars, peer_vars
  <2> QED
    BY <2>1, ElsewhereWire DEF wire_vars
<1>4. ASSUME NEW s \in Sessions, HandleAccept(s) \/ HandleReceiveError(s)
      PROVE  /\ WireInv' /\ sends' = sends
             /\ \A d \in Connections, b \in Byte : Ahead(d, b)' => Ahead(d, b)
  <2>1. sends' = sends
    BY <1>4 DEF HandleAccept, HandleReceiveError, peer_vars
  <2> QED
    BY <1>4, <2>1, AcceptWire, ReleaseWire
<1>5. ASSUME NEW s \in Sessions, NEW n \in 1 .. HeaderSize, HandleReceive(s, n)
      PROVE  /\ WireInv' /\ sends' = sends
             /\ \A d \in Connections, b \in Byte : Ahead(d, b)' => Ahead(d, b)
  <2>1. sends' = sends
    BY <1>5 DEF HandleReceive
  <2> QED
    BY <1>5, <2>1, ReceiveWire
<1> QED
  BY <1>1, <1>2, <1>3, <1>4, <1>5 DEF Next

\* A packet whose header was read, or dropped, is never read again.
LEMMA SpentStays ==
    ASSUME Inv, NamesInv, WireInv, [Next]_vars, NEW n \in 1 .. sends, Spent(n)
    PROVE  Spent(n)'
<1>1. CASE \A d \in Connections, b \in Byte : Ahead(d, b)' => Ahead(d, b)
  BY <1>1 DEF Spent
<1>2. ASSUME NEW c \in Connections, NEW kind \in Kinds, PeerSend(c, kind)
      PROVE  Spent(n)'
  <2>1. \A d \in Connections, b \in Byte :
           Ahead(d, b)' => Ahead(d, b) \/ (d = c /\ b[1] = Sent(c, kind))
    BY <1>2, SendWire
  <2>2. Sent(c, kind).n # n
    <3>1. sends \in Nat
      BY DEF Inv, TypeOK
    <3>2. Sent(c, kind).n = sends + 1
      BY DEF Sent
    <3> QED
      BY <3>1, <3>2
  <2> QED
    BY <2>1, <2>2 DEF Spent
<1> QED
  BY <1>1, <1>2, WireStep

\* The packet a receive processes was ahead, and is not any more; what is ahead on
\* the connection then was sent after it.
LEMMA ReceiveSpends ==
    ASSUME Inv, NamesInv, WireInv, NEW s \in Sessions, NEW n \in 1 .. HeaderSize,
           HandleReceive(s, n), Complete(s, SubSeq(inbound[conn[s]], 1, n))
    PROVE  LET p == header(PacketBytes(s, SubSeq(inbound[conn[s]], 1, n)))
           IN  /\ p = FirstByte(s)[1]
               /\ FirstByte(s)[2] = 1
               /\ p \in InPacket /\ p.n \in 1 .. sends /\ p.from = conn[s]
               /\ \A m : m = p.n => ~Spent(m) /\ Spent(m)'
               /\ \A d \in Connections, b \in Byte :
                     d = conn[s] /\ Ahead(d, b)' /\ b[2] = 1 => p.n < b[1].n
<1> DEFINE c == conn[s]
           old == inbound[c]
           chunk == SubSeq(inbound[c], 1, n)
           rest == SubSeq(inbound[c], n + 1, Len(inbound[c]))
           first == FirstByte(s)
           filled == Filled(s, chunk)
           size == packet_data_size(s, chunk)
           length == get_packet_size(header(filled))
           p == header(PacketBytes(s, chunk))
<1>0. TypeOK /\ InBounds /\ NamesInv
  BY DEF Inv
<1>1. /\ is_open[s] /\ c \in Connections
      /\ inbound' = [inbound EXCEPT ![c] = rest]
      /\ Len(old) \in Nat /\ n <= Len(old)
      /\ Len(rest) = Len(old) - n
      /\ \A i \in 1 .. Len(rest) : rest[i] = old[n + i]
      /\ first \in Byte /\ Ahead(c, first)
      /\ filled[1] = first /\ filled \in Seq(Byte)
      /\ size \in Nat \ {0} /\ size <= Len(filled)
  BY ReceiveBytes
<1>2. first[2] = 1
  BY HeaderWhole DEF Complete
<1>3. length <= size /\ length = header(filled).content_size + HeaderSize
      /\ PacketBytes(s, chunk) = SubSeq(filled, 1, length)
  BY DEF Complete, PacketBytes, get_packet_size
<1>4. clear_packet_buffer(s)
  BY DEF Complete
<1>5. UNCHANGED <<is_open, conn, sends>>
  BY DEF HandleReceive, socket_vars
<1>6. first[1] \in InPacket /\ first[1].n \in 1 .. sends /\ first[1].from = c
  BY <1>0, <1>1, AheadFrom DEF WireInv, Numbered, Byte
<1> HIDE DEF filled, size, length, first, chunk, rest
<1>7. p = first[1]
  <2>1. header(filled) = first[1]
    BY <1>1 DEF header
  <2>2. length \in Nat /\ length >= 1
    BY <1>3, <1>6, <2>1, HeaderSizeAssumption DEF InPacket
  <2>3. SubSeq(filled, 1, length)[1] = filled[1]
    BY <1>1, <1>3, <2>2
  <2> QED
    BY <1>1, <1>3, <2>3 DEF header
<1>8. ~Spent(first[1].n)
  BY <1>1, <1>2 DEF Spent
<1>9. /\ packet_buffer_mark_'[s] = 0
      /\ \A t \in Sessions : t # s =>
            /\ packet_buffer_mark_'[t] = packet_buffer_mark_[t]
            /\ packet_buffer_'[t] = packet_buffer_[t]
  BY <1>0, <1>4 DEF TypeOK, clear_packet_buffer
<1>10. inbound'[c] = rest /\ \A d \in Connections : d # c => inbound'[d] = inbound[d]
  BY <1>0, <1>1 DEF TypeOK
<1>11. \A j \in 1 .. Len(rest) : rest[j][2] = 1 => first[1].n < rest[j][1].n
  <2> SUFFICES ASSUME NEW j \in 1 .. Len(rest), rest[j][2] = 1
               PROVE  first[1].n < rest[j][1].n
    OBVIOUS
  <2>1. n + j \in 1 .. Len(old) /\ rest[j] = old[n + j]
    BY <1>1
  <2>2. first[1].n < rest[j][1].n
    <3>1. CASE packet_buffer_mark_[s] > 0
      BY <1>1, <2>1, <3>1 DEF WireInv, InOrder, first, FirstByte
    <3>2. CASE ~(packet_buffer_mark_[s] > 0)
      <4>1. first = old[1] /\ 1 \in 1 .. Len(old) /\ 1 < n + j
        BY <1>1, <2>1, <3>2 DEF first, FirstByte
      <4>2. Rising(old)
        BY <1>1 DEF WireInv, InOrder
      <4> HIDE DEF old
      <4> QED
        BY <2>1, <4>1, <4>2 DEF Rising
    <3> QED
      BY <3>1, <3>2
  <2> QED
    BY <2>2
<1>12. ASSUME NEW d \in Connections, NEW b \in Byte, Ahead(d, b)', b[2] = 1
       PROVE  b[1].n # first[1].n /\ (d = c => first[1].n < b[1].n)
  <2>1. CASE d # c
    <3>1. Ahead(d, b)
      BY <1>12, ReceiveWire
    <3> QED
      BY <1>1, <2>1, <3>1 DEF WireInv, OneOwner
  <2>2. CASE d = c
    <3>1. ~\E t \in Sessions : is_open[t] /\ conn[t] = d /\ packet_buffer_mark_'[t] > 0
      <4> SUFFICES ASSUME NEW t \in Sessions, is_open[t], conn[t] = c,
                          packet_buffer_mark_'[t] > 0
                   PROVE  FALSE
        BY <2>2
      <4>1. t = s
        BY <1>1 DEF NamesInv, ServesAlone
      <4> QED
        BY <1>9, <4>1
    <3>2. PICK j \in 1 .. Len(inbound'[d]) : inbound'[d][j] = b
      BY <1>5, <1>12, <3>1 DEF Ahead
    <3>3. j \in 1 .. Len(rest) /\ rest[j] = b
      BY <1>10, <2>2, <3>2
    <3>4. first[1].n < b[1].n
      BY <1>11, <1>12, <3>3
    <3>5. first[1].n \in Nat
      BY <1>6 DEF InPacket
    <3> QED
      BY <3>4, <3>5
  <2> QED
    BY <2>1, <2>2
<1>13. \A m : m = first[1].n => Spent(m)'
  BY <1>12 DEF Spent
<1> HIDE DEF p
<1>14. \A d \in Connections, b \in Byte :
          d = conn[s] /\ Ahead(d, b)' /\ b[2] = 1 => p.n < b[1].n
  BY <1>7, <1>12 DEF c
<1> QED
  BY <1>2, <1>6, <1>7, <1>8, <1>13, <1>14 DEF p, chunk, first

\* What the server is sending.
OutInv ==
    /\ sends <= MaxSends
    /\ \A s \in Sessions : name_[s] \in 0 .. MaxSends
    /\ \A s \in Sessions : writes[s] # << >> =>
          \/ Head(writes[s]).id = "REPLY_LOGIN"
          \/ Head(writes[s]) \in Notice

\* The answer to a login, and what a chat that session s received becomes.
ReplyTo(p) == [id |-> "REPLY_LOGIN", name |-> 0, from |-> p.from, n |-> p.n]
NoticeOf(s, p) == [id |-> "NOTICE_CHAT", name |-> name_[s], from |-> p.from, n |-> p.n]

\* A packet that is posted is written where nothing was.
LEMMA PostedWhereEmpty ==
    ASSUME TypeOK, OneWrite, server # "crashed", NEW targets, NEW data \in OutPacket,
           post_send(targets, data), NEW s \in Sessions
    PROVE  \/ writes'[s] = writes[s]
           \/ /\ s \in targets
              /\ writes[s] = << >> /\ writes'[s] # << >> /\ Head(writes'[s]) = data
<1>1. writes[s] \in Seq(OutPacket)
  BY DEF TypeOK
<1>2. CASE s \in targets /\ send_data_queue_[s] = << >>
  <2>1. writes'[s] = Append(writes[s], data)
    BY <1>2 DEF post_send
  <2>2. Len(writes[s]) = 0
    BY <1>2 DEF OneWrite
  <2>3. writes[s] = << >>
    BY <1>1, <2>2, EmptySeq
  <2>4. Append(<< >>, data) # << >> /\ Head(Append(<< >>, data)) = data
    OBVIOUS
  <2> QED
    BY <1>2, <2>1, <2>3, <2>4
<1>3. CASE ~(s \in targets /\ send_data_queue_[s] = << >>)
  BY <1>3 DEF post_send
<1> QED
  BY <1>2, <1>3

\* What a receive writes: the reply to a login or the notice of a chat.
LEMMA ReceiveWrites ==
    ASSUME Inv, NamesInv, WireInv, NEW t \in Sessions, NEW n \in 1 .. HeaderSize,
           HandleReceive(t, n)
    PROVE  LET chunk == SubSeq(inbound[conn[t]], 1, n)
               p == header(PacketBytes(t, chunk))
           IN  \A s \in Sessions :
                  \/ writes'[s] = writes[s]
                  \/ /\ Complete(t, chunk)
                     /\ writes[s] = << >> /\ writes'[s] # << >>
                     /\ \/ /\ p.id = "REQUEST_LOGIN" /\ s = t
                           /\ Head(writes'[s]) = ReplyTo(p)
                        \/ /\ p.id = "REQUEST_CHAT" /\ is_open[s]
                           /\ Head(writes'[s]) = NoticeOf(t, p)
<1> DEFINE chunk == SubSeq(inbound[conn[t]], 1, n)
           p == header(PacketBytes(t, chunk))
<1>1. TypeOK /\ OneWrite /\ server # "crashed"
  BY DEF Inv, HandleReceive
<1>2. \/ UNCHANGED writes
      \/ Complete(t, chunk) /\ process_packet(t, p)
  BY DEF HandleReceive, send_vars
<1>3. Complete(t, chunk) => p \in InPacket
  BY ReceiveSpends
<1> HIDE DEF p, chunk
<1> SUFFICES ASSUME NEW s \in Sessions
             PROVE  \/ writes'[s] = writes[s]
                    \/ /\ Complete(t, chunk)
                       /\ writes[s] = << >> /\ writes'[s] # << >>
                       /\ \/ /\ p.id = "REQUEST_LOGIN" /\ s = t
                             /\ Head(writes'[s]) = ReplyTo(p)
                          \/ /\ p.id = "REQUEST_CHAT" /\ is_open[s]
                             /\ Head(writes'[s]) = NoticeOf(t, p)
  BY DEF p, chunk
<1>4. CASE UNCHANGED writes
  BY <1>4
<1>5. CASE /\ Complete(t, chunk)
           /\ p.id = "REQUEST_LOGIN" /\ post_send({t}, ReplyTo(p))
  <2>1. ReplyTo(p) \in OutPacket
    BY <1>3, <1>5 DEF InPacket, OutPacket, PacketIds, ReplyTo
  <2> QED
    BY <1>1, <1>5, <2>1, PostedWhereEmpty
<1>6. CASE /\ Complete(t, chunk)
           /\ p.id = "REQUEST_CHAT" /\ post_send({i \in Sessions : is_open[i]}, NoticeOf(t, p))
  <2>1. NoticeOf(t, p) \in OutPacket
    BY <1>1, <1>3, <1>6 DEF InPacket, OutPacket, PacketIds, NoticeOf, TypeOK
  <2> QED
    BY <1>1, <1>6, <2>1, PostedWhereEmpty
<1> QED
  BY <1>2, <1>4, <1>5, <1>6 DEF process_packet, ReplyTo, NoticeOf

\* handle_write leaves nothing to write.
LEMMA WrittenEmpties ==
    ASSUME Inv, NEW t \in Sessions, HandleWrite(t)
    PROVE  /\ writes'[t] = << >>
           /\ \A s \in Sessions : s # t => writes'[s] = writes[s]
<1> DEFINE queue == Tail(send_data_queue_[t])
<1>1. /\ server = "running" /\ writes[t] # << >>
      /\ writes' = [writes EXCEPT ![t] =
                       IF queue # << >> /\ Head(queue) # NULL
                       THEN Append(Tail(@), Head(queue)) ELSE Tail(@)]
  BY DEF HandleWrite
<1>2. /\ send_data_queue_[t] \in Seq({NULL}) /\ writes[t] \in Seq(OutPacket)
      /\ Len(writes[t]) = IF send_data_queue_[t] = << >> THEN 0 ELSE 1
      /\ writes \in [Sessions -> Seq(OutPacket)]
  BY <1>1 DEF Inv, TypeOK, OneWrite
<1>3. send_data_queue_[t] # << >> /\ Len(writes[t]) = 1
  BY <1>1, <1>2
<1>4. queue \in Seq({NULL})
  BY <1>2, <1>3
<1> HIDE DEF queue
<1>5. queue # << >> => Head(queue) = NULL
  BY <1>4
<1>6. writes' = [writes EXCEPT ![t] = Tail(@)]
  BY <1>1, <1>5
<1>7. Tail(writes[t]) \in Seq(OutPacket) /\ Len(Tail(writes[t])) = 0
  BY <1>1, <1>2, <1>3
<1>8. Tail(writes[t]) = << >>
  BY <1>7, EmptySeq
<1> QED
  BY <1>2, <1>6, <1>8

\* A notice of a packet that was ahead.
LEMMA NoticeTyped ==
    ASSUME Inv, NamesInv, WireInv, OutInv, NEW s \in Sessions, NEW n \in 1 .. HeaderSize,
           HandleReceive(s, n), Complete(s, SubSeq(inbound[conn[s]], 1, n))
    PROVE  LET p == header(PacketBytes(s, SubSeq(inbound[conn[s]], 1, n)))
           IN  p.from \in Connections /\ NoticeOf(s, p) \in Notice
<1> DEFINE p == header(PacketBytes(s, SubSeq(inbound[conn[s]], 1, n)))
<1>1. p.from = conn[s] /\ p.n \in 1 .. sends
  BY ReceiveSpends
<1>2. conn[s] \in Connections
  BY ReceiveBytes
<1>3. name_[s] \in 0 .. MaxSends /\ p.n \in 1 .. MaxSends
  <2>1. sends \in Nat /\ MaxSends \in Nat /\ sends <= MaxSends
    BY ServerAssumption DEF Inv, TypeOK, OutInv
  <2> QED
    BY <1>1, <2>1 DEF OutInv
<1> HIDE DEF p
<1>4. p.from \in Connections /\ NoticeOf(s, p) \in Notice
  BY <1>1, <1>2, <1>3 DEF NoticeOf, Notice
<1> QED
  BY <1>4 DEF p

\* The server writes replies and notices, and nothing else.
LEMMA OutStep ==
    ASSUME Inv, NamesInv, WireInv, OutInv, [Next]_vars
    PROVE  OutInv'
<1>0. TypeOK /\ sends \in Nat /\ MaxSends \in Nat
  BY ServerAssumption DEF Inv, TypeOK
<1>1. CASE /\ sends' \in {sends, sends + 1} /\ sends' <= MaxSends
           /\ UNCHANGED <<name_, writes>>
  BY <1>1 DEF OutInv, Notice, Connections
<1>2. ASSUME NEW c \in Connections, NEW kind \in Kinds, PeerSend(c, kind)
      PROVE  sends' = sends + 1 /\ sends' <= MaxSends /\ UNCHANGED <<name_, writes>>
  <2>1. sends' = sends + 1 /\ sends < MaxSends /\ UNCHANGED <<name_, writes>>
    BY <1>2 DEF PeerSend, send_vars
  <2> QED
    BY <1>0, <2>1
<1>3. ASSUME NEW t \in Sessions, NEW n \in 1 .. HeaderSize, HandleReceive(t, n)
      PROVE  OutInv'
  <2> DEFINE chunk == SubSeq(inbound[conn[t]], 1, n)
             p == header(PacketBytes(t, chunk))
  <2>1. \A s \in Sessions :
           \/ writes'[s] = writes[s]
           \/ /\ Complete(t, chunk)
              /\ Head(writes'[s]) = ReplyTo(p) \/ Head(writes'[s]) = NoticeOf(t, p)
    BY <1>3, ReceiveWrites
  <2>2. Complete(t, chunk) => p.n \in 1 .. sends /\ NoticeOf(t, p) \in Notice
    BY <1>3, NoticeTyped, ReceiveSpends
  <2>3. /\ sends' = sends
        /\ \/ UNCHANGED name_
           \/ Complete(t, chunk) /\ name_' \in {name_, [name_ EXCEPT ![t] = p.n]}
    <3>1. \/ UNCHANGED name_
          \/ Complete(t, chunk) /\ process_packet(t, p)
      BY <1>3 DEF HandleReceive, send_vars
    <3>2. process_packet(t, p) => name_' \in {name_, [name_ EXCEPT ![t] = p.n]}
      BY DEF process_packet
    <3>3. sends' = sends
      BY <1>3 DEF HandleReceive
    <3> QED
      BY <3>1, <3>2, <3>3
  <2> HIDE DEF p, chunk
  <2>4. \A s \in Sessions : name_'[s] \in 0 .. MaxSends
    <3>1. Complete(t, chunk) => p.n \in 0 .. MaxSends
      BY <1>0, <2>2 DEF OutInv
    <3> QED
      BY <1>0, <2>3, <3>1 DEF OutInv, TypeOK
  <2>5. ASSUME NEW s \in Sessions, writes'[s] # << >>
        PROVE  Head(writes'[s]).id = "REPLY_LOGIN" \/ Head(writes'[s]) \in Notice
    <3>1. ReplyTo(p).id = "REPLY_LOGIN"
      BY DEF ReplyTo
    <3> QED
      BY <2>1, <2>2, <2>5, <3>1 DEF OutInv
  <2>6. Notice' = Notice
    BY DEF Notice, Connections
  <2> QED
    BY <1>0, <2>3, <2>4, <2>5, <2>6 DEF OutInv
<1>4. ASSUME NEW t \in Sessions, HandleWrite(t)
      PROVE  OutInv'
  <2>1. sends' = sends /\ name_' = name_
    BY <1>4 DEF HandleWrite, peer_vars
  <2>2. \A s \in Sessions : writes'[s] # << >> => writes'[s] = writes[s]
    BY <1>4, WrittenEmpties
  <2>3. Notice' = Notice
    BY DEF Notice, Connections
  <2> QED
    BY <2>1, <2>2, <2>3 DEF OutInv
<1>5. CASE \/ Connect \/ \E c \in Connections : PeerClose(c)
           \/ \E s \in Sessions : HandleAccept(s) \/ HandleAcceptError(s) \/ HandleReceiveError(s)
           \/ RunReturns
           \/ UNCHANGED vars
  <2>1. sends' = sends /\ UNCHANGED <<name_, writes>>
    BY <1>5 DEF Connect, PeerClose, HandleAccept, HandleAcceptError, HandleReceiveError,
                RunReturns, vars, send_vars, peer_vars
  <2> QED
    BY <1>0, <1>1, <2>1 DEF OutInv
<1> QED
  BY <1>1, <1>2, <1>3, <1>4, <1>5 DEF Next

\* Nothing was read or sent yet.
LEMMA InitWire == Init => WireInv /\ OutInv
<1> SUFFICES ASSUME Init PROVE WireInv /\ OutInv
  OBVIOUS
<1>1. /\ \A c \in Connections : inbound[c] = << >> /\ Len(inbound[c]) = 0
      /\ \A s \in Sessions : ~is_open[s] /\ writes[s] = << >> /\ name_[s] = 0
      /\ sends = 0
  BY DEF Init
<1>2. \A c \in Connections, b \in Byte : ~Ahead(c, b)
  BY <1>1 DEF Ahead
<1>3. Numbered /\ OneOwner
  BY <1>2 DEF Numbered, OneOwner
<1>4. InOrder /\ ModeChecked /\ Unread
  BY <1>1 DEF InOrder, ModeChecked, Unread, Rising, AtStart
<1>5. OutInv
  BY <1>1, ServerAssumption DEF OutInv
<1> QED
  BY <1>3, <1>4, <1>5 DEF WireInv

-------------------------------------------------------------------------------
(* The client.  These lemmas are about the definitions of the instance      *)
(* Client!, in which the theorems of ChatClientProofs cannot be cited.      *)

Write == [packet : Client!Packet, state : {"started", "done", "failed"}]

Started == c_writes # << >> /\ c_writes[1].state = "started"

\* Every line is posted once, and every packet written once.
ClientCounts ==
    /\ Len(c_posted) + (IF c_main \in {"is_connecting", "is_logged_in", "post_send"}
                        THEN 1 ELSE 0) <= c_lines
    /\ Len(c_written) + (IF Started THEN 1 ELSE 0) <= Len(c_posted)

\* Something is under way on a connection only, and the client has one number.
ClientInv ==
    /\ Client!TypeOK /\ Client!OneWrite
    /\ ClientCounts
    /\ Started => c_socket = "connected"
    /\ c_socket = "connected" => me # 0
    /\ c_connect = "pending" => me = 0

\* A sequence of one element.
LEMMA OneElement ==
    ASSUME NEW S, NEW q \in Seq(S), q # << >>, Len(q) <= 1
    PROVE  /\ Len(q) = 1
           /\ q[1] \in S
           /\ Head(q) = q[1]
           /\ Tail(q) = << >>
<1>0. Len(q) \in Nat \ {0}
  BY EmptySeq, Zenon
<1>1. Len(q) = 1
  BY <1>0
<1>2. Tail(q) \in Seq(S) /\ Len(Tail(q)) = 0
  BY <1>1
<1>3. Tail(q) = << >>
  BY <1>2, EmptySeq
<1> QED
  BY <1>1, <1>3

\* Closing the socket changes only the state of what is under way.
LEMMA CloseKeeps ==
    ASSUME Client!TypeOK, Client!close
    PROVE  /\ c_socket' = "closed"
           /\ c_connect' \in {"accepted", "refused", "done"}
           /\ c_writes' \in Seq(Write)
           /\ Len(c_writes') = Len(c_writes)
           /\ \A i \in 1 .. Len(c_writes) :
                 /\ c_writes'[i].packet = c_writes[i].packet
                 /\ c_writes'[i].state # "started"
<1>1. c_writes \in Seq(Write)
  BY DEF Client!TypeOK, Write
<1>2. \A i \in 1 .. Len(c_writes) : c_writes[i] \in Write
  BY <1>1
<1>3. \A i \in 1 .. Len(c_writes) :
         (IF c_writes[i].state = "started" THEN [c_writes[i] EXCEPT !.state = "failed"]
          ELSE c_writes[i]) \in Write
  BY <1>2 DEF Write
<1>4. c_writes' \in Seq(Write) /\ Len(c_writes') = Len(c_writes)
  BY <1>1, <1>3 DEF Client!close
<1>5. \A i \in 1 .. Len(c_writes) :
         c_writes'[i].packet = c_writes[i].packet /\ c_writes'[i].state # "started"
  BY <1>2 DEF Client!close, Write
<1> QED
  BY <1>4, <1>5 DEF Client!close, Client!TypeOK

\* A new packet is queued, and written only when the queue was empty.
LEMMA PostSendKeeps ==
    ASSUME Client!TypeOK, NEW packet \in Client!Packet, Client!post_send(packet)
    PROVE  /\ c_send_data_queue_' \in Seq({NULL})
           /\ Len(c_send_data_queue_') = Len(c_send_data_queue_) + 1
           /\ c_writes' \in Seq(Write)
           /\ c_send_data_queue_ # << >> => c_writes' = c_writes
           /\ c_send_data_queue_ = << >> =>
                 /\ Len(c_writes') = Len(c_writes) + 1
                 /\ c_writes'[Len(c_writes')].packet = packet
                 /\ \A i \in 1 .. Len(c_writes) : c_writes'[i] = c_writes[i]
<1> DEFINE w == Client!begun(packet)
<1>1. w \in Write /\ w.packet = packet
  BY DEF Write, Client!begun
<1>2. c_writes \in Seq(Write) /\ c_send_data_queue_ \in Seq({NULL})
  BY DEF Client!TypeOK, Write
<1>3. /\ c_send_data_queue_' \in Seq({NULL})
      /\ Len(c_send_data_queue_') = Len(c_send_data_queue_) + 1
  BY <1>2 DEF Client!post_send
<1>4. c_send_data_queue_ = << >> <=> Len(c_send_data_queue_') < 2
  BY <1>2, <1>3
<1>5. c_writes' = IF c_send_data_queue_ = << >> THEN Append(c_writes, w) ELSE c_writes
  BY <1>4 DEF Client!post_send
<1> HIDE DEF w
<1> QED
  BY <1>1, <1>2, <1>3, <1>5

\* handle_write takes one packet and one write away: what is queued is null.
LEMMA HandleWriteKeeps ==
    ASSUME Client!TypeOK, Client!OneWrite, Client!HandleWrite
    PROVE  /\ c_writes' = << >>
           /\ c_send_data_queue_' \in Seq({NULL})
           /\ Len(c_send_data_queue_') = Len(c_send_data_queue_) - 1
           /\ Len(c_writes) = 1
<1>1. /\ c_writes \in Seq(Write) /\ c_send_data_queue_ \in Seq({NULL})
      /\ Len(c_writes) <= 1 /\ c_writes # << >> /\ c_send_data_queue_ # << >>
  BY DEF Client!TypeOK, Write, Client!OneWrite, Client!HandleWrite
<1>2. Len(c_writes) = 1 /\ Tail(c_writes) = << >>
  BY <1>1, OneElement
<1> DEFINE queue == Tail(c_send_data_queue_)
<1>3. queue \in Seq({NULL}) /\ Len(queue) = Len(c_send_data_queue_) - 1
  BY <1>1
<1>4. queue # << >> => Head(queue) = NULL
  BY <1>3
<1>5. c_send_data_queue_' = queue
  BY DEF Client!HandleWrite
<1>6. c_writes' = Tail(c_writes)
  BY <1>4 DEF Client!HandleWrite
<1> HIDE DEF queue
<1> QED
  BY <1>2, <1>3, <1>5, <1>6

\* A write that completes changes its state, and reaches the server or not.
LEMMA CompletesKeeps ==
    ASSUME Client!TypeOK, Client!OneWrite, Client!WriteCompletes
    PROVE  /\ Len(c_writes) = 1 /\ c_writes[1] \in Write /\ c_writes[1].state = "started"
           /\ c_writes' \in Seq(Write) /\ Len(c_writes') = 1
           /\ c_writes'[1].packet = c_writes[1].packet
           /\ c_writes'[1].state # "started"
           /\ \/ c_written' = c_written
              \/ c_written' = Append(c_written, c_writes[1].packet)
<1>1. c_writes \in Seq(Write) /\ Len(c_writes) <= 1 /\ c_writes # << >>
  BY DEF Client!TypeOK, Write, Client!OneWrite, Client!WriteCompletes
<1>2. Len(c_writes) = 1 /\ c_writes[1] \in Write /\ Head(c_writes) = c_writes[1]
  BY <1>1, OneElement
<1>3. \E st \in {"done", "failed"} : c_writes' = [c_writes EXCEPT ![1].state = st]
  BY DEF Client!WriteCompletes
<1>4. PICK st \in {"done", "failed"} : c_writes' = [c_writes EXCEPT ![1].state = st]
  BY <1>3
<1>5. [c_writes[1] EXCEPT !.state = st] \in Write
  BY <1>2 DEF Write
<1>6. /\ [c_writes[1] EXCEPT !.state = st].packet = c_writes[1].packet
      /\ [c_writes[1] EXCEPT !.state = st].state = st
  BY <1>2 DEF Write
<1>7. c_writes' = [c_writes EXCEPT ![1] = [c_writes[1] EXCEPT !.state = st]]
  BY <1>4
<1>8. c_writes' \in Seq(Write) /\ Len(c_writes') = 1
      /\ c_writes'[1] = [c_writes[1] EXCEPT !.state = st]
  BY <1>1, <1>2, <1>5, <1>7
<1> QED
  BY <1>2, <1>6, <1>8 DEF Client!WriteCompletes

\* Both threads keep the types.
LEMMA ClientTypeStep ==
    ASSUME Client!TypeOK, Client!OneWrite, [Client!Next]_(Client!vars)
    PROVE  Client!TypeOK'
<1> USE DEF Client!io_vars, Client!main_vars, Client!client_vars, Client!server_vars
<1>w. c_writes \in Seq(Write)
  BY DEF Client!TypeOK, Write
<1>1. CASE Client!GetLine
  BY <1>1, SystemAssumption DEF Client!GetLine, Client!TypeOK
<1>2. CASE Client!EndOfInput
  BY <1>2 DEF Client!EndOfInput, Client!TypeOK
<1>3. CASE Client!is_connecting
  BY <1>3 DEF Client!is_connecting, Client!TypeOK
<1>4. CASE Client!is_logged_in
  BY <1>4 DEF Client!is_logged_in, Client!TypeOK, Client!Ids
<1>5. CASE Client!PostSend
  <2> DEFINE packet == [id |-> c_id, n |-> Len(c_posted) + 1]
  <2>1. packet \in Client!Packet
    BY DEF Client!TypeOK, Client!Packet
  <2>2. Client!post_send(packet) /\ c_posted' = Append(c_posted, packet)
    BY <1>5 DEF Client!PostSend
  <2>3. c_posted' \in Seq(Client!Packet)
    BY <2>1, <2>2 DEF Client!TypeOK
  <2>4. c_send_data_queue_' \in Seq({NULL}) /\ c_writes' \in Seq(Write)
    BY <2>1, <2>2, PostSendKeeps
  <2> HIDE DEF packet
  <2>5. c_overlapped' \in BOOLEAN
    BY <1>5 DEF Client!PostSend, Client!TypeOK
  <2> QED
    BY <1>5, <2>3, <2>4, <2>5 DEF Client!PostSend, Client!TypeOK, Write
<1>6. CASE Client!StopService
  BY <1>6 DEF Client!StopService, Client!TypeOK
<1>7. CASE Client!CloseSocket
  BY <1>7, CloseKeeps DEF Client!CloseSocket, Client!TypeOK, Write
<1>8. CASE Client!Join
  BY <1>8 DEF Client!Join, Client!TypeOK
<1>9. CASE Client!HandleConnect
  BY <1>9 DEF Client!HandleConnect, Client!TypeOK
<1>10. CASE Client!HandleWrite
  <2>1. c_writes' \in Seq(Write) /\ c_send_data_queue_' \in Seq({NULL})
    BY <1>10, HandleWriteKeeps
  <2> QED
    BY <1>10, <2>1 DEF Client!HandleWrite, Client!TypeOK, Write
<1>11. ASSUME NEW n \in 1 .. MaxLines + MaxNotices,
   Client!HandleReceive(n) PROVE Client!TypeOK'
  <2>1. c_inbound' \in Seq({"REPLY_LOGIN", "NOTICE_CHAT"})
    BY <1>11, SystemAssumption DEF Client!HandleReceive, Client!TypeOK
  <2>2. c_is_logged_in_' \in BOOLEAN
    BY <1>11 DEF Client!HandleReceive, Client!process_packet, Client!TypeOK
  <2> QED
    BY <1>11, <2>1, <2>2 DEF Client!HandleReceive, Client!TypeOK
<1>12. CASE Client!HandleReceiveError
  BY <1>12, CloseKeeps DEF Client!HandleReceiveError, Client!TypeOK, Write
<1>13. CASE Client!RunReturns
  <2>1. /\ c_running' \in BOOLEAN
        /\ UNCHANGED <<Client!io_vars, Client!main_vars, Client!server_vars,
           c_send_data_queue_,
                       c_is_logged_in_, c_torn, c_written>>
    BY <1>13 DEF Client!RunReturns
  <2> QED
    BY <2>1 DEF Client!TypeOK
<1>14. CASE Client!ConnectCompletes
  BY <1>14 DEF Client!ConnectCompletes, Client!TypeOK
<1>15. CASE Client!WriteCompletes
  <2>1. c_writes' \in Seq(Write)
    BY <1>15, CompletesKeeps
  <2>2. c_writes[1].packet \in Client!Packet
    BY <1>15, CompletesKeeps DEF Write
  <2>3. c_written' = c_written \/ c_written' = Append(c_written, c_writes[1].packet)
    BY <1>15, CompletesKeeps
  <2>4. c_written \in Seq(Client!Packet)
    BY DEF Client!TypeOK
  <2>5. c_written' \in Seq(Client!Packet)
    BY <2>2, <2>3, <2>4
  <2> QED
    BY <1>15, <2>1, <2>5 DEF Client!WriteCompletes, Client!TypeOK, Write
<1>16. ASSUME NEW i \in 1 .. MaxLines, Client!ServerReplies(i) PROVE Client!TypeOK'
  <2>1. c_inbound' \in Seq({"REPLY_LOGIN", "NOTICE_CHAT"})
    BY <1>16 DEF Client!ServerReplies, Client!TypeOK
  <2>2. c_answered' \subseteq Nat
    BY <1>16, SystemAssumption DEF Client!ServerReplies, Client!TypeOK
  <2> QED
    BY <1>16, <2>1, <2>2 DEF Client!ServerReplies, Client!TypeOK
<1>17. CASE Client!ServerNotifies
  BY <1>17 DEF Client!ServerNotifies, Client!TypeOK
<1>18. CASE Client!ServerCloses
  BY <1>18 DEF Client!ServerCloses, Client!TypeOK
<1>19. CASE UNCHANGED Client!vars
  BY <1>19 DEF Client!vars, Client!TypeOK
<1> QED
  BY <1>1, <1>2, <1>3, <1>4, <1>5, <1>6, <1>7, <1>8, <1>9, <1>10, <1>11, <1>12,
     <1>13, <1>14, <1>15, <1>16, <1>17, <1>18, <1>19 DEF Client!Next

\* The loop of main.
Loop == {"getline", "is_connecting", "is_logged_in", "post_send"}

\* The steps that touch neither the queue nor what is under way or written.
Elsewhere ==
    /\ UNCHANGED <<c_writes, c_send_data_queue_, c_written, c_posted>>
    /\ c_socket' \in {c_socket, "connected"}
    /\ c_connect' = "pending" => c_connect = "pending"
    /\ \/ UNCHANGED <<c_main, c_lines>>
       \/ Client!GetLine \/ Client!is_connecting \/ Client!is_logged_in
       \/ c_main' \notin Loop \ {"getline"} /\ UNCHANGED c_lines

\* Every step is one of these.
LEMMA ClientStepKinds ==
    ASSUME [Client!Next]_(Client!vars)
    PROVE  \/ Elsewhere
           \/ Client!PostSend
           \/ Client!CloseSocket \/ Client!HandleReceiveError
           \/ Client!HandleWrite
           \/ Client!WriteCompletes
<1> USE DEF Client!io_vars, Client!main_vars, Client!client_vars, Client!server_vars
<1>1. CASE Client!EndOfInput \/ Client!StopService \/ Client!Join
  BY <1>1 DEF Client!EndOfInput, Client!StopService, Client!Join, Elsewhere, Loop
<1>2. CASE Client!GetLine \/ Client!is_connecting \/ Client!is_logged_in
  BY <1>2 DEF Client!GetLine, Client!is_connecting, Client!is_logged_in, Elsewhere
<1>3. CASE Client!HandleConnect \/ Client!RunReturns \/ Client!ConnectCompletes \/ Client!ServerNotifies \/ Client!ServerCloses
  BY <1>3 DEF Client!HandleConnect, Client!RunReturns, Client!ConnectCompletes,
              Client!ServerNotifies, Client!ServerCloses,
              Elsewhere
<1>4. ASSUME NEW n \in 1 .. MaxLines + MaxNotices, Client!HandleReceive(n) PROVE Elsewhere
  BY <1>4 DEF Client!HandleReceive, Elsewhere
<1>5. ASSUME NEW i \in 1 .. MaxLines, Client!ServerReplies(i) PROVE Elsewhere
  BY <1>5 DEF Client!ServerReplies, Elsewhere
<1>6. CASE UNCHANGED Client!vars
  BY <1>6 DEF Client!vars, Elsewhere
<1> QED
  BY <1>1, <1>2, <1>3, <1>4, <1>5, <1>6 DEF Client!Next

\* However the threads interleave: one write for a queue that is not empty.
LEMMA ClientOneWrite ==
    ASSUME Client!TypeOK, Client!OneWrite, [Client!Next]_(Client!vars)
    PROVE  Client!OneWrite'
<1>0. /\ c_writes \in Seq(Write) /\ c_send_data_queue_ \in Seq({NULL})
  BY DEF Client!TypeOK, Write
<1>1. CASE Elsewhere
  BY <1>1 DEF Elsewhere, Client!OneWrite
<1>2. CASE Client!PostSend
  <2> DEFINE packet == [id |-> c_id, n |-> Len(c_posted) + 1]
  <2>1. packet \in Client!Packet
    BY DEF Client!TypeOK, Client!Packet
  <2>2. Client!post_send(packet)
    BY <1>2 DEF Client!PostSend
  <2>3. /\ c_send_data_queue_' \in Seq({NULL})
        /\ Len(c_send_data_queue_') = Len(c_send_data_queue_) + 1
        /\ c_writes' \in Seq(Write)
        /\ c_send_data_queue_ # << >> => c_writes' = c_writes
        /\ c_send_data_queue_ = << >> => Len(c_writes') = Len(c_writes) + 1
    BY <2>1, <2>2, PostSendKeeps
  <2>4. c_send_data_queue_' # << >>
    BY <1>0, <2>3
  <2>5. CASE c_send_data_queue_ = << >>
    <3>1. c_writes = << >>
      BY <2>5 DEF Client!OneWrite
    <3>2. Len(c_writes') = 1 /\ Len(c_send_data_queue_') = 1
      BY <2>3, <2>5, <3>1
    <3> QED
      BY <2>4, <3>2 DEF Client!OneWrite
  <2>6. CASE c_send_data_queue_ # << >>
    BY <2>2, <2>3, <2>4, <2>6 DEF Client!OneWrite
  <2> QED
    BY <2>5, <2>6
<1>3. CASE Client!CloseSocket \/ Client!HandleReceiveError
  <2>1. Client!close /\ UNCHANGED c_send_data_queue_
    BY <1>3 DEF Client!CloseSocket, Client!HandleReceiveError, Client!main_vars,
                Client!client_vars
  <2>2. c_writes' \in Seq(Write) /\ Len(c_writes') = Len(c_writes)
    BY <2>1, CloseKeeps
  <2>3. c_writes' # << >> => c_writes # << >>
    BY <1>0, <2>2
  <2> QED
    BY <2>1, <2>2, <2>3 DEF Client!OneWrite
<1>4. CASE Client!HandleWrite
  <2>1. /\ c_writes' = << >>
        /\ Len(c_send_data_queue_') = Len(c_send_data_queue_) - 1
        /\ Len(c_writes) = 1
    BY <1>4, HandleWriteKeeps
  <2>2. Len(c_writes') = 0
    BY <2>1
  <2> QED
    BY <2>1, <2>2 DEF Client!OneWrite
<1>5. CASE Client!WriteCompletes
  <2>1. Len(c_writes) = 1 /\ Len(c_writes') = 1 /\ c_writes # << >>
    BY <1>5, CompletesKeeps DEF Client!WriteCompletes
  <2>2. UNCHANGED c_send_data_queue_
    BY <1>5 DEF Client!WriteCompletes, Client!main_vars, Client!client_vars
  <2> QED
    BY <2>1, <2>2 DEF Client!OneWrite
<1> QED
  BY <1>1, <1>2, <1>3, <1>4, <1>5, ClientStepKinds

\* Where main is, and how many lines it has read.
LEMMA ElsewhereCounts ==
    ASSUME ClientInv, Elsewhere
    PROVE  Len(c_posted') + (IF c_main' \in {"is_connecting", "is_logged_in", "post_send"}
                           THEN 1 ELSE 0) <= c_lines'
<1>0. Len(c_posted) \in Nat /\ c_posted' = c_posted /\ c_lines \in Nat
  BY SystemAssumption DEF ClientInv, ClientCounts, Client!TypeOK, Elsewhere
<1>1. CASE UNCHANGED <<c_main, c_lines>>
  BY <1>0, <1>1 DEF ClientInv, ClientCounts
<1>2. CASE Client!GetLine
  BY <1>0, <1>2 DEF ClientInv, ClientCounts, Client!GetLine
<1>3. CASE Client!is_connecting \/ Client!is_logged_in
  BY <1>0, <1>3 DEF ClientInv, ClientCounts, Client!is_connecting, Client!is_logged_in, Client!main_vars,
                    Client!client_vars
<1>4. CASE c_main' \notin Loop \ {"getline"} /\ UNCHANGED c_lines
  BY <1>0, <1>4 DEF ClientInv, ClientCounts, Loop
<1> QED
  BY <1>1, <1>2, <1>3, <1>4 DEF Elsewhere

\* The client's own invariant, whatever it is told of its connection.
LEMMA ClientStep ==
    ASSUME ClientInv, [Client!Next]_(Client!vars),
           me' = me \/ (c_connect = "pending" /\ me' # 0),
           c_connect' = "pending" => me' = me,
           c_socket' = "connected" => c_socket = "connected" \/ me' # 0
    PROVE  ClientInv'
<1> USE DEF Client!io_vars, Client!main_vars, Client!client_vars, Client!server_vars
<1>0. /\ Client!TypeOK /\ Client!OneWrite
      /\ c_writes \in Seq(Write) /\ c_written \in Seq(Client!Packet)
      /\ c_posted \in Seq(Client!Packet) /\ c_lines \in Nat
      /\ Len(c_written) \in Nat /\ Len(c_posted) \in Nat
  <2>1. /\ c_writes \in Seq(Write) /\ c_written \in Seq(Client!Packet)
        /\ c_posted \in Seq(Client!Packet) /\ c_lines \in Nat
    BY SystemAssumption DEF ClientInv, Client!TypeOK, Write
  <2>2. Len(c_written) \in Nat /\ Len(c_posted) \in Nat
    BY <2>1
  <2> QED
    BY <2>1, <2>2 DEF ClientInv
<1>1. Client!TypeOK' /\ Client!OneWrite'
  BY <1>0, ClientTypeStep, ClientOneWrite
<1>2. ClientCounts' /\ (Started' => c_socket' = "connected")
      /\ (c_connect' = "pending" => c_connect = "pending")
  <2>1. CASE Elsewhere
    <3>1. Started' <=> Started
      BY <2>1 DEF Started, Elsewhere
    <3>2. Len(c_posted') + (IF c_main' \in {"is_connecting", "is_logged_in", "post_send"}
                            THEN 1 ELSE 0) <= c_lines'
      BY <2>1, ElsewhereCounts
    <3> QED
      BY <2>1, <3>1, <3>2 DEF Elsewhere, ClientInv, ClientCounts
  <2>2. CASE Client!PostSend
    <3> DEFINE packet == [id |-> c_id, n |-> Len(c_posted) + 1]
    <3>1. packet \in Client!Packet
      BY <1>0 DEF Client!TypeOK, Client!Packet
    <3>2. /\ Client!post_send(packet) /\ c_posted' = Append(c_posted, packet)
          /\ c_main = "post_send" /\ c_main' = "getline"
          /\ UNCHANGED <<c_lines, c_written, c_socket, c_connect>>
      BY <2>2 DEF Client!PostSend
    <3>3. Len(c_posted') = Len(c_posted) + 1
      BY <1>0, <3>1, <3>2
    <3>4. \/ c_writes' = c_writes
          \/ /\ c_send_data_queue_ = << >> /\ c_writes' = Append(c_writes, Client!begun(packet))
      <4>1. Len(c_send_data_queue_') < 2 => c_send_data_queue_ = << >>
        <5>1. c_send_data_queue_ \in Seq({NULL})
          BY <1>0 DEF Client!TypeOK
        <5>2. Len(c_send_data_queue_') = Len(c_send_data_queue_) + 1
          BY <3>2, <5>1 DEF Client!post_send
        <5> QED
          BY <5>1, <5>2
      <4> QED
        BY <3>2, <4>1 DEF Client!post_send
    <3>5. Started' => Started \/ (~Started /\ c_socket = "connected")
      <4>1. CASE c_writes' = c_writes
        BY <4>1 DEF Started
      <4>2. CASE c_send_data_queue_ = << >> /\ c_writes' = Append(c_writes, Client!begun(packet))
        <5>1. c_writes = << >>
          BY <1>0, <4>2 DEF Client!OneWrite
        <5>2. c_writes'[1] = Client!begun(packet)
          BY <4>2, <5>1
        <5> QED
          BY <5>1, <5>2 DEF Started, Client!begun
      <4> QED
        BY <3>4, <4>1, <4>2
    <3> HIDE DEF packet
    <3>6. Len(c_posted') <= c_lines'
      BY <1>0, <3>2, <3>3 DEF ClientInv, ClientCounts
    <3>7. Len(c_written) <= Len(c_posted)
      BY <1>0 DEF ClientInv, ClientCounts
    <3>8. c_main' \notin {"is_connecting", "is_logged_in", "post_send"}
      BY <3>2
    <3>9. Len(c_written') + (IF Started' THEN 1 ELSE 0) <= Len(c_posted')
      BY <1>0, <3>2, <3>3, <3>7
    <3>10. ClientCounts'
      BY <1>0, <3>3, <3>6, <3>8, <3>9 DEF ClientCounts
    <3> QED
      BY <3>2, <3>5, <3>10 DEF ClientInv
  <2>3. CASE Client!CloseSocket \/ Client!HandleReceiveError
    <3>1. /\ Client!close /\ UNCHANGED <<c_written, c_posted, c_lines>>
          /\ c_main' = c_main \/ c_main' = "join"
      BY <2>3 DEF Client!CloseSocket, Client!HandleReceiveError
    <3>2. ~Started'
      <4>1. /\ c_writes' \in Seq(Write) /\ Len(c_writes') = Len(c_writes)
            /\ \A i \in 1 .. Len(c_writes) : c_writes'[i].state # "started"
        BY <1>0, <3>1, CloseKeeps
      <4>2. c_writes' # << >> => 1 \in 1 .. Len(c_writes)
        BY <4>1
      <4> QED
        BY <4>1, <4>2 DEF Started
    <3>3. c_connect' # "pending"
      BY <1>0, <3>1, CloseKeeps
    <3>4. ClientCounts'
      BY <1>0, <3>1, <3>2 DEF ClientInv, ClientCounts
    <3> QED
      BY <3>2, <3>3, <3>4
  <2>4. CASE Client!HandleWrite
    <3>1. /\ c_writes' = << >>
          /\ UNCHANGED <<c_written, c_posted, c_lines, c_main, c_socket, c_connect>>
      BY <1>0, <2>4, HandleWriteKeeps DEF Client!HandleWrite
    <3>2. ~Started'
      BY <3>1 DEF Started
    <3>3. ClientCounts'
      BY <1>0, <3>1, <3>2 DEF ClientInv, ClientCounts
    <3> QED
      BY <3>1, <3>2, <3>3
  <2>5. CASE Client!WriteCompletes
    <3>1. /\ c_writes[1] \in Write /\ c_writes[1].state = "started" /\ Len(c_writes) = 1
          /\ c_writes'[1].state # "started"
          /\ \/ c_written' = c_written
             \/ c_written' = Append(c_written, c_writes[1].packet)
      BY <1>0, <2>5, CompletesKeeps
    <3>2. Started /\ ~Started'
      BY <2>5, <3>1 DEF Started, Client!WriteCompletes
    <3>3. UNCHANGED <<c_posted, c_lines, c_main, c_socket, c_connect>>
      BY <2>5 DEF Client!WriteCompletes
    <3>4. Len(c_written') <= Len(c_written) + 1 /\ Len(c_written') \in Nat
      <4>1. c_writes[1].packet \in Client!Packet
        BY <3>1 DEF Write
      <4> QED
        BY <1>0, <3>1, <4>1
    <3>5. ClientCounts'
      BY <1>0, <3>2, <3>3, <3>4 DEF ClientInv, ClientCounts
    <3> QED
      BY <3>2, <3>3, <3>5
  <2> QED
    BY <2>1, <2>2, <2>3, <2>4, <2>5, ClientStepKinds
<1>3. c_socket' = "connected" => me' # 0
  BY DEF ClientInv
<1>4. c_connect' = "pending" => me' = 0
  BY <1>2 DEF ClientInv
<1> QED
  BY <1>1, <1>2, <1>3, <1>4 DEF ClientInv

-------------------------------------------------------------------------------
(* Where the two meet.                                                       *)

MeetingTypeOK ==
    /\ me \in 0 .. arrived
    /\ incoming \in Seq(OutPacket)
    /\ \A i \in 1 .. Len(incoming) :
          incoming[i].id = "REPLY_LOGIN" \/ incoming[i] \in Notice
    /\ c_inbound = [i \in 1 .. Len(incoming) |-> incoming[i].id]
    /\ sent_by_me \in Seq(1 .. sends) /\ Len(sent_by_me) = Len(c_written)
    /\ passed \subseteq Sessions
    /\ said \in Seq(Notice) /\ shown \in Seq(Notice)
    /\ hurried \in BOOLEAN

\* Session s is to send x to the client.
Going(s, x) ==
    /\ is_open[s] /\ conn[s] = me /\ s \notin passed
    /\ writes[s] # << >> /\ Head(writes[s]) = x

\* The packets the client wrote keep their order and their numbers, and a reply
\* answers a login that no other reply has answered.
ReplyInv ==
    /\ \A i, j \in 1 .. Len(sent_by_me) : i < j => sent_by_me[i] < sent_by_me[j]
    /\ \A c \in Connections, b \in Byte : c = me /\ Ahead(c, b) =>
          \E i \in 1 .. Len(sent_by_me) :
              sent_by_me[i] = b[1].n /\ c_written[i].id = b[1].id
    /\ c_answered \subseteq 1 .. Len(sent_by_me)
    /\ \A i \in c_answered, n \in 1 .. sends : sent_by_me[i] = n => Spent(n)
    /\ \A s \in Sessions, x \in OutPacket : Going(s, x) /\ x.id = "REPLY_LOGIN" =>
          /\ x.n \in 1 .. sends /\ Spent(x.n)
          /\ \E i \in 1 .. Len(sent_by_me) :
                /\ sent_by_me[i] = x.n /\ c_written[i].id = "REQUEST_LOGIN"
                /\ i \notin c_answered

\* Each chat is made a notice once.
SaidInv ==
    /\ \A i, j \in 1 .. Len(said) : said[i].n = said[j].n => i = j
    /\ \A i \in 1 .. Len(said) : said[i].n \in 1 .. sends
    /\ \A i \in 1 .. Len(said), n \in 1 .. sends : said[i].n = n => Spent(n)

Made(x) == \E k \in 1 .. Len(said) : said[k] = x

\* The server made x before y.
Before(x, y) == \A j, k \in 1 .. Len(said) : said[j] = x /\ said[k] = y => j < k

Shown(x) == shown # << >> /\ shown[Len(shown)] = x
Coming(i, x) == i \in 1 .. Len(incoming) /\ incoming[i] = x

\* Notices come to the client in the order in which the server made them.
NoticeInv ==
    /\ \A x \in Notice :
          \/ Shown(x)
          \/ \E i \in Nat : Coming(i, x)
          \/ \E s \in Sessions : Going(s, x)
          => Made(x)
    /\ \A x, y \in Notice : \A i \in Nat :
          /\ Shown(x) /\ Coming(i, y) => Before(x, y)
          /\ \A j \in Nat : Coming(j, x) /\ Coming(i, y) /\ j < i => Before(x, y)
    /\ \A x, y \in Notice : \A s \in Sessions : Going(s, y) =>
          /\ Shown(x) => Before(x, y)
          /\ \A i \in Nat : Coming(i, x) => Before(x, y)
    /\ \A y \in Notice : \A s \in Sessions : \A k \in 1 .. Len(said) :
          Going(s, y) /\ said[k] = y => c_notices < k
    /\ c_notices \in Nat /\ c_notices <= Len(said)

\* Whatever in the client stands for a reply that came, or is still to come, and
\* every chat it has built, posted or sent, goes back to a login at the server.
LoggedIn == me \in Connections /\ last_login[me] # 0
OwnInv ==
    /\ c_is_logged_in_ => LoggedIn
    /\ \A i \in 1 .. Len(incoming) : incoming[i].id = "REPLY_LOGIN" => LoggedIn
    /\ c_main = "post_send" /\ c_id = "REQUEST_CHAT" => LoggedIn
    /\ \A i \in 1 .. Len(c_writes) : c_writes[i].packet.id = "REQUEST_CHAT" => LoggedIn
    /\ \A s \in Sessions, x \in OutPacket :
          Going(s, x) /\ x.id = "REPLY_LOGIN" => LoggedIn
    /\ \A c \in Connections, b \in Byte :
          c = me /\ Ahead(c, b) /\ b[1].id = "REQUEST_CHAT" => LoggedIn
    /\ \A i \in 1 .. Len(said) : said[i].from <= accepted

\* A packet of the client with number n comes after all the server has processed of
\* it; and a login with number m has a name that no chat sent after it goes without.
Later(n) ==
    /\ last_login[me] < n
    /\ \A i \in 1 .. Len(said) : said[i].from = me => said[i].n < n
Covered(m) ==
    /\ me \in Connections /\ m <= last_login[me]
    /\ \A i \in 1 .. Len(said) : said[i].from = me /\ m < said[i].n => m <= said[i].name

\* The name the server holds is a login of the client, what is still ahead was sent
\* after all that the server processed, and whatever answers a login says that the
\* chats after it go under it or under a later one.
LoginInv ==
    /\ LoggedIn => \E j \in 1 .. Len(sent_by_me) :
                      sent_by_me[j] = last_login[me] /\ c_written[j].id = "REQUEST_LOGIN"
    /\ \A c \in Connections, b \in Byte : c = me /\ Ahead(c, b) /\ b[2] = 1 => Later(b[1].n)
    /\ \A j \in c_answered : Covered(sent_by_me[j])
    /\ \A s \in Sessions, x \in OutPacket :
          Going(s, x) /\ x.id = "REPLY_LOGIN" => Covered(x.n)
    /\ OwnName

MeetingInv == MeetingTypeOK /\ ReplyInv /\ SaidInv /\ NoticeInv /\ OwnInv /\ LoginInv

\* The inductive invariant of the system.
SysInv == Inv /\ NamesInv /\ WireInv /\ OutInv /\ ClientInv /\ MeetingInv

\* Session s is sending its first packet, and the client is its peer.
LEMMA ReachedGoing ==
    ASSUME NEW s \in Sessions, Reachable(s)
    PROVE  Going(s, Head(writes[s]))
BY DEF Reachable, Going

\* Every step of the system is a step of the server, or none of it.
LEMMA ServerStep ==
    ASSUME Inv, ClientInv, me \in 0 .. arrived, [SystemNext]_system_vars
    PROVE  [Next]_vars
<1>0. me # 0 => me \in Connections
  <2>1. arrived <= MaxConnections /\ arrived \in Nat /\ MaxConnections \in Nat
    BY ServerAssumption DEF Inv, TypeOK, InBounds
  <2> QED
    BY <2>1 DEF Connections
<1>1. CASE ClientConnects
  BY <1>1 DEF ClientConnects, Next
<1>2. CASE ClientWrites
  <2>1. CASE UNCHANGED vars
    BY <2>1
  <2> DEFINE kind == [id |-> Head(c_writes).packet.id, content_size |-> ContentSize]
  <2>2. CASE PeerSend(me, kind)
    <3>1. Started /\ c_writes[1] \in Write
      <4>1. c_writes \in Seq(Write) /\ c_writes # << >> /\ Head(c_writes).state = "started"
        BY <1>2 DEF ClientWrites, Client!WriteCompletes, ClientInv, Client!TypeOK, Write
      <4> QED
        BY <4>1 DEF Started
    <3>2. me \in Connections
      BY <1>0, <3>1 DEF ClientInv
    <3>3. Head(c_writes).packet.id \in {"REQUEST_LOGIN", "REQUEST_CHAT"}
      <4>1. Head(c_writes) = c_writes[1]
        BY <3>1 DEF Started
      <4> QED
        BY <3>1, <4>1 DEF Write, Client!Packet, Client!Ids
    <3>4. kind \in Kinds
      BY <3>3, SystemAssumption
    <3> QED
      BY <2>2, <3>2, <3>4 DEF Next
  <2> QED
    BY <1>2, <2>1, <2>2 DEF ClientWrites
<1>3. CASE ClientCloses
  BY <1>0, <1>3 DEF ClientCloses, Next
<1>4. CASE ConnectionBreaks
  <2>1. me # 0
    BY <1>4 DEF ConnectionBreaks, Client!ServerCloses, ClientInv
  <2> QED
    BY <1>0, <1>4, <2>1 DEF ConnectionBreaks, Next
<1>5. CASE OtherPeers
  <2>1. \A kind \in OtherKinds : kind \in Kinds
    BY SystemAssumption
  <2> QED
    BY <1>5, <2>1 DEF OtherPeers, Next
<1>6. CASE \/ ClientAlone \/ \E n \in 1 .. MaxLines + MaxNotices : ClientReceives(n)
           \/ \E s \in Sessions : ServerReaches(s)
           \/ UNCHANGED system_vars
  <2>1. UNCHANGED vars
    BY <1>6 DEF ClientAlone, ClientReceives, ServerReaches, system_vars
  <2> QED
    BY <2>1
<1>7. CASE \/ \E s \in Sessions : ServerWritten(s)
           \/ \E s \in Sessions, n \in 1 .. HeaderSize : ServerReceives(s, n)
           \/ ServerAlone
  BY <1>7 DEF ServerWritten, ServerReceives, ServerAlone, Next
<1> QED
  BY <1>1, <1>2, <1>3, <1>4, <1>5, <1>6, <1>7 DEF SystemNext

\* No more notices are made than chats are sent.
LEMMA SaidShort ==
    ASSUME Inv, OutInv, said \in Seq(Notice), SaidInv
    PROVE  Len(said) <= sends /\ Len(said) <= MaxNotices
<1> DEFINE f == [k \in 1 .. Len(said) |-> said[k].n]
<1>1. /\ Len(said) \in Nat /\ sends \in Nat /\ sends <= MaxSends /\ MaxSends <= MaxNotices
      /\ MaxSends \in Nat /\ MaxNotices \in Nat
  BY SystemAssumption, ServerAssumption DEF Inv, TypeOK, OutInv
<1>2. f \in Injection(1 .. Len(said), 1 .. sends)
  <2>1. \A k \in 1 .. Len(said) : said[k].n \in 1 .. sends
    BY DEF SaidInv
  <2>2. f \in [1 .. Len(said) -> 1 .. sends]
    BY <2>1
  <2>3. \A j, k \in 1 .. Len(said) : f[j] = f[k] => j = k
    BY DEF SaidInv
  <2> HIDE DEF f
  <2> QED
    BY <2>2, <2>3, Fun_IsInj
<1>3. Len(said) <= sends
  BY <1>1, <1>2, Fun_NatInjLeq DEF ExistsInjection
<1> QED
  BY <1>1, <1>3

\* Every step of the system is a step of the client beside a server as ChatClient
\* takes it to be, or none of the client.  The client gets the number of its
\* connection when it connects, and keeps it.
LEMMA ClientNext ==
    ASSUME SysInv, [SystemNext]_system_vars
    PROVE  /\ [Client!Next]_(Client!vars)
           /\ me' = me \/ (c_connect = "pending" /\ me' # 0)
           /\ c_connect' = "pending" => me' = me
           /\ c_socket' = "connected" => c_socket = "connected" \/ me' # 0
<1> USE DEF Client!io_vars, Client!main_vars, Client!client_vars, Client!server_vars
<1>0. /\ Inv /\ ClientInv /\ MeetingTypeOK /\ ReplyInv /\ SaidInv /\ NoticeInv /\ OutInv
      /\ arrived \in Nat
  BY DEF SysInv, MeetingInv, Inv, TypeOK
<1>1. CASE ClientAlone
  <2>1. \/ Client!GetLine \/ Client!EndOfInput \/ Client!is_connecting
        \/ Client!is_logged_in \/ Client!PostSend \/ Client!StopService \/ Client!Join
        \/ Client!HandleConnect \/ Client!HandleWrite \/ Client!RunReturns
    BY <1>1 DEF ClientAlone
  <2>2. Client!Next
    BY <2>1 DEF Client!Next
  <2>3. me' = me /\ c_socket' = c_socket
        /\ (c_connect' = c_connect \/ c_connect' = "done")
    BY <1>1, <2>1 DEF ClientAlone, meeting_vars, Client!GetLine, Client!EndOfInput,
        Client!is_connecting, Client!is_logged_in, Client!PostSend, Client!StopService,
        Client!Join, Client!HandleConnect, Client!HandleWrite, Client!RunReturns
  <2> QED
    BY <2>2, <2>3
<1>2. ASSUME NEW n \in 1 .. MaxLines + MaxNotices, ClientReceives(n)
      PROVE  Client!Next /\ me' = me /\ c_socket' = c_socket
  <2>1. Client!HandleReceive(n) /\ me' = me
    BY <1>2 DEF ClientReceives
  <2> QED
    BY <2>1 DEF Client!Next, Client!HandleReceive
<1>3. CASE ClientConnects
  <2>1. Client!ConnectCompletes /\ c_connect = "pending"
    BY <1>3 DEF ClientConnects, Client!ConnectCompletes
  <2>2. CASE c_connect' = "accepted" /\ me' = arrived + 1
    BY <1>0, <2>1, <2>2 DEF Client!Next
  <2>3. CASE c_connect' = "refused" /\ me' = me
    BY <2>1, <2>3 DEF Client!Next, Client!ConnectCompletes
  <2> QED
    BY <1>3, <2>2, <2>3 DEF ClientConnects
<1>4. CASE ClientWrites
  <2>1. Client!WriteCompletes /\ me' = me
    BY <1>4 DEF ClientWrites
  <2> QED
    BY <2>1 DEF Client!Next, Client!WriteCompletes
<1>5. CASE ClientCloses
  <2>1. (Client!CloseSocket \/ Client!HandleReceiveError) /\ me' = me
    BY <1>5 DEF ClientCloses, meeting_vars
  <2>2. c_socket' = "closed"
    BY <2>1 DEF Client!CloseSocket, Client!HandleReceiveError, Client!close
  <2> QED
    BY <2>1, <2>2 DEF Client!Next
<1>6. CASE ConnectionBreaks
  <2>1. Client!ServerCloses /\ me' = me
    BY <1>6 DEF ConnectionBreaks, meeting_vars
  <2> QED
    BY <2>1 DEF Client!Next, Client!ServerCloses
<1>7. ASSUME NEW s \in Sessions, ServerReaches(s)
      PROVE  Client!Next /\ UNCHANGED <<me, c_socket>>
  <2> DEFINE x == Head(writes[s])
  <2>1. /\ UNCHANGED <<c_io_vars, c_main_vars, c_other_vars, c_peer_closed, me>>
        /\ c_socket = "connected" /\ ~c_peer_closed
        /\ c_inbound' = Append(c_inbound, x.id)
        /\ c_answered' = IF x.id = "REPLY_LOGIN"
                         THEN c_answered \cup {i \in 1 .. Len(sent_by_me) :
                                                  sent_by_me[i] = x.n}
                         ELSE c_answered
        /\ c_notices' = IF x.id = "NOTICE_CHAT" THEN c_notices + 1 ELSE c_notices
    BY <1>7 DEF ServerReaches, Reachable
  <2>2. Going(s, x)
    BY <1>7, ReachedGoing DEF ServerReaches
  <2>3. x.id = "REPLY_LOGIN" \/ x \in Notice
    BY <1>0, <2>2 DEF OutInv, Going
  <2>4. x \in OutPacket
    BY <1>0, <2>2 DEF Inv, TypeOK, Going
  <2> HIDE DEF x
  <2>5. CASE x.id = "REPLY_LOGIN"
    <3>1. x.n \in 1 .. sends
          /\ \E i \in 1 .. Len(sent_by_me) :
                /\ sent_by_me[i] = x.n /\ c_written[i].id = "REQUEST_LOGIN"
                /\ i \notin c_answered
      BY <1>0, <2>2, <2>4, <2>5 DEF ReplyInv
    <3>2. PICK i \in 1 .. Len(sent_by_me) :
             sent_by_me[i] = x.n /\ c_written[i].id = "REQUEST_LOGIN" /\ i \notin c_answered
      BY <3>1
    <3>3. \A j, k \in 1 .. Len(sent_by_me) : sent_by_me[j] = sent_by_me[k] => j = k
      <4>1. SUFFICES ASSUME NEW j \in 1 .. Len(sent_by_me), NEW k \in 1 .. Len(sent_by_me),
                            sent_by_me[j] = sent_by_me[k], j # k
                     PROVE  FALSE
        OBVIOUS
      <4>2. sent_by_me[j] \in Nat /\ sent_by_me[k] \in Nat
        <5>1. sent_by_me \in Seq(1 .. sends)
          BY <1>0 DEF MeetingTypeOK
        <5>2. \A m \in 1 .. Len(sent_by_me) : sent_by_me[m] \in 1 .. sends
          BY <5>1, ElementOfSeq
        <5> QED
          BY <5>2
      <4>3. Len(sent_by_me) \in Nat
        <5>1. sent_by_me \in Seq(1 .. sends)
          BY <1>0 DEF MeetingTypeOK
        <5> QED
          BY <5>1
      <4>4. j < k \/ k < j
        BY <4>1, <4>3
      <4> QED
        BY <1>0, <4>1, <4>2, <4>4 DEF ReplyInv
    <3>4. {j \in 1 .. Len(sent_by_me) : sent_by_me[j] = x.n} = {i}
      BY <3>2, <3>3
    <3>5. i \in 1 .. Len(c_written) /\ i \in 1 .. MaxLines
      <4>1. Len(sent_by_me) = Len(c_written) /\ Len(c_written) \in Nat
        BY <1>0 DEF MeetingTypeOK, ClientInv, Client!TypeOK
      <4>2. Len(c_posted) \in Nat /\ c_lines \in 0 .. MaxLines /\ MaxLines \in Nat
        BY <1>0, SystemAssumption DEF ClientInv, Client!TypeOK
      <4>3. Len(c_written) <= Len(c_posted) /\ Len(c_posted) <= c_lines
        BY <1>0, <4>1, <4>2 DEF ClientInv, ClientCounts
      <4> QED
        BY <4>1, <4>2, <4>3
    <3>6. i \in Client!Logins(c_written) \ c_answered
      BY <3>2, <3>5 DEF Client!Logins
    <3>7. /\ c_inbound' = Append(c_inbound, "REPLY_LOGIN")
          /\ c_answered' = c_answered \cup {i} /\ c_notices' = c_notices
      BY <2>1, <2>5, <3>4
    <3>8. Client!ServerReplies(i)
      BY <2>1, <3>6, <3>7 DEF Client!ServerReplies, c_io_vars, c_main_vars, c_other_vars
    <3> QED
      BY <2>1, <3>5, <3>8 DEF Client!Next, c_io_vars
  <2>6. CASE x \in Notice
    <3>1. x.id = "NOTICE_CHAT"
      BY <2>6 DEF Notice
    <3>2. c_notices < MaxNotices
      <4>1. PICK k \in 1 .. Len(said) : said[k] = x
        BY <1>0, <2>2, <2>6 DEF NoticeInv, Made
      <4>2. c_notices < k /\ c_notices \in Nat
        BY <1>0, <2>2, <2>6, <4>1 DEF NoticeInv
      <4>3. Len(said) <= MaxNotices /\ Len(said) \in Nat /\ MaxNotices \in Nat
        BY <1>0, SaidShort, SystemAssumption DEF MeetingTypeOK
      <4> QED
        BY <4>1, <4>2, <4>3
    <3>3. Client!ServerNotifies
      BY <2>1, <3>1, <3>2 DEF Client!ServerNotifies, c_io_vars, c_main_vars, c_other_vars
    <3> QED
      BY <2>1, <3>3 DEF Client!Next, c_io_vars
  <2> QED
    BY <2>3, <2>5, <2>6
<1>8. CASE \/ \E s \in Sessions : ServerWritten(s)
           \/ \E s \in Sessions, n \in 1 .. HeaderSize : ServerReceives(s, n)
           \/ ServerAlone \/ OtherPeers
           \/ UNCHANGED system_vars
  <2>1. UNCHANGED client_vars /\ me' = me
    BY <1>8 DEF ServerWritten, ServerReceives, ServerAlone, OtherPeers, system_vars,
                meeting_vars
  <2>2. UNCHANGED Client!vars /\ c_socket' = c_socket
    BY <2>1 DEF Client!vars, client_vars, c_io_vars, c_main_vars, c_other_vars
  <2> QED
    BY <2>1, <2>2
<1> QED
  BY <1>1, <1>2, <1>3, <1>4, <1>5, <1>6, <1>7, <1>8 DEF SystemNext

\* Session s has received packet p, a login, which y answers, or a chat, which
\* every session it finds without a write under way begins to send as y.
ReceivesLogin(s, p, y) ==
    /\ p.id = "REQUEST_LOGIN" /\ y = ReplyTo(p)
    /\ last_login' = [last_login EXCEPT ![conn[s]] = p.n]
    /\ said' = said
    /\ \A t \in Sessions :
          \/ writes'[t] = writes[t]
          \/ t = s /\ writes[t] = << >> /\ Head(writes'[t]) = y
ReceivesChat(s, p, y) ==
    /\ p.id = "REQUEST_CHAT" /\ y = NoticeOf(s, p) /\ y \in Notice
    /\ last_login' = last_login
    /\ said' = Append(said, y)
    /\ \A t \in Sessions :
          \/ writes'[t] = writes[t]
          \/ writes[t] = << >> /\ Head(writes'[t]) = y

\* Session s has received a packet that its peer sent, for the first and last time;
\* what the peer sent after it is all there is to come.
Receives(s, p, y) ==
    /\ is_open[s] /\ conn[s] \in Connections /\ conn[s] \in 1 .. accepted
    /\ p \in InPacket /\ p.from = conn[s] /\ p.n \in 1 .. sends /\ y \in OutPacket
    /\ \E b \in Byte : Ahead(conn[s], b) /\ b[1] = p /\ b[2] = 1
    /\ \A m : m = p.n => ~Spent(m) /\ Spent(m)'
    /\ \A d \in Connections, b \in Byte :
          d = conn[s] /\ Ahead(d, b)' /\ b[2] = 1 => p.n < b[1].n
    /\ ReceivesLogin(s, p, y) \/ ReceivesChat(s, p, y)

\* A receive processes one packet or changes nothing outside the session's buffer.
LEMMA ReceiveFacts ==
    ASSUME Inv, NamesInv, WireInv, OutInv, NEW s \in Sessions, NEW n \in 1 .. HeaderSize,
           ServerReceives(s, n)
    PROVE  /\ UNCHANGED <<client_vars, me, sent_by_me, incoming, passed, shown, hurried,
                          is_open, conn, accepted, sends>>
           /\ \/ UNCHANGED <<writes, last_login, said>>
              \/ \E p \in InPacket, y \in OutPacket : Receives(s, p, y)
<1> DEFINE chunk == SubSeq(inbound[conn[s]], 1, n)
           p == header(PacketBytes(s, chunk))
<1>0. HandleReceive(s, n) /\ TypeOK /\ InBounds
  BY DEF ServerReceives, Inv
<1>1. UNCHANGED <<client_vars, me, sent_by_me, incoming, passed, shown, hurried,
                  is_open, conn, accepted, sends>>
  BY DEF ServerReceives, HandleReceive, socket_vars
<1>2. said' = IF Complete(s, chunk) /\ p.id = "REQUEST_CHAT"
              THEN Append(said, NoticeOf(s, p)) ELSE said
  BY DEF ServerReceives, NoticeOf
<1>3. CASE ~Complete(s, chunk)
  <2>1. UNCHANGED <<writes, last_login>>
    BY <1>0, <1>3 DEF HandleReceive, send_vars
  <2> QED
    BY <1>1, <1>2, <1>3, <2>1
<1>4. CASE Complete(s, chunk)
  <2>1. /\ p = FirstByte(s)[1] /\ FirstByte(s)[2] = 1
        /\ p \in InPacket /\ p.n \in 1 .. sends /\ p.from = conn[s]
        /\ \A m : m = p.n => ~Spent(m) /\ Spent(m)'
        /\ \A d \in Connections, b \in Byte :
              d = conn[s] /\ Ahead(d, b)' /\ b[2] = 1 => p.n < b[1].n
    BY <1>0, <1>4, ReceiveSpends
  <2>2. /\ is_open[s] /\ conn[s] \in Connections
        /\ Ahead(conn[s], FirstByte(s)) /\ FirstByte(s) \in Byte
    BY <1>0, ReceiveBytes
  <2>3. \A t \in Sessions :
           \/ writes'[t] = writes[t]
           \/ /\ writes[t] = << >>
              /\ \/ p.id = "REQUEST_LOGIN" /\ t = s /\ Head(writes'[t]) = ReplyTo(p)
                 \/ p.id = "REQUEST_CHAT" /\ Head(writes'[t]) = NoticeOf(s, p)
    BY <1>0, ReceiveWrites
  <2>4. /\ p.id \in {"REQUEST_LOGIN", "REQUEST_CHAT"}
        /\ last_login' = IF p.id = "REQUEST_LOGIN" THEN [last_login EXCEPT ![conn[s]] = p.n]
                         ELSE last_login
    <3>1. ~ShortHeader(s, chunk) /\ ~Refused(s, chunk) /\ ~Incomplete(s, chunk)
      <4> DEFINE size == packet_data_size(s, chunk)
                 h == header(Filled(s, chunk))
      <4>1. size \in Nat /\ Filled(s, chunk)[1] = FirstByte(s)
        BY <1>0, ReceiveBytes
      <4>2. h \in InPacket
        BY <2>1, <4>1 DEF header
      <4>3. get_packet_size(h) \in Nat
        BY <4>2, HeaderSizeAssumption DEF get_packet_size, InPacket
      <4>4. size >= HeaderSize /\ HeaderPasses(s, chunk) /\ get_packet_size(h) <= size
        BY <1>4 DEF Complete
      <4> HIDE DEF size, h
      <4>5. ~(size < HeaderSize) /\ ~(get_packet_size(h) > size)
        BY <4>1, <4>3, <4>4, HeaderSizeAssumption
      <4> QED
        BY <4>4, <4>5 DEF ShortHeader, Refused, Incomplete, size, h
    <3>2. /\ process_packet(s, p)
          /\ last_login' = IF p.id = "REQUEST_LOGIN" THEN [last_login EXCEPT ![conn[s]] = p.n]
                         ELSE last_login
      BY <1>0, <3>1 DEF HandleReceive
    <3> QED
      BY <3>2 DEF process_packet
  <2>5. conn[s] \in 1 .. accepted
    BY <1>0, <2>2 DEF InBounds
  <2>6. p.from \in Connections /\ NoticeOf(s, p) \in Notice
    BY <1>0, <1>4, NoticeTyped
  <2>7. ReplyTo(p) \in OutPacket /\ NoticeOf(s, p) \in OutPacket
    BY <1>0, <2>1 DEF ReplyTo, NoticeOf, InPacket, OutPacket, PacketIds, TypeOK
  <2> HIDE DEF p, chunk
  <2>8. \E b \in Byte : Ahead(conn[s], b) /\ b[1] = p /\ b[2] = 1
    BY <2>1, <2>2
  <2>9. CASE p.id = "REQUEST_LOGIN"
    <3>1. said' = said /\ last_login' = [last_login EXCEPT ![conn[s]] = p.n]
      BY <1>2, <2>4, <2>9
    <3>2. ReceivesLogin(s, p, ReplyTo(p))
      BY <2>3, <2>9, <3>1 DEF ReceivesLogin
    <3>3. Receives(s, p, ReplyTo(p))
      BY <2>1, <2>2, <2>5, <2>7, <2>8, <3>2 DEF Receives
    <3> QED
      BY <1>1, <2>1, <2>7, <3>3
  <2>10. CASE p.id = "REQUEST_CHAT"
    <3>1. said' = Append(said, NoticeOf(s, p)) /\ last_login' = last_login
      BY <1>2, <1>4, <2>4, <2>10
    <3>2. ReceivesChat(s, p, NoticeOf(s, p))
      BY <2>3, <2>6, <2>10, <3>1 DEF ReceivesChat
    <3>3. Receives(s, p, NoticeOf(s, p))
      BY <2>1, <2>2, <2>5, <2>7, <2>8, <3>2 DEF Receives
    <3> QED
      BY <1>1, <2>1, <2>7, <3>3
  <2> QED
    BY <2>4, <2>9, <2>10
<1> QED
  BY <1>3, <1>4

\* What is to be sent to the client is what was to be sent before, or what a
\* packet just received is answered with.
LEMMA GoingStep ==
    ASSUME SysInv, [SystemNext]_system_vars,
           NEW s \in Sessions, NEW x \in OutPacket, Going(s, x)'
    PROVE  \/ Going(s, x)
           \/ \E t \in Sessions, n \in 1 .. HeaderSize, p \in InPacket :
                 /\ ServerReceives(t, n) /\ Receives(t, p, x)
                 /\ is_open[s] /\ conn[s] = me
                 /\ x.id = "REPLY_LOGIN" => t = s /\ ReceivesLogin(t, p, x)
<1>0. /\ Inv /\ NamesInv /\ WireInv /\ OutInv /\ ClientInv /\ MeetingTypeOK
      /\ TypeOK /\ InBounds
  BY DEF SysInv, MeetingInv, Inv
<1>1. CASE UNCHANGED <<is_open, conn, writes, me>> /\ passed \subseteq passed'
  BY <1>1 DEF Going
<1>2. CASE ClientConnects
  <2>1. UNCHANGED <<is_open, conn, writes, passed>>
    BY <1>2 DEF ClientConnects, Connect, socket_vars, send_vars, vars
  <2>2. CASE me' = me
    BY <1>1, <2>1, <2>2
  <2>3. CASE me' = arrived + 1
    <3>1. is_open[s] /\ conn[s] = arrived + 1
      BY <2>1, <2>3 DEF Going
    <3>2. conn[s] \in 1 .. accepted /\ accepted <= arrived
      BY <1>0, <3>1 DEF InBounds
    <3>3. accepted \in Nat /\ arrived \in Nat
      BY <1>0 DEF TypeOK
    <3> QED
      BY <3>1, <3>2, <3>3
  <2> QED
    BY <1>2, <2>2, <2>3 DEF ClientConnects
<1>3. CASE \/ ClientAlone \/ \E n \in 1 .. MaxLines + MaxNotices : ClientReceives(n)
           \/ ClientWrites \/ ClientCloses \/ ConnectionBreaks \/ OtherPeers
           \/ UNCHANGED system_vars
  <2>1. UNCHANGED vars \/ UNCHANGED <<socket_vars, send_vars>>
    BY <1>3 DEF ClientAlone, ClientReceives, ClientWrites, ClientCloses, ConnectionBreaks,
                OtherPeers, system_vars, PeerSend, PeerClose, Connect
  <2>2. UNCHANGED <<me, passed>>
    BY <1>3 DEF ClientAlone, ClientReceives, ClientWrites, ClientCloses, ConnectionBreaks,
                OtherPeers, system_vars, meeting_vars
  <2>3. UNCHANGED <<is_open, conn, writes>>
    BY <2>1 DEF vars, socket_vars, send_vars
  <2> QED
    BY <1>1, <2>2, <2>3
<1>4. ASSUME NEW t \in Sessions, ServerReaches(t)
      PROVE  Going(s, x)
  <2>1. UNCHANGED <<is_open, conn, writes, me>> /\ passed \subseteq passed'
    BY <1>4 DEF ServerReaches, vars, socket_vars, send_vars
  <2> QED
    BY <2>1 DEF Going
<1>5. ASSUME NEW t \in Sessions, ServerWritten(t)
      PROVE  Going(s, x)
  <2>1. /\ HandleWrite(t) /\ passed' = passed \ {t}
        /\ UNCHANGED <<is_open, conn, me>>
    BY <1>5 DEF ServerWritten, HandleWrite, socket_vars
  <2>2. writes'[t] = << >> /\ (s # t => writes'[s] = writes[s])
    BY <1>0, <2>1, WrittenEmpties
  <2>3. writes'[s] # << >>
    BY DEF Going
  <2>4. s # t
    BY <2>2, <2>3
  <2> QED
    BY <2>1, <2>2, <2>4 DEF Going
<1>6. ASSUME NEW t \in Sessions, NEW n \in 1 .. HeaderSize, ServerReceives(t, n)
      PROVE  \/ Going(s, x)
             \/ \E p \in InPacket :
                   /\ Receives(t, p, x)
                   /\ is_open[s] /\ conn[s] = me
                   /\ x.id = "REPLY_LOGIN" => t = s /\ ReceivesLogin(t, p, x)
  <2>1. /\ UNCHANGED <<is_open, conn, me, passed>>
        /\ \/ UNCHANGED writes
           \/ \E p \in InPacket, y \in OutPacket : Receives(t, p, y)
    BY <1>0, <1>6, ReceiveFacts
  <2>2. is_open[s] /\ conn[s] = me /\ s \notin passed
        /\ writes'[s] # << >> /\ Head(writes'[s]) = x
    BY <2>1 DEF Going
  <2>3. CASE writes'[s] = writes[s]
    BY <2>2, <2>3 DEF Going
  <2>4. CASE writes'[s] # writes[s]
    <3>1. PICK p \in InPacket, y \in OutPacket : Receives(t, p, y)
      BY <2>1, <2>4
    <3>2. CASE ReceivesLogin(t, p, y)
      <4>1. s = t /\ y = x
        BY <2>2, <2>4, <3>2 DEF ReceivesLogin
      <4> QED
        BY <2>2, <3>1, <3>2, <4>1
    <3>3. CASE ReceivesChat(t, p, y)
      <4>1. y = x /\ x.id = "NOTICE_CHAT"
        BY <2>2, <2>4, <3>3 DEF ReceivesChat, NoticeOf
      <4> QED
        BY <2>2, <3>1, <4>1
    <3> QED
      BY <3>1, <3>2, <3>3 DEF Receives
  <2> QED
    BY <2>3, <2>4
<1>7. CASE ServerAlone
  <2>1. UNCHANGED <<me, passed>>
    BY <1>7 DEF ServerAlone, meeting_vars
  <2>2. CASE RunReturns
    BY <1>1, <2>1, <2>2 DEF RunReturns, socket_vars, send_vars
  <2>3. ASSUME NEW t \in Sessions, HandleAccept(t)
        PROVE  Going(s, x)
    <3>1. /\ writes[t] = << >> /\ writes' = writes
          /\ conn' = [conn EXCEPT ![t] = accepted + 1]
          /\ is_open' = [is_open EXCEPT ![t] = TRUE]
      BY <2>3 DEF HandleAccept, send_vars
    <3>2. s # t
      BY <3>1 DEF Going
    <3>3. conn'[s] = conn[s] /\ is_open'[s] = is_open[s]
      BY <1>0, <3>1, <3>2 DEF TypeOK
    <3> QED
      BY <2>1, <3>1, <3>3 DEF Going
  <2>4. ASSUME NEW t \in Sessions, HandleAcceptError(t)
        PROVE  Going(s, x)
    BY <1>1, <2>1, <2>4 DEF HandleAcceptError, socket_vars, send_vars, Going
  <2>5. ASSUME NEW t \in Sessions, HandleReceiveError(t)
        PROVE  Going(s, x)
    <3>1. is_open' = [is_open EXCEPT ![t] = FALSE] /\ UNCHANGED <<conn, writes>>
      BY <2>5 DEF HandleReceiveError, close_session, send_vars
    <3>2. is_open'[s] => is_open[s]
      BY <1>0, <3>1 DEF TypeOK
    <3> QED
      BY <2>1, <3>1, <3>2 DEF Going
  <2> QED
    BY <1>7, <2>2, <2>3, <2>4, <2>5 DEF ServerAlone
<1> QED
  BY <1>2, <1>3, <1>4, <1>5, <1>6, <1>7 DEF SystemNext

\* What only grows.
LEMMA Grows ==
    ASSUME Inv, [Next]_vars
    PROVE  /\ arrived \in Nat /\ arrived' \in Nat /\ arrived <= arrived'
           /\ accepted \in Nat /\ accepted' \in Nat /\ accepted <= accepted'
           /\ sends \in Nat /\ sends' \in Nat /\ sends <= sends'
<1>0. arrived \in Nat /\ accepted \in Nat /\ sends \in Nat
  BY DEF Inv, TypeOK
<1>1. CASE Connect
  BY <1>0, <1>1 DEF Connect, socket_vars, history_vars
<1>2. ASSUME NEW c \in Connections, NEW kind \in Kinds, PeerSend(c, kind)
      PROVE  /\ sends' = sends + 1
             /\ UNCHANGED <<arrived, accepted>>
  BY <1>2 DEF PeerSend, socket_vars, history_vars
<1>3. ASSUME NEW s \in Sessions, HandleAccept(s)
      PROVE  /\ accepted' = accepted + 1
             /\ UNCHANGED <<arrived, sends>>
  BY <1>3 DEF HandleAccept, peer_vars, history_vars
<1>4. ASSUME NEW s \in Sessions, NEW n \in 1 .. HeaderSize, HandleReceive(s, n)
      PROVE  UNCHANGED <<arrived, accepted, sends>>
  BY <1>4 DEF HandleReceive, socket_vars
<1>5. CASE \/ \E c \in Connections : PeerClose(c)
           \/ \E s \in Sessions : HandleAcceptError(s) \/ HandleReceiveError(s) \/ HandleWrite(s)
           \/ RunReturns
           \/ UNCHANGED vars
  <2>1. UNCHANGED <<arrived, accepted, sends>>
    BY <1>5 DEF PeerClose, HandleAcceptError, HandleReceiveError, HandleWrite, RunReturns,
                vars, peer_vars, socket_vars, history_vars
  <2> QED
    BY <1>0, <2>1
<1> QED
  BY <1>0, <1>1, <1>2, <1>3, <1>4, <1>5 DEF Next

\* Where nobody sends, no byte gets ahead.
LEMMA AheadShrinks ==
    ASSUME Inv, NamesInv, WireInv, [Next]_vars, sends' = sends
    PROVE  \A d \in Connections, b \in Byte : Ahead(d, b)' => Ahead(d, b)
<1>1. \A c, kind : ~PeerSend(c, kind)
  <2>1. sends \in Nat
    BY DEF Inv, TypeOK
  <2> QED
    BY <2>1 DEF PeerSend
<1> QED
  BY <1>1, WireStep

\* Steps that leave alone what lies between the client and the server, but for
\* what they lose.
Apart ==
    /\ UNCHANGED <<me, incoming, said, shown, sent_by_me, c_inbound, c_notices,
                   c_answered, c_written, last_login>>
    /\ passed' \subseteq passed /\ hurried' \in BOOLEAN
    /\ \A s \in Sessions, x \in OutPacket : Going(s, x)' => Going(s, x)
    /\ \A c \in Connections, b \in Byte : c = me => (Ahead(c, b)' => Ahead(c, b))

\* All the others.
Meets ==
    \/ \E n \in 1 .. MaxLines + MaxNotices : ClientReceives(n)
    \/ ClientConnects /\ Connect /\ me' = arrived + 1
    \/ ClientWrites /\ c_written' # c_written
    \/ \E s \in Sessions : ServerReaches(s)
    \/ \E s \in Sessions, n \in 1 .. HeaderSize, p \in InPacket, y \in OutPacket :
          ServerReceives(s, n) /\ Receives(s, p, y)

\* Every step of the two is a step apart, on one side only, or a step in which they
\* meet on the connection.
LEMMA MeetingSteps ==
    ASSUME SysInv, [SystemNext]_system_vars
    PROVE  Apart \/ Meets
<1> USE DEF Client!io_vars, Client!main_vars, Client!client_vars, Client!server_vars
<1>0. /\ Inv /\ NamesInv /\ WireInv /\ OutInv /\ ClientInv /\ MeetingTypeOK
      /\ [Next]_vars
  <2>1. Inv /\ NamesInv /\ WireInv /\ OutInv /\ ClientInv /\ MeetingTypeOK
    BY DEF SysInv, MeetingInv
  <2> QED
    BY <2>1, ServerStep DEF MeetingTypeOK
<1> DEFINE Kept == UNCHANGED <<me, incoming, said, shown, sent_by_me, c_inbound, c_notices,
                               c_answered, c_written, last_login>>
           Lost == \A s \in Sessions, x \in OutPacket : Going(s, x)' => Going(s, x)
           Read == \A c \in Connections, b \in Byte : c = me => (Ahead(c, b)' => Ahead(c, b))
<1>1. hurried \in BOOLEAN
  BY <1>0 DEF MeetingTypeOK
<1>2. (\A t \in Sessions, n \in 1 .. HeaderSize, p \in InPacket, x \in OutPacket :
          ~(ServerReceives(t, n) /\ Receives(t, p, x)))
      => Lost
  BY GoingStep
<1>3. sends' = sends => Read
  BY <1>0, AheadShrinks
<1>4. ASSUME Kept, passed' \subseteq passed, hurried' \in BOOLEAN, Read
      PROVE  Apart \/ Meets
  <2>1. CASE Lost
    BY <1>4, <2>1 DEF Apart
  <2>2. CASE ~Lost
    BY <1>2, <2>2 DEF Meets
  <2> QED
    BY <2>1, <2>2
<1> HIDE DEF Kept, Lost, Read
<1>5. ASSUME UNCHANGED <<meeting_vars, last_login, sends>>,
             UNCHANGED <<c_inbound, c_notices, c_answered, c_written>>
      PROVE  Apart \/ Meets
  <2>1. Kept /\ passed' = passed /\ hurried' = hurried
    BY <1>5 DEF Kept, meeting_vars
  <2> QED
    BY <1>1, <1>3, <1>4, <1>5, <2>1
<1>6. CASE ClientAlone
  <2>1. UNCHANGED <<c_inbound, c_notices, c_answered, c_written>>
    BY <1>6 DEF ClientAlone, Client!GetLine, Client!EndOfInput, Client!is_connecting,
        Client!is_logged_in, Client!PostSend, Client!StopService, Client!Join,
        Client!HandleConnect, Client!HandleWrite, Client!RunReturns
  <2>2. UNCHANGED <<meeting_vars, last_login, sends>>
    BY <1>6 DEF ClientAlone, vars, history_vars, peer_vars
  <2> QED
    BY <1>5, <2>1, <2>2
<1>7. CASE ClientConnects
  <2>1. CASE Connect /\ me' = arrived + 1
    BY <1>7, <2>1 DEF Meets
  <2>2. CASE UNCHANGED <<vars, me>>
    <3>1. UNCHANGED <<meeting_vars, last_login, sends>>
      BY <1>7, <2>2 DEF ClientConnects, meeting_vars, vars, history_vars, peer_vars
    <3>2. UNCHANGED <<c_inbound, c_notices, c_answered, c_written>>
      BY <1>7 DEF ClientConnects, Client!ConnectCompletes
    <3> QED
      BY <1>5, <3>1, <3>2
  <2> QED
    BY <1>7, <2>1, <2>2 DEF ClientConnects
<1>8. CASE ClientWrites
  <2>1. CASE c_written' # c_written
    BY <1>8, <2>1 DEF Meets
  <2>2. CASE c_written' = c_written
    <3>1. UNCHANGED <<c_inbound, c_notices, c_answered, c_written>>
      BY <1>8, <2>2 DEF ClientWrites, Client!WriteCompletes
    <3>2. UNCHANGED <<meeting_vars, vars>>
      BY <1>8, <2>2 DEF ClientWrites, meeting_vars
    <3>3. UNCHANGED <<meeting_vars, last_login, sends>>
      BY <3>2 DEF vars, history_vars, peer_vars
    <3> QED
      BY <1>5, <3>1, <3>3
  <2> QED
    BY <2>1, <2>2
<1>9. CASE ClientCloses \/ ConnectionBreaks
  <2>1. UNCHANGED <<c_inbound, c_notices, c_answered, c_written>>
    BY <1>9 DEF ClientCloses, ConnectionBreaks, Client!CloseSocket, Client!HandleReceiveError,
                Client!ServerCloses
  <2>2. UNCHANGED <<meeting_vars, last_login, sends>>
    BY <1>9 DEF ClientCloses, ConnectionBreaks, PeerClose, vars, history_vars, peer_vars
  <2> QED
    BY <1>5, <2>1, <2>2
<1>10. CASE \E s \in Sessions : ServerWritten(s)
  <2>1. /\ UNCHANGED <<me, incoming, said, shown, sent_by_me, hurried, last_login, sends>>
        /\ passed' \subseteq passed
    BY <1>10 DEF ServerWritten, HandleWrite, history_vars, peer_vars
  <2>2. UNCHANGED <<c_inbound, c_notices, c_answered, c_written>>
    BY <1>10 DEF ServerWritten, client_vars, c_other_vars
  <2>3. Kept
    BY <2>1, <2>2 DEF Kept
  <2> QED
    BY <1>1, <1>3, <1>4, <2>1, <2>3
<1>11. ASSUME NEW s \in Sessions, NEW n \in 1 .. HeaderSize, ServerReceives(s, n)
       PROVE  Apart \/ Meets
  <2>1. CASE \E p \in InPacket, y \in OutPacket : Receives(s, p, y)
    BY <1>11, <2>1 DEF Meets
  <2>2. CASE UNCHANGED <<writes, last_login, said>>
    <3>1. UNCHANGED <<client_vars, me, sent_by_me, incoming, passed, shown, hurried, sends>>
      BY <1>0, <1>11, ReceiveFacts
    <3>2. UNCHANGED <<meeting_vars, last_login, sends>>
      BY <2>2, <3>1 DEF meeting_vars
    <3>3. UNCHANGED <<c_inbound, c_notices, c_answered, c_written>>
      BY <3>1 DEF client_vars, c_other_vars
    <3> QED
      BY <1>5, <3>2, <3>3
  <2> QED
    BY <1>0, <1>11, <2>1, <2>2, ReceiveFacts
<1>12. CASE ServerAlone \/ UNCHANGED system_vars
  <2>1. UNCHANGED <<client_vars, meeting_vars, last_login, sends>>
    BY <1>12 DEF ServerAlone, system_vars, vars, history_vars, peer_vars, HandleAccept,
                 HandleAcceptError, HandleReceiveError, RunReturns
  <2>2. UNCHANGED <<c_inbound, c_notices, c_answered, c_written>>
    BY <2>1 DEF client_vars, c_other_vars
  <2> QED
    BY <1>5, <2>1, <2>2
<1>13. CASE OtherPeers
  <2>1. /\ UNCHANGED <<client_vars, me, sent_by_me, incoming, passed, said, shown, last_login>>
        /\ hurried' \in BOOLEAN
        /\ \/ sends' = sends
           \/ \E c \in Connections \ {me}, kind \in OtherKinds : PeerSend(c, kind)
    <3>1. UNCHANGED <<client_vars, me, sent_by_me, incoming, passed, said, shown, last_login>>
      BY <1>13 DEF OtherPeers, Connect, PeerSend, PeerClose, history_vars
    <3>2. hurried' = hurried \/ hurried' = (hurried \/ ~Calm)
      BY <1>13 DEF OtherPeers
    <3>3. \/ sends' = sends
          \/ \E c \in Connections \ {me}, kind \in OtherKinds : PeerSend(c, kind)
      BY <1>13 DEF OtherPeers, Connect, PeerClose
    <3>4. hurried' \in BOOLEAN
      BY <1>1, <3>2
    <3> QED
      BY <3>1, <3>3, <3>4
  <2>2. Kept
    <3>1. UNCHANGED <<c_inbound, c_notices, c_answered, c_written>>
      BY <2>1 DEF client_vars, c_other_vars
    <3> QED
      BY <2>1, <3>1 DEF Kept
  <2>3. Read
    <3>1. ASSUME NEW c \in Connections \ {me}, NEW kind \in OtherKinds, PeerSend(c, kind)
          PROVE  Read
      <4>1. kind \in Kinds
        BY SystemAssumption
      <4>2. \A d \in Connections, b \in Byte :
               Ahead(d, b)' => Ahead(d, b) \/ (d = c /\ b[1] = Sent(c, kind))
        BY <1>0, <3>1, <4>1, SendWire
      <4> QED
        BY <4>2 DEF Read
    <3> QED
      BY <1>3, <2>1, <3>1
  <2> QED
    BY <1>4, <2>1, <2>2, <2>3
<1> QED
  BY <1>6, <1>7, <1>8, <1>9, <1>10, <1>11, <1>12, <1>13 DEF SystemNext, Meets

\* What is left of a sequence when its first n elements are taken.
LEMMA RestOf ==
    ASSUME NEW S, NEW q \in Seq(S), NEW n \in Nat, n <= Len(q)
    PROVE  /\ SubSeq(q, n + 1, Len(q)) \in Seq(S)
           /\ Len(SubSeq(q, n + 1, Len(q))) = Len(q) - n
           /\ \A i \in 1 .. Len(q) - n : SubSeq(q, n + 1, Len(q))[i] = q[n + i]
OBVIOUS

\* The client takes the front of what comes to it.
LEMMA ClientReceiveFacts ==
    ASSUME SysInv, NEW n \in 1 .. MaxLines + MaxNotices, ClientReceives(n)
    PROVE  /\ n \in 1 .. Len(incoming) /\ Len(incoming) \in Nat
           /\ incoming' \in Seq(OutPacket) /\ Len(incoming') = Len(incoming) - n
           /\ \A i \in 1 .. Len(incoming') : incoming'[i] = incoming[n + i]
           /\ c_inbound' = [i \in 1 .. Len(incoming') |-> incoming'[i].id]
           /\ \/ shown' = shown
              \/ /\ incoming[1] \in Notice
                 /\ shown' = Append(shown, incoming[1])
           /\ c_is_logged_in_' => c_is_logged_in_ \/ incoming[1].id = "REPLY_LOGIN"
           /\ UNCHANGED <<vars, me, sent_by_me, passed, said, hurried, c_notices, c_answered,
                          c_written, c_writes, c_main, c_id>>
<1> USE DEF Client!io_vars, Client!main_vars, Client!client_vars, Client!server_vars
<1> DEFINE L == Len(incoming)
<1>1. /\ incoming \in Seq(OutPacket) /\ L \in Nat /\ n \in Nat \ {0}
      /\ c_inbound = [i \in 1 .. L |-> incoming[i].id]
      /\ \A i \in 1 .. L : incoming[i].id = "REPLY_LOGIN" \/ incoming[i] \in Notice
  BY SystemAssumption DEF SysInv, MeetingInv, MeetingTypeOK
<1>2. c_inbound \in Seq({"REPLY_LOGIN", "NOTICE_CHAT"}) /\ Len(c_inbound) = L
  <2>1. c_inbound \in Seq({"REPLY_LOGIN", "NOTICE_CHAT"})
    BY DEF SysInv, ClientInv, Client!TypeOK
  <2>2. DOMAIN c_inbound = 1 .. L
    BY <1>1
  <2> QED
    BY <1>1, <2>1, <2>2, LenProperties
<1>3. /\ n <= L /\ c_inbound' = SubSeq(c_inbound, n + 1, L)
      /\ incoming' = SubSeq(incoming, L - Len(c_inbound') + 1, L)
  BY <1>2 DEF ClientReceives, Client!HandleReceive
<1> HIDE DEF L
<1>4. Len(c_inbound') = L - n
  BY <1>1, <1>2, <1>3, RestOf
<1>5. incoming' = SubSeq(incoming, n + 1, L)
  <2>1. L - (L - n) + 1 = n + 1
    BY <1>1
  <2> QED
    BY <1>3, <1>4, <2>1
<1>6. /\ incoming' \in Seq(OutPacket) /\ Len(incoming') = L - n
      /\ \A i \in 1 .. L - n : incoming'[i] = incoming[n + i]
  <2>1. n \in Nat /\ n <= Len(incoming) /\ incoming \in Seq(OutPacket)
    BY <1>1, <1>3 DEF L
  <2>2. /\ SubSeq(incoming, n + 1, Len(incoming)) \in Seq(OutPacket)
        /\ Len(SubSeq(incoming, n + 1, Len(incoming))) = Len(incoming) - n
        /\ \A i \in 1 .. Len(incoming) - n :
              SubSeq(incoming, n + 1, Len(incoming))[i] = incoming[n + i]
    BY <2>1, RestOf
  <2> QED
    BY <1>5, <2>2 DEF L
<1>7. /\ c_inbound' \in Seq({"REPLY_LOGIN", "NOTICE_CHAT"})
      /\ \A i \in 1 .. L - n : c_inbound'[i] = c_inbound[n + i]
  BY <1>1, <1>2, <1>3, RestOf
<1>8. \A i \in 1 .. L - n : n + i \in 1 .. L
  BY <1>1, <1>3
<1>9. c_inbound' = [i \in 1 .. L - n |-> incoming'[i].id]
  <2>2. c_inbound' = [i \in 1 .. L - n |-> c_inbound'[i]]
    BY <1>4, <1>7
  <2>3. \A i \in 1 .. L - n : c_inbound'[i] = incoming'[i].id
    BY <1>1, <1>6, <1>7, <1>8
  <2> QED
    BY <2>2, <2>3
<1>10. \/ shown' = shown
       \/ incoming[1] \in Notice /\ shown' = Append(shown, incoming[1])
  <2>1. 1 \in 1 .. L
    BY <1>1, <1>3
  <2>2. incoming[1].id = "NOTICE_CHAT" => incoming[1] \in Notice
    BY <1>1, <2>1
  <2> QED
    BY <2>2 DEF ClientReceives
<1>11. c_is_logged_in_' => c_is_logged_in_ \/ incoming[1].id = "REPLY_LOGIN"
  <2>1. 1 \in 1 .. L /\ Head(c_inbound) = c_inbound[1]
    BY <1>1, <1>2, <1>3
  <2>2. Head(c_inbound) = incoming[1].id
    BY <1>1, <2>1
  <2> QED
    BY <2>2 DEF ClientReceives, Client!HandleReceive, Client!process_packet
<1>12. UNCHANGED <<vars, me, sent_by_me, passed, said, hurried, c_notices, c_answered,
                   c_written, c_writes, c_main, c_id>>
  BY DEF ClientReceives, Client!HandleReceive
<1>13. n \in 1 .. L
  BY <1>1, <1>3
<1> QED
  BY <1>1, <1>6, <1>9, <1>10, <1>11, <1>12, <1>13 DEF L

\* What reaches the client was on its way to it, from the one session that serves
\* it, and leaves nothing behind.
LEMMA ReachesFacts ==
    ASSUME SysInv, NEW s \in Sessions, ServerReaches(s)
    PROVE  /\ \E x \in OutPacket :
                 /\ Going(s, x)
                 /\ x.id = "REPLY_LOGIN" \/ (x \in Notice /\ x.id = "NOTICE_CHAT")
                 /\ incoming' = Append(incoming, x) /\ c_inbound' = Append(c_inbound, x.id)
                 /\ c_answered' = IF x.id = "REPLY_LOGIN"
                                  THEN c_answered \cup {i \in 1 .. Len(sent_by_me) :
                                                           sent_by_me[i] = x.n}
                                  ELSE c_answered
                 /\ c_notices' = IF x.id = "NOTICE_CHAT" THEN c_notices + 1 ELSE c_notices
           /\ \A t \in Sessions, y \in OutPacket : ~Going(t, y)'
           /\ passed' = passed \cup {s}
           /\ UNCHANGED <<vars, me, sent_by_me, said, shown, hurried, c_written,
                          c_is_logged_in_, c_writes, c_main, c_id>>
<1> DEFINE x == Head(writes[s])
<1>0. Inv /\ NamesInv /\ OutInv
  BY DEF SysInv
<1>1. Going(s, x)
  BY ReachedGoing DEF ServerReaches
<1>2. x \in OutPacket
  BY <1>0, <1>1 DEF Inv, TypeOK, Going
<1>3. x.id = "REPLY_LOGIN" \/ (x \in Notice /\ x.id = "NOTICE_CHAT")
  BY <1>0, <1>1 DEF OutInv, Going, Notice
<1>4. /\ passed' = passed \cup {s}
      /\ UNCHANGED <<vars, me, sent_by_me, said, shown, hurried, c_written,
                     c_is_logged_in_, c_writes, c_main, c_id>>
  BY DEF ServerReaches, c_io_vars, c_main_vars, c_other_vars
<1>5. ASSUME NEW t \in Sessions, NEW y \in OutPacket, Going(t, y)'
      PROVE  FALSE
  <2>1. UNCHANGED <<is_open, conn, me>>
    BY <1>4 DEF vars, socket_vars
  <2>2. is_open[t] /\ conn[t] = me /\ t # s
    BY <1>4, <1>5, <2>1 DEF Going
  <2> QED
    BY <1>0, <1>1, <2>2 DEF Going, NamesInv, ServesAlone
<1> QED
  BY <1>1, <1>2, <1>3, <1>4, <1>5 DEF ServerReaches

\* What the client writes is the last packet that was sent.
LEMMA WritesFacts ==
    ASSUME SysInv, ClientWrites, c_written' # c_written
    PROVE  /\ me \in Connections
           /\ c_writes[1] \in Write /\ c_writes # << >> /\ 1 \in 1 .. Len(c_writes)
           /\ c_written' = Append(c_written, c_writes[1].packet)
           /\ sent_by_me' = Append(sent_by_me, sends + 1) /\ sends' = sends + 1
           /\ hurried' \in BOOLEAN
           /\ UNCHANGED <<me, incoming, passed, said, shown, last_login, accepted,
                          c_inbound, c_notices, c_answered>>
           /\ \A t \in Sessions, y \in OutPacket : Going(t, y)' => Going(t, y)
           /\ \A d \in Connections, b \in Byte :
                 Ahead(d, b)' => \/ Ahead(d, b)
                                 \/ b[1].n = sends + 1 /\ b[1].id = c_writes[1].packet.id
           /\ \A m : m = sends + 1 => \A d \in Connections, b \in Byte :
                 Ahead(d, b) => b[1].n # m
<1> USE DEF Client!io_vars, Client!main_vars, Client!client_vars, Client!server_vars
<1> DEFINE kind == [id |-> Head(c_writes).packet.id, content_size |-> ContentSize]
<1>0. /\ Inv /\ NamesInv /\ WireInv /\ ClientInv /\ MeetingTypeOK
      /\ sends \in Nat
  BY DEF SysInv, MeetingInv, Inv, TypeOK
<1>1. /\ Client!WriteCompletes /\ PeerSend(me, kind)
      /\ sent_by_me' = Append(sent_by_me, sends + 1)
      /\ hurried' = (hurried \/ ~Calm)
      /\ UNCHANGED <<me, incoming, passed, said, shown>>
  BY DEF ClientWrites
<1>2. /\ c_writes[1] \in Write /\ c_writes # << >> /\ 1 \in 1 .. Len(c_writes)
      /\ Head(c_writes) = c_writes[1] /\ c_writes[1].state = "started"
  <2>1. c_writes \in Seq(Write) /\ c_writes # << >> /\ Head(c_writes).state = "started"
    BY <1>0, <1>1 DEF Client!WriteCompletes, ClientInv, Client!TypeOK, Write
  <2> QED
    BY <2>1
<1>3. me \in Connections
  <2>1. me # 0
    BY <1>0, <1>2 DEF ClientInv, Started
  <2>2. arrived <= MaxConnections /\ arrived \in Nat /\ MaxConnections \in Nat
    BY <1>0, ServerAssumption DEF Inv, TypeOK, InBounds
  <2> QED
    BY <1>0, <2>1, <2>2 DEF Connections, MeetingTypeOK
<1>4. kind \in Kinds
  <2>1. c_writes[1].packet.id \in {"REQUEST_LOGIN", "REQUEST_CHAT"}
    BY <1>2 DEF Write, Client!Packet, Client!Ids
  <2> QED
    BY <1>2, <2>1, SystemAssumption
<1>5. c_written' = Append(c_written, c_writes[1].packet)
  BY <1>1, <1>2 DEF Client!WriteCompletes
<1>6. /\ sends' = sends + 1
      /\ UNCHANGED <<is_open, conn, writes, last_login, accepted>>
  BY <1>1 DEF PeerSend, socket_vars, send_vars, history_vars
<1>7. UNCHANGED <<c_inbound, c_notices, c_answered>>
  BY <1>1 DEF Client!WriteCompletes
<1>8. \A t \in Sessions, y \in OutPacket : Going(t, y)' => Going(t, y)
  BY <1>1, <1>6 DEF Going
<1>9. \A d \in Connections, b \in Byte :
         Ahead(d, b)' => \/ Ahead(d, b)
                         \/ b[1].n = sends + 1 /\ b[1].id = c_writes[1].packet.id
  <2>1. Sent(me, kind).n = sends + 1 /\ Sent(me, kind).id = c_writes[1].packet.id
    BY <1>2 DEF Sent
  <2> HIDE DEF kind
  <2>2. \A d \in Connections, b \in Byte :
           Ahead(d, b)' => Ahead(d, b) \/ (d = me /\ b[1] = Sent(me, kind))
    BY <1>0, <1>1, <1>3, <1>4, SendWire
  <2> QED
    BY <2>1, <2>2
<1>10. \A m : m = sends + 1 => \A d \in Connections, b \in Byte : Ahead(d, b) => b[1].n # m
  BY <1>0 DEF WireInv, Numbered
<1>11. hurried' \in BOOLEAN
  BY <1>0, <1>1 DEF MeetingTypeOK
<1> QED
  BY <1>1, <1>2, <1>3, <1>5, <1>6, <1>7, <1>8, <1>9, <1>10, <1>11

\* Nothing is on its way on the client's connection when it gets it.
LEMMA ConnectsFacts ==
    ASSUME SysInv, ClientConnects, Connect, me' = arrived + 1
    PROVE  /\ UNCHANGED <<sent_by_me, incoming, passed, said, shown, hurried, accepted,
                          last_login, sends, c_written, c_answered, c_notices>>
           /\ accepted < me'
           /\ \A s \in Sessions, x \in OutPacket : ~Going(s, x)'
           /\ \A c \in Connections, b \in Byte : c = me' => ~Ahead(c, b)'
<1>0. /\ InBounds /\ accepted \in Nat /\ arrived \in Nat /\ Unread
  BY DEF SysInv, Inv, TypeOK, WireInv
<1>1. UNCHANGED <<sent_by_me, incoming, passed, said, shown, hurried, accepted,
                  last_login, sends, is_open, conn, inbound>>
  BY DEF ClientConnects, Connect, socket_vars, history_vars
<1>2. UNCHANGED <<c_written, c_answered, c_notices>>
  BY DEF ClientConnects, Client!ConnectCompletes, Client!server_vars, Client!client_vars
<1>3. accepted < arrived + 1 /\ arrived + 1 > arrived
  BY <1>0 DEF InBounds
<1>4. \A s \in Sessions : is_open[s] => conn[s] # arrived + 1
  BY <1>0 DEF InBounds
<1>5. \A s \in Sessions, x \in OutPacket : ~Going(s, x)'
  BY <1>1, <1>4 DEF Going
<1>6. arrived + 1 \in Connections => inbound[arrived + 1] = << >>
  BY <1>0, <1>3 DEF Unread
<1>7. ASSUME NEW c \in Connections, NEW b \in Byte, c = me', Ahead(c, b)'
      PROVE  FALSE
  <2>1. inbound'[c] = << >> /\ Len(inbound'[c]) = 0
    BY <1>1, <1>6, <1>7
  <2>2. \A s \in Sessions : is_open'[s] => conn'[s] # c
    BY <1>1, <1>4, <1>7
  <2> QED
    BY <1>7, <2>1, <2>2 DEF Ahead
<1> QED
  BY <1>1, <1>2, <1>3, <1>5, <1>7

\* What lies between the two keeps its type, and the client's view of it is right.
LEMMA MeetingTypeStep ==
    ASSUME SysInv, [SystemNext]_system_vars
    PROVE  MeetingTypeOK'
<1>0. /\ Inv /\ NamesInv /\ WireInv /\ OutInv /\ ClientInv /\ MeetingTypeOK
      /\ [Next]_vars
  <2>1. Inv /\ NamesInv /\ WireInv /\ OutInv /\ ClientInv /\ MeetingTypeOK
    BY DEF SysInv, MeetingInv
  <2> QED
    BY <2>1, ServerStep DEF MeetingTypeOK
<1>1. /\ arrived \in Nat /\ arrived' \in Nat /\ arrived <= arrived'
      /\ sends \in Nat /\ sends' \in Nat /\ sends <= sends'
  BY <1>0, Grows
<1>2. /\ sent_by_me \in Seq(1 .. sends) /\ sent_by_me \in Seq(1 .. sends')
      /\ Len(sent_by_me) = Len(c_written)
      /\ c_written \in Seq(Client!Packet)
  <2>1. sent_by_me \in Seq(1 .. sends) /\ Len(sent_by_me) = Len(c_written)
    BY <1>0 DEF MeetingTypeOK
  <2>2. 1 .. sends \subseteq 1 .. sends'
    BY <1>1
  <2>3. c_written \in Seq(Client!Packet)
    BY <1>0 DEF ClientInv, Client!TypeOK
  <2> QED
    BY <2>1, <2>2, <2>3, SeqMonotonic
<1>3. Notice' = Notice /\ OutPacket' = OutPacket
  BY DEF Notice, Connections, OutPacket
<1>10. shown \in Seq(Notice) /\ said \in Seq(Notice) /\ me \in 0 .. arrived
  BY <1>0 DEF MeetingTypeOK
<1>4. CASE Apart
  <2>1. me' \in 0 .. arrived'
    BY <1>0, <1>1, <1>4 DEF Apart, MeetingTypeOK
  <2> QED
    BY <1>0, <1>2, <1>3, <1>4, <2>1 DEF Apart, MeetingTypeOK
<1>5. ASSUME NEW n \in 1 .. MaxLines + MaxNotices, ClientReceives(n)
      PROVE  MeetingTypeOK'
  <2>1. /\ n \in 1 .. Len(incoming) /\ Len(incoming) \in Nat
        /\ incoming' \in Seq(OutPacket) /\ Len(incoming') = Len(incoming) - n
        /\ \A i \in 1 .. Len(incoming') : incoming'[i] = incoming[n + i]
        /\ c_inbound' = [i \in 1 .. Len(incoming') |-> incoming'[i].id]
        /\ shown' = shown \/ (incoming[1] \in Notice /\ shown' = Append(shown, incoming[1]))
        /\ UNCHANGED <<vars, me, sent_by_me, passed, said, hurried, c_written>>
    BY <1>5, ClientReceiveFacts
  <2>2. \A i \in 1 .. Len(incoming') : n + i \in 1 .. Len(incoming)
    BY <2>1
  <2>3. \A i \in 1 .. Len(incoming') :
           incoming'[i].id = "REPLY_LOGIN" \/ incoming'[i] \in Notice
    BY <1>0, <2>1, <2>2 DEF MeetingTypeOK
  <2>4. shown' \in Seq(Notice)
    <3>1. shown' = shown \/ \E x \in Notice : shown' = Append(shown, x)
      BY <2>1
    <3> QED
      BY <1>10, <3>1, AppendProperties
  <2>5. arrived' = arrived
    BY <2>1 DEF vars, peer_vars
  <2> QED
    BY <1>0, <1>2, <1>3, <2>1, <2>3, <2>4, <2>5 DEF MeetingTypeOK
<1>6. CASE ClientConnects /\ Connect /\ me' = arrived + 1
  <2>1. /\ arrived' = arrived + 1
        /\ UNCHANGED <<sent_by_me, incoming, passed, said, shown, hurried>>
    BY <1>6 DEF Connect, ClientConnects
  <2>2. UNCHANGED <<c_inbound, c_written>>
    BY <1>6 DEF ClientConnects, Client!ConnectCompletes, Client!server_vars, Client!client_vars
  <2>3. me' \in 0 .. arrived'
    BY <1>1, <1>6, <2>1
  <2> QED
    BY <1>0, <1>2, <1>3, <2>1, <2>2, <2>3 DEF MeetingTypeOK
<1>7. CASE ClientWrites /\ c_written' # c_written
  <2>1. /\ c_writes[1] \in Write
        /\ c_written' = Append(c_written, c_writes[1].packet)
        /\ sent_by_me' = Append(sent_by_me, sends + 1) /\ sends' = sends + 1
        /\ hurried' \in BOOLEAN
        /\ UNCHANGED <<me, incoming, passed, said, shown, c_inbound>>
    BY <1>7, WritesFacts
  <2>2. c_writes[1].packet \in Client!Packet /\ sends + 1 \in 1 .. sends'
    BY <1>1, <2>1 DEF Write
  <2>3. sent_by_me' \in Seq(1 .. sends') /\ Len(sent_by_me') = Len(c_written')
    BY <1>2, <2>1, <2>2
  <2>4. me' \in 0 .. arrived'
    BY <1>1, <1>10, <2>1
  <2> QED
    BY <1>0, <1>3, <2>1, <2>3, <2>4 DEF MeetingTypeOK
<1>8. ASSUME NEW s \in Sessions, ServerReaches(s)
      PROVE  MeetingTypeOK'
  <2>1. PICK x \in OutPacket :
           /\ x.id = "REPLY_LOGIN" \/ (x \in Notice /\ x.id = "NOTICE_CHAT")
           /\ incoming' = Append(incoming, x) /\ c_inbound' = Append(c_inbound, x.id)
    BY <1>8, ReachesFacts
  <2>2. /\ passed' = passed \cup {s}
        /\ UNCHANGED <<vars, me, sent_by_me, said, shown, hurried, c_written>>
    BY <1>8, ReachesFacts
  <2>3. arrived' = arrived
    BY <2>2 DEF vars, peer_vars
  <2>4. /\ incoming \in Seq(OutPacket) /\ incoming' \in Seq(OutPacket)
        /\ Len(incoming) \in Nat /\ Len(incoming') = Len(incoming) + 1
        /\ incoming'[Len(incoming) + 1] = x
        /\ \A i \in 1 .. Len(incoming) : incoming'[i] = incoming[i]
    BY <1>0, <2>1 DEF MeetingTypeOK
  <2>5. \A i \in 1 .. Len(incoming) + 1 : i \in 1 .. Len(incoming) \/ i = Len(incoming) + 1
    BY <2>4
  <2>6. \A i \in 1 .. Len(incoming') :
           incoming'[i].id = "REPLY_LOGIN" \/ incoming'[i] \in Notice
    BY <1>0, <2>1, <2>4, <2>5 DEF MeetingTypeOK
  <2>7. c_inbound' = [i \in 1 .. Len(incoming') |-> incoming'[i].id]
    <3>1. c_inbound \in Seq({"REPLY_LOGIN", "NOTICE_CHAT"})
      BY <1>0 DEF ClientInv, Client!TypeOK
    <3>2. c_inbound = [i \in 1 .. Len(incoming) |-> incoming[i].id]
      BY <1>0 DEF MeetingTypeOK
    <3>3. DOMAIN c_inbound = 1 .. Len(incoming)
      BY <3>2
    <3>4. Len(c_inbound) = Len(incoming)
      BY <2>4, <3>1, <3>3, LenProperties
    <3>5. x.id \in {"REPLY_LOGIN", "NOTICE_CHAT"}
      BY <2>1
    <3>6. /\ c_inbound' = [i \in 1 .. Len(incoming') |-> c_inbound'[i]]
          /\ c_inbound'[Len(incoming) + 1] = x.id
          /\ \A i \in 1 .. Len(incoming) : c_inbound'[i] = c_inbound[i]
      BY <2>1, <2>4, <3>1, <3>4, <3>5
    <3>7. \A i \in 1 .. Len(incoming') : c_inbound'[i] = incoming'[i].id
      BY <2>4, <2>5, <3>2, <3>6
    <3> QED
      BY <3>6, <3>7
  <2> QED
    BY <1>0, <1>2, <1>3, <2>2, <2>3, <2>4, <2>6, <2>7 DEF MeetingTypeOK
<1>9. ASSUME NEW s \in Sessions, NEW n \in 1 .. HeaderSize, NEW p \in InPacket,
             NEW y \in OutPacket, ServerReceives(s, n), Receives(s, p, y)
      PROVE  MeetingTypeOK'
  <2>1. UNCHANGED <<client_vars, me, sent_by_me, incoming, passed, shown, hurried>>
    BY <1>0, <1>9, ReceiveFacts
  <2>2. UNCHANGED <<c_inbound, c_written>>
    BY <2>1 DEF client_vars, c_other_vars
  <2>3. said' \in Seq(Notice)
    <3>1. said' = said \/ (y \in Notice /\ said' = Append(said, y))
      BY <1>9 DEF Receives, ReceivesLogin, ReceivesChat
    <3> QED
      BY <1>10, <3>1, AppendProperties
  <2>4. me' \in 0 .. arrived'
    BY <1>1, <1>10, <2>1
  <2> QED
    BY <1>0, <1>2, <1>3, <2>1, <2>2, <2>3, <2>4 DEF MeetingTypeOK
<1> QED
  BY <1>4, <1>5, <1>6, <1>7, <1>8, <1>9, MeetingSteps DEF Meets

\* A packet number on which nothing can be read any more stays so.
LEMMA SpentAll ==
    ASSUME SysInv, [SystemNext]_system_vars
    PROVE  /\ \A n \in 1 .. sends : n \in 1 .. sends' /\ (Spent(n) => Spent(n)')
           /\ sends \in Nat /\ sends' \in Nat /\ sends <= sends'
<1>1. Inv /\ NamesInv /\ WireInv /\ ClientInv /\ me \in 0 .. arrived
  BY DEF SysInv, MeetingInv, MeetingTypeOK
<1>2. [Next]_vars
  BY <1>1, ServerStep
<1>3. sends \in Nat /\ sends' \in Nat /\ sends <= sends'
  BY <1>1, <1>2, Grows
<1> QED
  BY <1>1, <1>2, <1>3, SpentStays

\* Only a chat that is received makes a notice.
LEMMA SaidKept ==
    ASSUME SysInv, [SystemNext]_system_vars
    PROVE  \/ said' = said
           \/ \E s \in Sessions, n \in 1 .. HeaderSize, p \in InPacket, y \in OutPacket :
                 ServerReceives(s, n) /\ Receives(s, p, y) /\ said' # said
<1>1. CASE Meets
  BY <1>1 DEF Meets, ClientReceives, ClientConnects, ClientWrites, ServerReaches
<1> QED
  BY <1>1, MeetingSteps DEF Apart

\* Each chat is made a notice once.
LEMMA SaidStep ==
    ASSUME SysInv, [SystemNext]_system_vars
    PROVE  SaidInv'
<1>0. /\ Inv /\ NamesInv /\ WireInv /\ OutInv /\ SaidInv /\ said \in Seq(Notice)
  BY DEF SysInv, MeetingInv, MeetingTypeOK
<1>1. /\ \A n \in 1 .. sends : n \in 1 .. sends' /\ (Spent(n) => Spent(n)')
      /\ sends \in Nat /\ sends' \in Nat /\ sends <= sends'
  BY SpentAll
<1>2. CASE said' = said
  BY <1>0, <1>1, <1>2 DEF SaidInv
<1>3. ASSUME NEW s \in Sessions, NEW n \in 1 .. HeaderSize, NEW p \in InPacket,
             NEW y \in OutPacket, ServerReceives(s, n), Receives(s, p, y), said' # said
      PROVE  SaidInv'
  <2>1. said' = Append(said, y) /\ y.n = p.n /\ y \in Notice
    BY <1>3 DEF Receives, ReceivesLogin, ReceivesChat, NoticeOf
  <2>2. y.n \in 1 .. sends /\ ~Spent(y.n)
    BY <1>3, <2>1 DEF Receives
  <2>3. \A m : m = y.n => Spent(m)'
    BY <1>3, <2>1 DEF Receives
  <2>4. /\ Len(said) \in Nat /\ Len(said') = Len(said) + 1 /\ said'[Len(said) + 1] = y
        /\ \A i \in 1 .. Len(said) : said'[i] = said[i]
    BY <1>0, <2>1
  <2>5. \A i \in 1 .. Len(said') : i \in 1 .. Len(said) \/ i = Len(said) + 1
    BY <2>4
  <2>6. \A i \in 1 .. Len(said) : said[i].n # y.n
    BY <1>0, <2>2 DEF SaidInv
  <2>7. \A i, j \in 1 .. Len(said') : said'[i].n = said'[j].n => i = j
    BY <1>0, <2>4, <2>5, <2>6 DEF SaidInv
  <2>8. \A i \in 1 .. Len(said') : said'[i].n \in 1 .. sends'
    BY <1>0, <1>1, <2>2, <2>4, <2>5 DEF SaidInv
  <2>9. \A i \in 1 .. Len(said'), m \in 1 .. sends' : said'[i].n = m => Spent(m)'
    BY <1>0, <1>1, <2>2, <2>3, <2>4, <2>5 DEF SaidInv
  <2> QED
    BY <2>7, <2>8, <2>9 DEF SaidInv
<1> QED
  BY <1>2, <1>3, SaidKept

\* A session that serves the client is about to send its reply to a login that is
\* one of the packets the client wrote, and that nothing answered before.
LEMMA ReplyGoing ==
    ASSUME SysInv, [SystemNext]_system_vars, NEW s \in Sessions, NEW x \in OutPacket,
           Going(s, x)', x.id = "REPLY_LOGIN"
    PROVE  /\ x.n \in 1 .. sends' /\ Spent(x.n)'
           /\ \E i \in 1 .. Len(sent_by_me) :
                 /\ sent_by_me[i] = x.n /\ c_written[i].id = "REQUEST_LOGIN"
                 /\ i \notin c_answered
<1>0. ReplyInv
  BY DEF SysInv, MeetingInv
<1>1. CASE Going(s, x)
  <2>1. /\ x.n \in 1 .. sends /\ Spent(x.n)
        /\ \E i \in 1 .. Len(sent_by_me) :
              /\ sent_by_me[i] = x.n /\ c_written[i].id = "REQUEST_LOGIN"
              /\ i \notin c_answered
    BY <1>0, <1>1 DEF ReplyInv
  <2> QED
    BY <2>1, SpentAll
<1>2. ASSUME NEW t \in Sessions, NEW n \in 1 .. HeaderSize, NEW p \in InPacket,
             ServerReceives(t, n), Receives(t, p, x), conn[s] = me, t = s,
             ReceivesLogin(t, p, x)
      PROVE  /\ x.n \in 1 .. sends' /\ Spent(x.n)'
             /\ \E i \in 1 .. Len(sent_by_me) :
                   /\ sent_by_me[i] = x.n /\ c_written[i].id = "REQUEST_LOGIN"
                   /\ i \notin c_answered
  <2>1. /\ conn[t] = me /\ conn[t] \in Connections /\ p.n \in 1 .. sends
        /\ p.id = "REQUEST_LOGIN" /\ x.n = p.n
        /\ \E b \in Byte : Ahead(conn[t], b) /\ b[1] = p
        /\ \A m : m = p.n => ~Spent(m) /\ Spent(m)'
    BY <1>2 DEF Receives, ReceivesLogin, ReplyTo
  <2>2. PICK i \in 1 .. Len(sent_by_me) :
           sent_by_me[i] = p.n /\ c_written[i].id = "REQUEST_LOGIN"
    BY <1>0, <2>1 DEF ReplyInv
  <2>3. i \notin c_answered
    BY <1>0, <2>1, <2>2 DEF ReplyInv
  <2> QED
    BY <2>1, <2>2, <2>3, SpentAll
<1> QED
  BY <1>1, <1>2, GoingStep

\* Replies answer one login of the client each.
LEMMA ReplyStep ==
    ASSUME SysInv, [SystemNext]_system_vars
    PROVE  ReplyInv'
<1>0. /\ Inv /\ NamesInv /\ WireInv /\ OutInv /\ ClientInv /\ MeetingTypeOK /\ ReplyInv
      /\ InBounds /\ [Next]_vars
  <2>1. Inv /\ NamesInv /\ WireInv /\ OutInv /\ ClientInv /\ MeetingTypeOK /\ ReplyInv
    BY DEF SysInv, MeetingInv
  <2> QED
    BY <2>1, ServerStep DEF MeetingTypeOK, Inv
<1>1. /\ \A n \in 1 .. sends : n \in 1 .. sends' /\ (Spent(n) => Spent(n)')
      /\ sends \in Nat /\ sends' \in Nat /\ sends <= sends'
  BY SpentAll
<1>2. /\ sent_by_me \in Seq(1 .. sends) /\ Len(sent_by_me) \in Nat
      /\ \A i \in 1 .. Len(sent_by_me) : sent_by_me[i] \in 1 .. sends
  <2>1. sent_by_me \in Seq(1 .. sends)
    BY <1>0 DEF MeetingTypeOK
  <2> QED
    BY <2>1, LenProperties, ElementOfSeq
<1>3. /\ c_answered \subseteq 1 .. Len(sent_by_me)
      /\ \A i \in c_answered, n \in 1 .. sends' : sent_by_me[i] = n => Spent(n)'
  BY <1>0, <1>1, <1>2 DEF ReplyInv
<1>4. ASSUME UNCHANGED <<sent_by_me, c_written, c_answered, me>>,
             \A c \in Connections, b \in Byte : c = me => (Ahead(c, b)' => Ahead(c, b))
      PROVE  ReplyInv'
  <2>1. \A c \in Connections, b \in Byte : c = me' /\ Ahead(c, b)' =>
            \E i \in 1 .. Len(sent_by_me') :
                sent_by_me'[i] = b[1].n /\ c_written'[i].id = b[1].id
    BY <1>0, <1>4 DEF ReplyInv
  <2>2. \A i, j \in 1 .. Len(sent_by_me') : i < j => sent_by_me'[i] < sent_by_me'[j]
    BY <1>0, <1>4 DEF ReplyInv
  <2>3. OutPacket' = OutPacket
    BY DEF OutPacket
  <2> QED
    BY <1>3, <1>4, <2>1, <2>2, <2>3, ReplyGoing DEF ReplyInv
<1>5. CASE Apart
  BY <1>4, <1>5 DEF Apart
<1>6. ASSUME NEW n \in 1 .. MaxLines + MaxNotices, ClientReceives(n)
      PROVE  ReplyInv'
  <2>1. UNCHANGED <<vars, sent_by_me, c_written, c_answered, me>>
    BY <1>6, ClientReceiveFacts
  <2>2. \A c \in Connections, b \in Byte : Ahead(c, b)' => Ahead(c, b)
    BY <2>1 DEF vars, rx_vars, socket_vars, peer_vars, Ahead
  <2> QED
    BY <1>4, <2>1, <2>2
<1>7. CASE ClientConnects /\ Connect /\ me' = arrived + 1
  <2>1. /\ UNCHANGED <<sent_by_me, c_written, c_answered, sends>>
        /\ \A s \in Sessions, x \in OutPacket : ~Going(s, x)'
        /\ \A c \in Connections, b \in Byte : c = me' => ~Ahead(c, b)'
    BY <1>7, ConnectsFacts
  <2>2. OutPacket' = OutPacket
    BY DEF OutPacket
  <2> QED
    BY <1>0, <1>3, <2>1, <2>2 DEF ReplyInv
<1>8. CASE ClientWrites /\ c_written' # c_written
  <2> DEFINE L == Len(sent_by_me)
  <2>1. /\ c_writes[1] \in Write
        /\ c_written' = Append(c_written, c_writes[1].packet)
        /\ sent_by_me' = Append(sent_by_me, sends + 1) /\ sends' = sends + 1
        /\ UNCHANGED <<me, c_answered>>
        /\ \A t \in Sessions, y \in OutPacket : Going(t, y)' => Going(t, y)
        /\ \A d \in Connections, b \in Byte :
              Ahead(d, b)' => \/ Ahead(d, b)
                              \/ b[1].n = sends + 1 /\ b[1].id = c_writes[1].packet.id
    BY <1>8, WritesFacts
  <2>2. c_writes[1].packet \in Client!Packet /\ c_written \in Seq(Client!Packet)
        /\ Len(c_written) = L
    BY <1>0, <2>1 DEF Write, ClientInv, Client!TypeOK, MeetingTypeOK
  <2>3. /\ Len(sent_by_me') = L + 1 /\ sent_by_me'[L + 1] = sends + 1
        /\ \A i \in 1 .. L : sent_by_me'[i] = sent_by_me[i]
    <3>1. sent_by_me \in Seq(Nat)
      BY <1>2
    <3>2. sends + 1 \in Nat
      BY <1>1
    <3> QED
      BY <2>1, <3>1, <3>2, AppendProperties
  <2>4. /\ c_written'[L + 1] = c_writes[1].packet
        /\ \A i \in 1 .. L : c_written'[i] = c_written[i]
    BY <2>1, <2>2, AppendProperties
  <2>5. L \in Nat /\ \A i \in 1 .. L : i \in 1 .. L + 1 /\ sent_by_me[i] \in 1 .. sends
    BY <1>2
  <2>6. L + 1 \in 1 .. L + 1 /\ \A i \in 1 .. L + 1 : i \in 1 .. L \/ i = L + 1
    BY <2>5
  <2> HIDE DEF L
  <2>7. \A i, j \in 1 .. Len(sent_by_me') : i < j => sent_by_me'[i] < sent_by_me'[j]
    <3>1. ASSUME NEW i \in 1 .. L + 1, NEW j \in 1 .. L + 1, i < j
          PROVE  sent_by_me'[i] < sent_by_me'[j]
      <4>1. i \in 1 .. L
        BY <2>5, <3>1
      <4>2. CASE j \in 1 .. L
        <5>1. sent_by_me[i] < sent_by_me[j]
          BY <1>0, <3>1, <4>1, <4>2 DEF ReplyInv, L
        <5> QED
          BY <2>3, <4>1, <4>2, <5>1
      <4>3. CASE j = L + 1
        <5>1. sent_by_me[i] \in 1 .. sends
          BY <2>5, <4>1
        <5>2. sent_by_me[i] < sends + 1
          BY <1>1, <5>1
        <5> QED
          BY <2>3, <4>1, <4>3, <5>2
      <4> QED
        BY <2>6, <4>2, <4>3
    <3> QED
      BY <2>3, <3>1
  <2>8. \A c \in Connections, b \in Byte : c = me' /\ Ahead(c, b)' =>
            \E i \in 1 .. Len(sent_by_me') :
                sent_by_me'[i] = b[1].n /\ c_written'[i].id = b[1].id
    <3>1. \A c \in Connections, b \in Byte : c = me /\ Ahead(c, b) =>
              \E i \in 1 .. L : sent_by_me[i] = b[1].n /\ c_written[i].id = b[1].id
      BY <1>0 DEF ReplyInv, L
    <3>2. ASSUME NEW c \in Connections, NEW b \in Byte, c = me', Ahead(c, b)'
          PROVE  \E i \in 1 .. L + 1 :
                     sent_by_me'[i] = b[1].n /\ c_written'[i].id = b[1].id
      <4>1. CASE Ahead(c, b)
        <5>1. PICK i \in 1 .. L : sent_by_me[i] = b[1].n /\ c_written[i].id = b[1].id
          BY <2>1, <3>1, <3>2, <4>1
        <5>2. /\ i \in 1 .. L + 1 /\ sent_by_me'[i] = b[1].n
              /\ c_written'[i].id = b[1].id
          BY <2>3, <2>4, <2>5, <5>1
        <5> QED
          BY <5>2
      <4>2. CASE b[1].n = sends + 1 /\ b[1].id = c_writes[1].packet.id
        BY <2>3, <2>4, <2>6, <4>2
      <4> QED
        BY <2>1, <3>2, <4>1, <4>2
    <3> QED
      BY <2>3, <3>2
  <2>9. /\ c_answered' \subseteq 1 .. Len(sent_by_me')
        /\ \A i \in c_answered', n \in 1 .. sends' : sent_by_me'[i] = n => Spent(n)'
    <3>1. c_answered \subseteq 1 .. L
      BY <1>3 DEF L
    <3>2. \A i \in c_answered : i \in 1 .. L + 1 /\ sent_by_me'[i] = sent_by_me[i]
      BY <2>3, <2>5, <3>1
    <3> QED
      BY <1>3, <2>1, <2>3, <3>2
  <2>10. \A s \in Sessions, x \in OutPacket : Going(s, x)' /\ x.id = "REPLY_LOGIN" =>
            /\ x.n \in 1 .. sends' /\ Spent(x.n)'
            /\ \E i \in 1 .. Len(sent_by_me') :
                  /\ sent_by_me'[i] = x.n /\ c_written'[i].id = "REQUEST_LOGIN"
                  /\ i \notin c_answered'
    <3>1. \A s \in Sessions, x \in OutPacket : Going(s, x)' /\ x.id = "REPLY_LOGIN" =>
             /\ x.n \in 1 .. sends' /\ Spent(x.n)'
             /\ \E i \in 1 .. L :
                   /\ sent_by_me[i] = x.n /\ c_written[i].id = "REQUEST_LOGIN"
                   /\ i \notin c_answered
      BY ReplyGoing DEF L
    <3> QED
      BY <2>1, <2>3, <2>4, <2>5, <3>1
  <2>11. OutPacket' = OutPacket
    BY DEF OutPacket
  <2> QED
    BY <2>7, <2>8, <2>9, <2>10, <2>11 DEF ReplyInv
<1>9. ASSUME NEW s \in Sessions, ServerReaches(s)
      PROVE  ReplyInv'
  <2>1. PICK x \in OutPacket :
           /\ Going(s, x)
           /\ c_answered' = IF x.id = "REPLY_LOGIN"
                            THEN c_answered \cup {i \in 1 .. Len(sent_by_me) :
                                                     sent_by_me[i] = x.n}
                            ELSE c_answered
    BY <1>9, ReachesFacts
  <2>2. /\ \A t \in Sessions, y \in OutPacket : ~Going(t, y)'
        /\ UNCHANGED <<vars, me, sent_by_me, c_written>>
    BY <1>9, ReachesFacts
  <2>3. sends' = sends /\ \A c \in Connections, b \in Byte : Ahead(c, b)' => Ahead(c, b)
    BY <2>2 DEF vars, rx_vars, socket_vars, peer_vars, Ahead
  <2>4. x.id = "REPLY_LOGIN" => x.n \in 1 .. sends /\ Spent(x.n)'
    BY <1>0, <1>1, <2>1 DEF ReplyInv
  <2>5. c_answered' \subseteq 1 .. Len(sent_by_me)
    BY <1>3, <2>1
  <2>6. \A i \in c_answered', n \in 1 .. sends' : sent_by_me[i] = n => Spent(n)'
    BY <1>3, <2>1, <2>4
  <2>7. OutPacket' = OutPacket
    BY DEF OutPacket
  <2> QED
    BY <1>0, <2>2, <2>3, <2>5, <2>6, <2>7 DEF ReplyInv
<1>10. ASSUME NEW s \in Sessions, NEW n \in 1 .. HeaderSize, ServerReceives(s, n)
       PROVE  ReplyInv'
  <2>1. UNCHANGED <<client_vars, me, sent_by_me, sends>>
    BY <1>0, <1>10, ReceiveFacts
  <2>2. UNCHANGED <<c_written, c_answered>>
    BY <2>1 DEF client_vars, c_other_vars
  <2>3. \A c \in Connections, b \in Byte : Ahead(c, b)' => Ahead(c, b)
    BY <1>0, <2>1, AheadShrinks
  <2> QED
    BY <1>4, <2>1, <2>2, <2>3
<1> QED
  BY <1>5, <1>6, <1>7, <1>8, <1>9, <1>10, MeetingSteps DEF Meets

\* What was made stays made, in its place.
LEMMA MadeStep ==
    ASSUME SysInv, NEW s \in Sessions, NEW p \in InPacket, NEW y \in OutPacket,
           Receives(s, p, y), said' # said
    PROVE  /\ y \in Notice /\ ~Made(y) /\ Made(y)'
           /\ Len(said) \in Nat /\ Len(said') = Len(said) + 1
           /\ \A x : Made(x) => Made(x)' /\ Before(x, y)'
           /\ \A x, z : Made(x) /\ Made(z) /\ Before(x, z) => Before(x, z)'
           /\ \A k \in 1 .. Len(said') :
                 \/ k = Len(said) + 1 /\ said'[k] = y
                 \/ k \in 1 .. Len(said) /\ said'[k] = said[k]
<1>0. SaidInv /\ said \in Seq(Notice)
  BY DEF SysInv, MeetingInv, MeetingTypeOK
<1>1. said' = Append(said, y) /\ y \in Notice /\ ~Spent(y.n) /\ y.n \in 1 .. sends
  BY DEF Receives, ReceivesLogin, ReceivesChat, NoticeOf
<1>2. /\ Len(said) \in Nat /\ Len(said') = Len(said) + 1 /\ said'[Len(said) + 1] = y
      /\ \A k \in 1 .. Len(said) : said'[k] = said[k]
  BY <1>0, <1>1, AppendProperties
<1>3. \A k \in 1 .. Len(said) + 1 : k \in 1 .. Len(said) \/ k = Len(said) + 1
  BY <1>2
<1>4. \A k \in 1 .. Len(said) : k \in 1 .. Len(said) + 1 /\ k < Len(said) + 1
  BY <1>2
<1>5. ~Made(y)
  BY <1>0, <1>1 DEF Made, SaidInv
<1>6. \A k \in 1 .. Len(said') : /\ \/ k = Len(said) + 1 /\ said'[k] = y
                                    \/ k \in 1 .. Len(said) /\ said'[k] = said[k]
                                 /\ said'[k] = y => k = Len(said) + 1
                                 /\ said'[k] # y => k \in 1 .. Len(said) /\ said'[k] = said[k]
  BY <1>2, <1>3, <1>5 DEF Made
<1>7. Len(said) + 1 \in 1 .. Len(said')
  BY <1>2
<1>8. Made(y)'
  BY <1>2, <1>7 DEF Made
<1>9. ASSUME NEW x, Made(x)
      PROVE  Made(x)' /\ Before(x, y)'
  <2>1. x # y
    BY <1>5, <1>9
  <2>2. Made(x)'
    BY <1>2, <1>4, <1>9 DEF Made
  <2>3. ASSUME NEW j \in 1 .. Len(said'), NEW k \in 1 .. Len(said'),
               said'[j] = x, said'[k] = y
        PROVE  j < k
    BY <1>4, <1>6, <2>1, <2>3
  <2> QED
    BY <2>2, <2>3 DEF Before
<1>10. ASSUME NEW x, NEW z, Made(x), Made(z), Before(x, z)
       PROVE  Before(x, z)'
  <2>1. x # y /\ z # y
    BY <1>5, <1>10
  <2>2. ASSUME NEW j \in 1 .. Len(said'), NEW k \in 1 .. Len(said'),
               said'[j] = x, said'[k] = z
        PROVE  j < k
    BY <1>6, <1>10, <2>1, <2>2 DEF Before
  <2> QED
    BY <2>2 DEF Before
<1> QED
  BY <1>1, <1>2, <1>5, <1>6, <1>8, <1>9, <1>10

\* Where the server makes no notice, and the client takes n packets, perhaps
\* showing the first.
LEMMA NoticeKeeps ==
    ASSUME NoticeInv, NEW n \in Nat, UNCHANGED <<said, c_notices>>,
           \A s \in Sessions, y \in Notice : Going(s, y)' => Going(s, y),
           \A i \in Nat, x \in Notice : Coming(i, x)' => Coming(n + i, x) /\ i > 0,
           \A x \in Notice : Shown(x)' => Shown(x) \/ (n > 0 /\ Coming(1, x))
    PROVE  NoticeInv'
<1>1. Notice' = Notice
  BY DEF Notice, Connections
<1>2. \A x, y \in Notice : (Before(x, y)' <=> Before(x, y)) /\ (Made(x)' <=> Made(x))
  BY DEF Before, Made
<1>3. ASSUME NEW x \in Notice,
             Shown(x)' \/ (\E i \in Nat : Coming(i, x)') \/ (\E s \in Sessions : Going(s, x)')
      PROVE  Made(x)'
  <2>1. Shown(x) \/ (\E i \in Nat : Coming(i, x)) \/ (\E s \in Sessions : Going(s, x))
    <3>1. \A i \in Nat : n + i \in Nat
      OBVIOUS
    <3> QED
      BY <1>3, <3>1
  <2> QED
    BY <1>2, <2>1 DEF NoticeInv
<1>4. ASSUME NEW x \in Notice, NEW y \in Notice, NEW i \in Nat, Coming(i, y)'
      PROVE  /\ Shown(x)' => Before(x, y)
             /\ \A j \in Nat : Coming(j, x)' /\ j < i => Before(x, y)
  <2>1. Coming(n + i, y) /\ n + i \in Nat /\ i > 0
    BY <1>4
  <2>2. n > 0 => 1 < n + i
    BY <2>1
  <2>3. ASSUME NEW j \in Nat, Coming(j, x)', j < i
        PROVE  Before(x, y)
    <3>1. Coming(n + j, x) /\ n + j \in Nat /\ n + j < n + i
      BY <2>3
    <3> QED
      BY <2>1, <3>1 DEF NoticeInv
  <2>4. Shown(x) => Before(x, y)
    BY <2>1 DEF NoticeInv
  <2>5. n > 0 /\ Coming(1, x) => Before(x, y)
    BY <2>1, <2>2 DEF NoticeInv
  <2> QED
    BY <2>3, <2>4, <2>5
<1>5. ASSUME NEW x \in Notice, NEW y \in Notice, NEW s \in Sessions, Going(s, y)'
      PROVE  /\ Shown(x)' => Before(x, y)
             /\ \A i \in Nat : Coming(i, x)' => Before(x, y)
  <2>1. Going(s, y)
    BY <1>5
  <2>2. Shown(x) => Before(x, y)
    BY <2>1 DEF NoticeInv
  <2>3. \A i \in Nat : Coming(i, x) => Before(x, y)
    BY <2>1 DEF NoticeInv
  <2>4. \A i \in Nat : n + i \in Nat
    OBVIOUS
  <2> QED
    BY <2>2, <2>3, <2>4
<1>6. \A y \in Notice : \A s \in Sessions : \A k \in 1 .. Len(said') :
          Going(s, y)' /\ said'[k] = y => c_notices' < k
  BY DEF NoticeInv
<1>7. c_notices' \in Nat /\ c_notices' <= Len(said')
  BY DEF NoticeInv
<1>8. \A x \in Notice :
          \/ Shown(x)'
          \/ \E i \in Nat : Coming(i, x)'
          \/ \E s \in Sessions : Going(s, x)'
          => Made(x)'
  BY <1>3
<1>9. \A x, y \in Notice : \A i \in Nat :
          /\ Shown(x)' /\ Coming(i, y)' => Before(x, y)'
          /\ \A j \in Nat : Coming(j, x)' /\ Coming(i, y)' /\ j < i => Before(x, y)'
  BY <1>2, <1>4
<1>10. \A x, y \in Notice : \A s \in Sessions : Going(s, y)' =>
          /\ Shown(x)' => Before(x, y)'
          /\ \A i \in Nat : Coming(i, x)' => Before(x, y)'
  BY <1>2, <1>5
<1> QED
  BY <1>1, <1>6, <1>7, <1>8, <1>9, <1>10 DEF NoticeInv

\* The order in which notices were made is the order in which they come.
LEMMA NoticeStep ==
    ASSUME SysInv, [SystemNext]_system_vars
    PROVE  NoticeInv'
<1>0. /\ Inv /\ NamesInv /\ WireInv /\ OutInv /\ MeetingTypeOK /\ NoticeInv /\ SaidInv
      /\ InBounds
  BY DEF SysInv, MeetingInv, Inv
<1>1. /\ Notice' = Notice /\ \A x \in Notice : x \in OutPacket
      /\ \A x \in Notice : x.id = "NOTICE_CHAT"
  <2>1. \A x \in Notice : x \in OutPacket
    BY ServerAssumption DEF Notice, OutPacket, PacketIds, Connections
  <2> QED
    BY <2>1 DEF Notice, Connections
<1>2. incoming \in Seq(OutPacket) /\ Len(incoming) \in Nat /\ shown \in Seq(Notice)
  BY <1>0 DEF MeetingTypeOK
<1>3. ASSUME UNCHANGED <<said, c_notices, incoming, shown>>,
             \A s \in Sessions, y \in Notice : Going(s, y)' => Going(s, y)
      PROVE  NoticeInv'
  <2>1. \A i \in Nat, x \in Notice : Coming(i, x)' => Coming(0 + i, x) /\ i > 0
    BY <1>2, <1>3 DEF Coming
  <2>2. \A x \in Notice : Shown(x)' => Shown(x)
    BY <1>3 DEF Shown
  <2> QED
    BY <1>0, <1>3, <2>1, <2>2, NoticeKeeps
<1>4. CASE Apart
  BY <1>1, <1>3, <1>4 DEF Apart
<1>5. ASSUME NEW n \in 1 .. MaxLines + MaxNotices, ClientReceives(n)
      PROVE  NoticeInv'
  <2>1. /\ n \in 1 .. Len(incoming) /\ n \in Nat /\ n > 0
        /\ Len(incoming') = Len(incoming) - n
        /\ \A i \in 1 .. Len(incoming') : incoming'[i] = incoming[n + i]
        /\ shown' = shown \/ (incoming[1] \in Notice /\ shown' = Append(shown, incoming[1]))
        /\ UNCHANGED <<vars, me, passed, said, c_notices>>
    BY <1>2, <1>5, ClientReceiveFacts
  <2>2. \A i \in Nat, x \in Notice : Coming(i, x)' => Coming(n + i, x) /\ i > 0
    BY <1>2, <2>1 DEF Coming
  <2>3. \A s \in Sessions, y \in Notice : Going(s, y)' => Going(s, y)
    BY <2>1 DEF Going, vars, socket_vars, send_vars
  <2>4. \A x \in Notice : Shown(x)' => Shown(x) \/ (n > 0 /\ Coming(1, x))
    <3>1. CASE shown' = shown
      BY <3>1 DEF Shown
    <3>2. ASSUME NEW y \in Notice, y = incoming[1], shown' = Append(shown, y)
          PROVE  \A x \in Notice : Shown(x)' => Coming(1, x)
      <4>1. Len(shown') = Len(shown) + 1 /\ shown'[Len(shown) + 1] = y
        BY <1>2, <3>2, AppendProperties
      <4>2. 1 \in 1 .. Len(incoming)
        BY <1>2, <2>1
      <4> QED
        BY <3>2, <4>1, <4>2 DEF Shown, Coming
    <3> QED
      BY <2>1, <3>1, <3>2
  <2> QED
    BY <1>0, <2>1, <2>2, <2>3, <2>4, NoticeKeeps
<1>6. CASE ClientConnects /\ Connect /\ me' = arrived + 1
  BY <1>1, <1>3, <1>6, ConnectsFacts
<1>7. CASE ClientWrites /\ c_written' # c_written
  BY <1>1, <1>3, <1>7, WritesFacts
<1>8. ASSUME NEW s \in Sessions, ServerReaches(s)
      PROVE  NoticeInv'
  <2> DEFINE L == Len(incoming)
  <2>1. PICK z \in OutPacket :
           /\ Going(s, z)
           /\ z.id = "REPLY_LOGIN" \/ (z \in Notice /\ z.id = "NOTICE_CHAT")
           /\ incoming' = Append(incoming, z)
           /\ c_notices' = IF z.id = "NOTICE_CHAT" THEN c_notices + 1 ELSE c_notices
    BY <1>8, ReachesFacts
  <2>2. /\ \A t \in Sessions, y \in OutPacket : ~Going(t, y)'
        /\ UNCHANGED <<said, shown>>
    BY <1>8, ReachesFacts
  <2>3. /\ Len(incoming') = L + 1 /\ incoming'[L + 1] = z
        /\ \A i \in 1 .. L : incoming'[i] = incoming[i]
    BY <1>2, <2>1, AppendProperties
  <2>4. L \in Nat /\ \A i \in 1 .. L + 1 : i \in 1 .. L \/ i = L + 1
    BY <1>2
  <2>5. \A i \in Nat, x \in Notice : Coming(i, x)' =>
            \/ Coming(i, x) /\ i <= L
            \/ i = L + 1 /\ x = z /\ z \in Notice
    BY <2>3, <2>4 DEF Coming
  <2>6. \A x, y \in Notice : (Before(x, y)' <=> Before(x, y)) /\ (Made(x)' <=> Made(x))
    BY <2>2 DEF Before, Made
  <2>7. \A x \in Notice : Shown(x)' <=> Shown(x)
    BY <2>2 DEF Shown
  <2> HIDE DEF L
  <2>8. ASSUME NEW x \in Notice, Shown(x) \/ \E i \in Nat : Coming(i, x)'
        PROVE  Made(x)
    BY <1>0, <2>1, <2>5, <2>8 DEF NoticeInv
  <2>9. ASSUME NEW x \in Notice, NEW y \in Notice, NEW i \in Nat, Coming(i, y)'
        PROVE  /\ Shown(x) => Before(x, y)
               /\ \A j \in Nat : Coming(j, x)' /\ j < i => Before(x, y)
    <3>1. CASE Coming(i, y) /\ i <= L
      <4>1. Shown(x) => Before(x, y)
        BY <1>0, <3>1 DEF NoticeInv
      <4>2. ASSUME NEW j \in Nat, Coming(j, x)', j < i
            PROVE  Before(x, y)
        <5>1. j # L + 1
          BY <2>4, <3>1, <4>2
        <5>2. Coming(j, x)
          BY <2>5, <4>2, <5>1
        <5> QED
          BY <1>0, <3>1, <4>2, <5>2 DEF NoticeInv
      <4> QED
        BY <4>1, <4>2
    <3>2. CASE i = L + 1 /\ y = z
      <4>1. Going(s, y)
        BY <2>1, <3>2
      <4>2. Shown(x) => Before(x, y)
        BY <1>0, <4>1 DEF NoticeInv
      <4>3. ASSUME NEW j \in Nat, Coming(j, x)', j < i
            PROVE  Before(x, y)
        <5>1. j # L + 1
          BY <2>4, <3>2, <4>3
        <5>2. Coming(j, x)
          BY <2>5, <4>3, <5>1
        <5> QED
          BY <1>0, <4>1, <5>2 DEF NoticeInv
      <4> QED
        BY <4>2, <4>3
    <3> QED
      BY <2>5, <2>9, <3>1, <3>2
  <2>10. c_notices' \in Nat /\ c_notices' <= Len(said)
    <3>1. c_notices \in Nat /\ c_notices <= Len(said) /\ Len(said) \in Nat
      BY <1>0 DEF NoticeInv, MeetingTypeOK
    <3>2. CASE z.id = "NOTICE_CHAT"
      <4>1. z \in Notice
        BY <2>1, <3>2
      <4>2. PICK k \in 1 .. Len(said) : said[k] = z
        BY <1>0, <2>1, <4>1 DEF NoticeInv, Made
      <4>3. c_notices < k
        BY <1>0, <2>1, <4>1, <4>2 DEF NoticeInv
      <4> QED
        BY <2>1, <3>1, <3>2, <4>2, <4>3
    <3>3. CASE z.id # "NOTICE_CHAT"
      BY <2>1, <3>1, <3>3
    <3> QED
      BY <3>2, <3>3
  <2>11. \A x \in Notice :
            \/ Shown(x)'
            \/ \E i \in Nat : Coming(i, x)'
            \/ \E t \in Sessions : Going(t, x)'
            => Made(x)'
    BY <1>1, <2>2, <2>6, <2>7, <2>8
  <2>12. \A x, y \in Notice : \A i \in Nat :
            /\ Shown(x)' /\ Coming(i, y)' => Before(x, y)'
            /\ \A j \in Nat : Coming(j, x)' /\ Coming(i, y)' /\ j < i => Before(x, y)'
    BY <2>6, <2>7, <2>9
  <2>13. \A y \in Notice : \A t \in Sessions : ~Going(t, y)'
    BY <1>1, <2>2
  <2> QED
    BY <1>1, <2>2, <2>10, <2>11, <2>12, <2>13 DEF NoticeInv
<1>9. ASSUME NEW s \in Sessions, NEW n \in 1 .. HeaderSize, NEW p \in InPacket,
             NEW y \in OutPacket, ServerReceives(s, n), Receives(s, p, y)
      PROVE  NoticeInv'
  <2>1. UNCHANGED <<client_vars, me, incoming, shown>>
    BY <1>0, <1>9, ReceiveFacts
  <2>2. c_notices' = c_notices
    BY <2>1 DEF client_vars
  <2>3. ASSUME NEW t \in Sessions, NEW x \in Notice, Going(t, x)'
        PROVE  Going(t, x) \/ (said' # said /\ x = y)
    <3>1. ASSUME NEW u \in Sessions, NEW q \in InPacket, Receives(u, q, x)
          PROVE  said' # said /\ x = y
      <4>1. said' = Append(said, x)
        BY <1>1, <3>1 DEF Receives, ReceivesLogin, ReceivesChat, ReplyTo
      <4>2. said \in Seq(Notice)
        BY <1>0 DEF MeetingTypeOK
      <4>3. Len(said') = Len(said) + 1 /\ said'[Len(said) + 1] = x /\ Len(said) \in Nat
        BY <4>1, <4>2, AppendProperties
      <4>4. said' # said
        BY <4>3
      <4>5. y \in Notice /\ said' = Append(said, y)
        BY <1>9, <4>4 DEF Receives, ReceivesLogin, ReceivesChat
      <4>6. said'[Len(said) + 1] = y
        BY <4>2, <4>5, AppendProperties
      <4> QED
        BY <4>3, <4>4, <4>6
    <3> QED
      BY <1>1, <2>3, <3>1, GoingStep
  <2>4. CASE said' = said
    BY <1>3, <2>1, <2>2, <2>3, <2>4
  <2>5. CASE said' # said
    <3>1. /\ y \in Notice /\ ~Made(y) /\ Made(y)'
          /\ Len(said) \in Nat /\ Len(said') = Len(said) + 1
          /\ \A x : Made(x) => Made(x)' /\ Before(x, y)'
          /\ \A x, z : Made(x) /\ Made(z) /\ Before(x, z) => Before(x, z)'
          /\ \A k \in 1 .. Len(said') :
                \/ k = Len(said) + 1 /\ said'[k] = y
                \/ k \in 1 .. Len(said) /\ said'[k] = said[k]
      BY <1>9, <2>5, MadeStep
    <3>2. /\ \A x \in Notice : Shown(x)' <=> Shown(x)
          /\ \A i \in Nat, x \in Notice : Coming(i, x)' <=> Coming(i, x)
      BY <2>1 DEF Shown, Coming
    <3>3. \A x \in Notice : Shown(x) => Made(x)
      BY <1>0 DEF NoticeInv
    <3>4. \A x \in Notice, i \in Nat : Coming(i, x) => Made(x)
      BY <1>0 DEF NoticeInv
    <3>5. \A x \in Notice, t \in Sessions : Going(t, x) => Made(x)
      BY <1>0 DEF NoticeInv
    <3>6. \A t \in Sessions, x \in Notice : Going(t, x)' => Going(t, x) \/ x = y
      BY <2>3
    <3>7. \A x \in Notice :
              \/ Shown(x)'
              \/ \E i \in Nat : Coming(i, x)'
              \/ \E t \in Sessions : Going(t, x)'
              => Made(x)'
      BY <3>1, <3>2, <3>3, <3>4, <3>5, <3>6
    <3>8. ASSUME NEW x \in Notice, NEW z \in Notice, NEW i \in Nat
          PROVE  /\ Shown(x)' /\ Coming(i, z)' => Before(x, z)'
                 /\ \A j \in Nat : Coming(j, x)' /\ Coming(i, z)' /\ j < i => Before(x, z)'
      <4>1. Shown(x) /\ Coming(i, z) => Before(x, z)
        BY <1>0 DEF NoticeInv
      <4>2. \A j \in Nat : Coming(j, x) /\ Coming(i, z) /\ j < i => Before(x, z)
        BY <1>0 DEF NoticeInv
      <4> QED
        BY <3>1, <3>2, <3>3, <3>4, <4>1, <4>2
    <3>9. ASSUME NEW x \in Notice, NEW z \in Notice, NEW t \in Sessions, Going(t, z)'
          PROVE  /\ Shown(x)' => Before(x, z)'
                 /\ \A i \in Nat : Coming(i, x)' => Before(x, z)'
      <4>1. CASE Going(t, z)
        <5>1. Shown(x) => Before(x, z)
          BY <1>0, <4>1 DEF NoticeInv
        <5>2. \A i \in Nat : Coming(i, x) => Before(x, z)
          BY <1>0, <4>1 DEF NoticeInv
        <5> QED
          BY <3>1, <3>2, <3>3, <3>4, <3>5, <4>1, <5>1, <5>2
      <4>2. CASE z = y
        BY <3>1, <3>2, <3>3, <3>4, <4>2
      <4> QED
        BY <3>6, <3>9, <4>1, <4>2
    <3>10. c_notices \in Nat /\ c_notices <= Len(said)
      BY <1>0 DEF NoticeInv
    <3>11. ASSUME NEW z \in Notice, NEW t \in Sessions, NEW k \in 1 .. Len(said'),
                  Going(t, z)', said'[k] = z
           PROVE  c_notices < k
      <4>1. CASE k = Len(said) + 1
        BY <3>1, <3>10, <4>1
      <4>2. CASE k \in 1 .. Len(said) /\ said[k] = z
        <5>1. Made(z)
          BY <4>2 DEF Made
        <5>2. Going(t, z)
          BY <3>1, <3>6, <3>11, <5>1
        <5> QED
          BY <1>0, <4>2, <5>2 DEF NoticeInv
      <4> QED
        BY <3>1, <3>11, <4>1, <4>2
    <3>12. c_notices' \in Nat /\ c_notices' <= Len(said')
      BY <2>2, <3>1, <3>10
    <3> QED
      BY <1>1, <2>2, <3>7, <3>8, <3>9, <3>11, <3>12 DEF NoticeInv
  <2> QED
    BY <2>4, <2>5
<1> QED
  BY <1>4, <1>5, <1>6, <1>7, <1>8, <1>9, MeetingSteps DEF Meets

\* The client builds a chat when its flag is set, and posts what it has built; its
\* flag is set by a reply at the front of what it reads.
LEMMA ClientChats ==
    ASSUME ClientInv, [Client!Next]_(Client!vars)
    PROVE  /\ c_is_logged_in_' => \/ c_is_logged_in_
                                  \/ c_inbound # << >> /\ c_inbound[1] = "REPLY_LOGIN"
           /\ c_main' = "post_send" /\ c_id' = "REQUEST_CHAT" =>
                 \/ c_main = "post_send" /\ c_id = "REQUEST_CHAT"
                 \/ c_is_logged_in_
           /\ \A i \in 1 .. Len(c_writes') : c_writes'[i].packet.id = "REQUEST_CHAT" =>
                 \/ \E j \in 1 .. Len(c_writes) : c_writes[j].packet.id = "REQUEST_CHAT"
                 \/ c_main = "post_send" /\ c_id = "REQUEST_CHAT"
<1> USE DEF Client!io_vars, Client!main_vars, Client!client_vars, Client!server_vars
<1>0. /\ Client!TypeOK /\ Client!OneWrite /\ c_writes \in Seq(Write) /\ Len(c_writes) \in Nat
      /\ c_inbound \in Seq({"REPLY_LOGIN", "NOTICE_CHAT"})
  <2>1. /\ Client!TypeOK /\ Client!OneWrite
        /\ c_writes \in Seq(Write)
        /\ c_inbound \in Seq({"REPLY_LOGIN", "NOTICE_CHAT"})
    BY DEF ClientInv, Client!TypeOK, Write
  <2> QED
    BY <2>1
<1>1. c_is_logged_in_' => \/ c_is_logged_in_
                          \/ c_inbound # << >> /\ c_inbound[1] = "REPLY_LOGIN"
  <2>1. ASSUME NEW n \in 1 .. MaxLines + MaxNotices, Client!HandleReceive(n), n = 1
        PROVE  c_inbound # << >> /\ Head(c_inbound) = c_inbound[1]
    <3>1. 1 <= Len(c_inbound)
      BY <2>1 DEF Client!HandleReceive
    <3> QED
      BY <1>0, <3>1
  <2>2. \/ UNCHANGED c_is_logged_in_
        \/ \E n \in 1 .. MaxLines + MaxNotices : Client!HandleReceive(n)
    BY DEF Client!Next, Client!vars, Client!GetLine, Client!EndOfInput, Client!is_connecting,
           Client!is_logged_in, Client!PostSend, Client!StopService, Client!CloseSocket,
           Client!Join, Client!HandleConnect, Client!HandleWrite, Client!HandleReceiveError,
           Client!RunReturns, Client!ConnectCompletes, Client!WriteCompletes,
           Client!ServerReplies, Client!ServerNotifies, Client!ServerCloses
  <2> QED
    BY <2>1, <2>2 DEF Client!HandleReceive, Client!process_packet
<1>2. c_main' = "post_send" /\ c_id' = "REQUEST_CHAT" =>
         \/ c_main = "post_send" /\ c_id = "REQUEST_CHAT"
         \/ c_is_logged_in_
  <2>1. \/ UNCHANGED <<c_main, c_id>>
        \/ c_main' # "post_send"
        \/ Client!is_logged_in
    BY DEF Client!Next, Client!vars, Client!GetLine, Client!EndOfInput, Client!is_connecting,
           Client!PostSend, Client!StopService, Client!CloseSocket,
           Client!Join, Client!HandleConnect, Client!HandleWrite, Client!HandleReceiveError,
           Client!HandleReceive,
           Client!RunReturns, Client!ConnectCompletes, Client!WriteCompletes,
           Client!ServerReplies, Client!ServerNotifies, Client!ServerCloses
  <2> QED
    BY <2>1 DEF Client!is_logged_in
<1>3. \A i \in 1 .. Len(c_writes') : c_writes'[i].packet.id = "REQUEST_CHAT" =>
         \/ \E j \in 1 .. Len(c_writes) : c_writes[j].packet.id = "REQUEST_CHAT"
         \/ c_main = "post_send" /\ c_id = "REQUEST_CHAT"
  <2>1. CASE Elsewhere
    BY <2>1 DEF Elsewhere
  <2>2. CASE Client!PostSend
    <3> DEFINE packet == [id |-> c_id, n |-> Len(c_posted) + 1]
    <3>1. packet \in Client!Packet
      <4>1. c_posted \in Seq(Client!Packet) /\ c_id \in Client!Ids
        BY <1>0 DEF Client!TypeOK
      <4> QED
        BY <4>1 DEF Client!Packet
    <3>2. Client!post_send(packet) /\ c_main = "post_send" /\ packet.id = c_id
      BY <2>2 DEF Client!PostSend
    <3> HIDE DEF packet
    <3>3. \/ c_writes' = c_writes
          \/ /\ Len(c_writes') = Len(c_writes) + 1
             /\ c_writes'[Len(c_writes')].packet = packet
             /\ \A i \in 1 .. Len(c_writes) : c_writes'[i] = c_writes[i]
      BY <1>0, <3>1, <3>2, PostSendKeeps
    <3> QED
      BY <1>0, <3>2, <3>3
  <2>3. CASE Client!CloseSocket \/ Client!HandleReceiveError
    <3>1. Client!close
      BY <2>3 DEF Client!CloseSocket, Client!HandleReceiveError
    <3> QED
      BY <1>0, <3>1, CloseKeeps
  <2>4. CASE Client!HandleWrite
    <3>1. c_writes' = << >>
      BY <1>0, <2>4, HandleWriteKeeps
    <3> QED
      BY <3>1
  <2>5. CASE Client!WriteCompletes
    <3>1. Len(c_writes) = 1 /\ Len(c_writes') = 1 /\ c_writes'[1].packet = c_writes[1].packet
      BY <1>0, <2>5, CompletesKeeps
    <3>2. \A i \in 1 .. 1 : i = 1
      OBVIOUS
    <3> QED
      BY <3>1, <3>2
  <2> QED
    BY <2>1, <2>2, <2>3, <2>4, <2>5, ClientStepKinds
<1> QED
  BY <1>1, <1>2, <1>3

\* A login that the server processed is not undone, and before the client has
\* connected there is none of it.
LEMMA LoginStays ==
    ASSUME SysInv, [SystemNext]_system_vars
    PROVE  LoggedIn => LoggedIn' /\ me' = me
<1>0. /\ Inv /\ NamesInv /\ WireInv /\ OutInv /\ ClientInv
      /\ last_login \in [Connections -> Nat]
  BY DEF SysInv, Inv, TypeOK
<1>1. CASE UNCHANGED <<me, last_login>>
  BY <1>1 DEF LoggedIn
<1>2. CASE ClientConnects
  <2>1. c_connect = "pending"
    BY <1>2 DEF ClientConnects, Client!ConnectCompletes
  <2>2. me = 0
    BY <1>0, <2>1 DEF ClientInv
  <2>3. 0 \notin Connections
    BY ServerAssumption DEF Connections
  <2> QED
    BY <2>2, <2>3 DEF LoggedIn
<1>3. ASSUME NEW s \in Sessions, NEW n \in 1 .. HeaderSize, NEW p \in InPacket,
             NEW y \in OutPacket, ServerReceives(s, n), Receives(s, p, y)
      PROVE  LoggedIn => LoggedIn' /\ me' = me
  <2>1. me' = me
    BY <1>0, <1>3, ReceiveFacts
  <2>2. p.n \in Nat \ {0}
    BY DEF InPacket
  <2>3. last_login' = last_login \/ last_login' = [last_login EXCEPT ![conn[s]] = p.n]
    BY <1>3 DEF Receives, ReceivesLogin, ReceivesChat
  <2> QED
    BY <1>0, <2>1, <2>2, <2>3 DEF LoggedIn
<1>4. CASE \/ \E n \in 1 .. MaxLines + MaxNotices : ClientReceives(n)
           \/ \E s \in Sessions : ServerReaches(s)
  <2>1. UNCHANGED <<vars, me>>
    BY <1>4, ClientReceiveFacts, ReachesFacts
  <2> QED
    BY <1>1, <2>1 DEF vars, history_vars
<1>5. CASE ClientWrites /\ c_written' # c_written
  BY <1>1, <1>5, WritesFacts
<1> QED
  BY <1>1, <1>2, <1>3, <1>4, <1>5, MeetingSteps DEF Meets, Apart

\* The client's flag, its replies and its chats go back to its login.
LEMMA OwnStep ==
    ASSUME SysInv, [SystemNext]_system_vars
    PROVE  OwnInv'
<1>0. /\ Inv /\ NamesInv /\ WireInv /\ OutInv /\ ClientInv /\ MeetingTypeOK /\ OwnInv
      /\ NoticeInv /\ [Next]_vars /\ [Client!Next]_(Client!vars)
  <2>1. /\ Inv /\ NamesInv /\ WireInv /\ OutInv /\ ClientInv /\ MeetingTypeOK /\ OwnInv
        /\ NoticeInv
    BY DEF SysInv, MeetingInv
  <2> QED
    BY <2>1, ServerStep, ClientNext DEF MeetingTypeOK
<1>1. LoggedIn => LoggedIn' /\ me' = me
  BY LoginStays
<1>2. /\ incoming \in Seq(OutPacket) /\ said \in Seq(Notice)
      /\ c_inbound = [i \in 1 .. Len(incoming) |-> incoming[i].id]
      /\ c_inbound \in Seq({"REPLY_LOGIN", "NOTICE_CHAT"})
  BY <1>0 DEF MeetingTypeOK, ClientInv, Client!TypeOK
<1>3. c_is_logged_in_' => LoggedIn'
  <2>1. c_inbound # << >> /\ c_inbound[1] = "REPLY_LOGIN" => LoggedIn
    <3>1. c_inbound # << >> => 1 \in 1 .. Len(c_inbound)
      BY <1>2
    <3>2. Len(c_inbound) = Len(incoming)
      <4>1. DOMAIN c_inbound = 1 .. Len(incoming) /\ Len(incoming) \in Nat
        BY <1>2
      <4> QED
        BY <1>2, <4>1, LenProperties
    <3> QED
      BY <1>0, <1>2, <3>1, <3>2 DEF OwnInv
  <2>2. c_is_logged_in_ => LoggedIn
    BY <1>0 DEF OwnInv
  <2> QED
    BY <1>0, <1>1, <2>1, <2>2, ClientChats
<1>4. c_main' = "post_send" /\ c_id' = "REQUEST_CHAT" => LoggedIn'
  BY <1>0, <1>1, ClientChats DEF OwnInv
<1>5. \A i \in 1 .. Len(c_writes') : c_writes'[i].packet.id = "REQUEST_CHAT" => LoggedIn'
  BY <1>0, <1>1, ClientChats DEF OwnInv
<1>6. ASSUME NEW s \in Sessions, NEW x \in OutPacket, Going(s, x)', x.id = "REPLY_LOGIN"
      PROVE  LoggedIn'
  <2>1. CASE Going(s, x)
    BY <1>0, <1>1, <1>6, <2>1 DEF OwnInv
  <2>2. ASSUME NEW t \in Sessions, NEW n \in 1 .. HeaderSize, NEW p \in InPacket,
               ServerReceives(t, n), Receives(t, p, x), conn[s] = me, t = s,
               ReceivesLogin(t, p, x)
        PROVE  LoggedIn'
    <3>1. me' = me
      BY <1>0, <2>2, ReceiveFacts
    <3>2. /\ conn[s] \in Connections /\ p.n \in Nat \ {0}
          /\ last_login' = [last_login EXCEPT ![conn[s]] = p.n]
          /\ last_login \in [Connections -> Nat]
      BY <1>0, <2>2 DEF ReceivesLogin, InPacket, Receives, Inv, TypeOK
    <3> QED
      BY <2>2, <3>1, <3>2 DEF LoggedIn
  <2> QED
    BY <1>6, <2>1, <2>2, GoingStep
<1>7. /\ accepted \in Nat /\ accepted' \in Nat /\ accepted <= accepted'
      /\ \A i \in 1 .. Len(said) : said[i].from \in Nat /\ said[i].from <= accepted
  <2>1. accepted \in Nat /\ accepted' \in Nat /\ accepted <= accepted'
    BY <1>0, Grows
  <2>2. \A i \in 1 .. Len(said) : said[i] \in Notice
    BY <1>2, ElementOfSeq
  <2>3. \A x \in Notice : x.from \in Nat
    BY ServerAssumption DEF Notice, Connections
  <2> QED
    BY <1>0, <2>1, <2>2, <2>3 DEF OwnInv
<1>8. \A i \in 1 .. Len(said) : said[i].from <= accepted'
  BY <1>7
<1>9. \A i \in 1 .. Len(incoming') : incoming'[i].id = "REPLY_LOGIN" => LoggedIn
  <2>1. \A i \in 1 .. Len(incoming) : incoming[i].id = "REPLY_LOGIN" => LoggedIn
    BY <1>0 DEF OwnInv
  <2>2. ASSUME NEW n \in 1 .. MaxLines + MaxNotices, ClientReceives(n)
        PROVE  \A i \in 1 .. Len(incoming') : incoming'[i].id = "REPLY_LOGIN" => LoggedIn
    <3>1. /\ n \in 1 .. Len(incoming) /\ Len(incoming) \in Nat
          /\ Len(incoming') = Len(incoming) - n
          /\ \A i \in 1 .. Len(incoming') : incoming'[i] = incoming[n + i]
      BY <2>2, ClientReceiveFacts
    <3>2. \A i \in 1 .. Len(incoming') : n + i \in 1 .. Len(incoming)
      BY <3>1
    <3> QED
      BY <2>1, <3>1, <3>2
  <2>3. ASSUME NEW s \in Sessions, ServerReaches(s)
        PROVE  \A i \in 1 .. Len(incoming') : incoming'[i].id = "REPLY_LOGIN" => LoggedIn
    <3>1. PICK x \in OutPacket : Going(s, x) /\ incoming' = Append(incoming, x)
      BY <2>3, ReachesFacts
    <3>2. x.id = "REPLY_LOGIN" => LoggedIn
      BY <1>0, <3>1 DEF OwnInv
    <3>3. /\ Len(incoming') = Len(incoming) + 1 /\ incoming'[Len(incoming) + 1] = x
          /\ \A i \in 1 .. Len(incoming) : incoming'[i] = incoming[i]
          /\ Len(incoming) \in Nat
      BY <1>2, <3>1, AppendProperties, LenProperties
    <3>4. \A i \in 1 .. Len(incoming) + 1 : i \in 1 .. Len(incoming) \/ i = Len(incoming) + 1
      BY <3>3
    <3> QED
      BY <2>1, <3>2, <3>3, <3>4
  <2>4. CASE incoming' = incoming
    BY <2>1, <2>4
  <2>5. \/ incoming' = incoming
        \/ \E n \in 1 .. MaxLines + MaxNotices : ClientReceives(n)
        \/ \E s \in Sessions : ServerReaches(s)
    <3>1. CASE Meets
      BY <3>1 DEF Meets, ClientConnects, ClientWrites, ServerReceives
    <3> QED
      BY <3>1, MeetingSteps DEF Apart
  <2> QED
    BY <2>2, <2>3, <2>4, <2>5
<1>10. ASSUME NEW c \in Connections, NEW b \in Byte, c = me', Ahead(c, b)',
              b[1].id = "REQUEST_CHAT"
       PROVE  LoggedIn'
  <2>1. CASE c = me /\ Ahead(c, b)
    BY <1>0, <1>1, <1>10, <2>1 DEF OwnInv
  <2>2. CASE Apart
    BY <1>10, <2>1, <2>2 DEF Apart
  <2>3. ASSUME NEW n \in 1 .. MaxLines + MaxNotices, ClientReceives(n)
        PROVE  LoggedIn'
    <3>1. UNCHANGED <<vars, me>>
      BY <2>3, ClientReceiveFacts
    <3>2. Ahead(c, b)
      BY <1>10, <3>1 DEF vars, rx_vars, socket_vars, peer_vars, Ahead
    <3> QED
      BY <1>10, <2>1, <3>1, <3>2
  <2>4. CASE ClientConnects /\ Connect /\ me' = arrived + 1
    BY <1>10, <2>4, ConnectsFacts
  <2>5. CASE ClientWrites /\ c_written' # c_written
    <3>1. /\ me' = me /\ 1 \in 1 .. Len(c_writes)
          /\ \/ Ahead(c, b)
             \/ b[1].id = c_writes[1].packet.id
      BY <1>10, <2>5, WritesFacts
    <3>2. CASE b[1].id = c_writes[1].packet.id
      BY <1>0, <1>1, <1>10, <3>1, <3>2 DEF OwnInv
    <3> QED
      BY <1>10, <2>1, <3>1, <3>2
  <2>6. ASSUME NEW s \in Sessions, ServerReaches(s)
        PROVE  LoggedIn'
    <3>1. UNCHANGED <<vars, me>>
      BY <2>6, ReachesFacts
    <3>2. Ahead(c, b)
      BY <1>10, <3>1 DEF vars, rx_vars, socket_vars, peer_vars, Ahead
    <3> QED
      BY <1>10, <2>1, <3>1, <3>2
  <2>7. ASSUME NEW s \in Sessions, NEW n \in 1 .. HeaderSize, ServerReceives(s, n)
        PROVE  LoggedIn'
    <3>1. me' = me /\ sends' = sends
      BY <1>0, <2>7, ReceiveFacts
    <3>2. Ahead(c, b)
      BY <1>0, <1>10, <3>1, AheadShrinks
    <3> QED
      BY <1>10, <2>1, <3>1, <3>2
  <2> QED
    BY <2>2, <2>3, <2>4, <2>5, <2>6, <2>7, MeetingSteps DEF Meets
<1>11. \A i \in 1 .. Len(said') : said'[i].from <= accepted'
  <2>1. CASE said' = said
    BY <1>8, <2>1
  <2>2. ASSUME NEW s \in Sessions, NEW n \in 1 .. HeaderSize, NEW p \in InPacket,
               NEW y \in OutPacket, ServerReceives(s, n), Receives(s, p, y), said' # said
        PROVE  \A i \in 1 .. Len(said') : said'[i].from <= accepted'
    <3>1. accepted' = accepted
      BY <1>0, <2>2, ReceiveFacts
    <3>2. \A k \in 1 .. Len(said') :
             \/ k = Len(said) + 1 /\ said'[k] = y
             \/ k \in 1 .. Len(said) /\ said'[k] = said[k]
      BY <2>2, MadeStep
    <3>3. conn[s] \in 1 .. accepted /\ y.from = conn[s]
      BY <2>2 DEF Receives, ReceivesLogin, ReceivesChat, NoticeOf
    <3>4. y.from <= accepted
      BY <1>7, <3>3
    <3> QED
      BY <1>7, <3>1, <3>2, <3>4
  <2> QED
    BY <2>1, <2>2, SaidKept
<1>12. OutPacket' = OutPacket
  BY DEF OutPacket
<1>13. \A i \in 1 .. Len(incoming') : incoming'[i].id = "REPLY_LOGIN" => LoggedIn'
  BY <1>1, <1>9
<1> QED
  BY <1>3, <1>4, <1>5, <1>6, <1>10, <1>11, <1>12, <1>13 DEF OwnInv

\* What is received of the client was sent after all that was processed of it.
LEMMA ReceivedLater ==
    ASSUME ReplyInv, OwnInv, LoginInv, NEW s \in Sessions, NEW p \in InPacket,
           NEW y \in OutPacket, Receives(s, p, y), conn[s] = me
    PROVE  /\ me \in Connections /\ Later(p.n)
           /\ \E j \in 1 .. Len(sent_by_me) : sent_by_me[j] = p.n /\ c_written[j].id = p.id
           /\ p.id = "REQUEST_CHAT" => LoggedIn
<1>1. PICK b \in Byte : Ahead(conn[s], b) /\ b[1] = p /\ b[2] = 1
  BY DEF Receives
<1>2. me \in Connections /\ Ahead(me, b)
  BY <1>1 DEF Receives
<1>3. Later(p.n)
  BY <1>1, <1>2 DEF LoginInv
<1>4. \E j \in 1 .. Len(sent_by_me) : sent_by_me[j] = p.n /\ c_written[j].id = p.id
  BY <1>1, <1>2 DEF ReplyInv
<1>5. p.id = "REQUEST_CHAT" => LoggedIn
  BY <1>1, <1>2 DEF OwnInv
<1> QED
  BY <1>2, <1>3, <1>4, <1>5

\* What is on its way to the client when a packet is received: the logins that were
\* covered are, and one that is answered now is, since no chat after it was read.
LEMMA CoveredGoing ==
    ASSUME SysInv, [SystemNext]_system_vars,
           \A m \in Nat : Covered(m) => Covered(m)',
           NEW s \in Sessions, NEW x \in OutPacket, Going(s, x)', x.id = "REPLY_LOGIN"
    PROVE  Covered(x.n)'
<1>0. /\ Inv /\ NamesInv /\ WireInv /\ OutInv /\ ReplyInv /\ OwnInv /\ LoginInv
      /\ last_login \in [Connections -> Nat]
  BY DEF SysInv, MeetingInv, Inv, TypeOK
<1>1. CASE Going(s, x)
  <2>1. Covered(x.n) /\ x.n \in Nat
    BY <1>0, <1>1 DEF LoginInv, OutPacket
  <2> QED
    BY <2>1
<1>2. ASSUME NEW t \in Sessions, NEW n \in 1 .. HeaderSize, NEW p \in InPacket,
             ServerReceives(t, n), Receives(t, p, x), conn[s] = me, t = s,
             ReceivesLogin(t, p, x)
      PROVE  Covered(x.n)'
  <2>1. me' = me
    BY <1>0, <1>2, ReceiveFacts
  <2>2. me \in Connections /\ Later(p.n)
    BY <1>0, <1>2, ReceivedLater
  <2>3. said' = said /\ last_login'[me] = p.n /\ x.n = p.n /\ p.n \in Nat
    BY <1>0, <1>2, <2>2 DEF ReceivesLogin, ReplyTo, InPacket
  <2>4. \A i \in 1 .. Len(said) : said[i].from = me => said[i].n < p.n
    BY <2>2 DEF Later
  <2>5. \A i \in 1 .. Len(said) : said[i].n \in Nat
    <3>1. /\ \A i \in 1 .. Len(said) : said[i].n \in 1 .. sends
          /\ sends \in Nat
      BY DEF SysInv, MeetingInv, SaidInv, Inv, TypeOK
    <3> QED
      BY <3>1
  <2> QED
    BY <2>1, <2>2, <2>3, <2>4, <2>5 DEF Covered
<1> QED
  BY <1>1, <1>2, GoingStep

\* The names that chats go under are logins of the client, and recent enough.
LEMMA LoginStep ==
    ASSUME SysInv, [SystemNext]_system_vars
    PROVE  LoginInv'
<1>0. /\ Inv /\ NamesInv /\ WireInv /\ OutInv /\ ClientInv /\ MeetingTypeOK
      /\ ReplyInv /\ SaidInv /\ OwnInv /\ LoginInv /\ LoginAccepted
      /\ last_login \in [Connections -> Nat] /\ sends \in Nat
  BY DEF SysInv, MeetingInv, Inv, TypeOK, NamesInv
<1>1. /\ sent_by_me \in Seq(1 .. sends) /\ Len(sent_by_me) \in Nat
      /\ c_written \in Seq(Client!Packet) /\ Len(sent_by_me) = Len(c_written)
      /\ c_answered \subseteq 1 .. Len(sent_by_me)
      /\ said \in Seq(Notice) /\ Len(said) \in Nat
      /\ \A i \in 1 .. Len(said) : said[i].n \in 1 .. sends
      /\ \A j \in 1 .. Len(sent_by_me) : sent_by_me[j] \in 1 .. sends
      /\ OutPacket' = OutPacket
  BY <1>0 DEF MeetingTypeOK, ReplyInv, SaidInv, ClientInv, Client!TypeOK, OutPacket
<1> DEFINE Answered == \A j \in c_answered : Covered(sent_by_me[j])
           Named == \A i \in 1 .. Len(said) : said[i].from = me =>
                       /\ said[i].name < said[i].n
                       /\ \E j \in 1 .. Len(sent_by_me) :
                             sent_by_me[j] = said[i].name /\ c_written[j].id = "REQUEST_LOGIN"
           Known == LoggedIn => \E j \in 1 .. Len(sent_by_me) :
                       sent_by_me[j] = last_login[me] /\ c_written[j].id = "REQUEST_LOGIN"
           ToCome == \A c \in Connections, b \in Byte :
                         c = me /\ Ahead(c, b) /\ b[2] = 1 => Later(b[1].n)
           Replies == \A s \in Sessions, x \in OutPacket :
                         Going(s, x) /\ x.id = "REPLY_LOGIN" => Covered(x.n)
<1>2. Answered /\ Named /\ Known /\ ToCome /\ Replies
  BY <1>0 DEF LoginInv, OwnName
<1>3. ASSUME Answered', Named', Known', ToCome', Replies'
      PROVE  LoginInv'
  <2>1. OwnName'
    BY <1>3 DEF OwnName, Covered
  <2> QED
    BY <1>3, <2>1 DEF LoginInv
<1>4. ASSUME UNCHANGED <<me, last_login, said, sent_by_me, c_written, c_answered>>,
             \A s \in Sessions, x \in OutPacket : Going(s, x)' => Going(s, x),
             \A c \in Connections, b \in Byte : c = me => (Ahead(c, b)' => Ahead(c, b))
      PROVE  LoginInv'
  <2>1. \A m : (Covered(m)' <=> Covered(m)) /\ (Later(m)' <=> Later(m))
    BY <1>4 DEF Covered, Later
  <2>2. Answered' /\ Named' /\ Known'
    BY <1>2, <1>4, <2>1 DEF LoggedIn
  <2>3. ToCome' /\ Replies'
    BY <1>1, <1>2, <1>4, <2>1
  <2> QED
    BY <1>3, <2>2, <2>3
<1>5. CASE Apart
  BY <1>4, <1>5 DEF Apart
<1>6. CASE \E n \in 1 .. MaxLines + MaxNotices : ClientReceives(n)
  <2>1. UNCHANGED <<vars, me, sent_by_me, passed, said, c_answered, c_written>>
    BY <1>6, ClientReceiveFacts
  <2>2. UNCHANGED <<last_login, is_open, conn, writes, inbound, packet_buffer_,
                    packet_buffer_mark_>>
    BY <2>1 DEF vars, history_vars, socket_vars, send_vars, peer_vars, rx_vars
  <2>3. \A s \in Sessions, x \in OutPacket : Going(s, x)' => Going(s, x)
    BY <2>1, <2>2 DEF Going
  <2>4. \A c \in Connections, b \in Byte : Ahead(c, b)' => Ahead(c, b)
    BY <2>2 DEF Ahead
  <2> QED
    BY <1>4, <2>1, <2>2, <2>3, <2>4
<1>7. CASE ClientConnects /\ Connect /\ me' = arrived + 1
  <2>1. /\ UNCHANGED <<said, accepted, last_login, c_answered>>
        /\ accepted < me'
        /\ \A s \in Sessions, x \in OutPacket : ~Going(s, x)'
        /\ \A c \in Connections, b \in Byte : c = me' => ~Ahead(c, b)'
    BY <1>7, ConnectsFacts
  <2>2. me = 0
    BY <1>0, <1>7 DEF ClientConnects, Client!ConnectCompletes, ClientInv
  <2>3. c_answered = {}
    <3>1. me \notin Connections
      BY <2>2, ServerAssumption DEF Connections
    <3> QED
      BY <1>2, <3>1 DEF Covered
  <2>4. /\ accepted \in Nat /\ me' \in Nat
        /\ \A i \in 1 .. Len(said) : said[i].from \in Nat /\ said[i].from <= accepted
    <3>1. accepted \in Nat /\ me' \in Nat
      BY <1>0, <1>7 DEF Inv, TypeOK
    <3>2. \A i \in 1 .. Len(said) : said[i] \in Notice
      BY <1>1, ElementOfSeq
    <3>3. \A x \in Notice : x.from \in Nat
      BY ServerAssumption DEF Notice, Connections
    <3> QED
      BY <1>0, <3>1, <3>2, <3>3 DEF OwnInv
  <2>5. ~LoggedIn'
    <3>1. me' \in Connections => last_login[me'] = 0
      BY <1>0, <2>1, <2>4 DEF LoginAccepted
    <3> QED
      BY <2>1, <3>1 DEF LoggedIn
  <2>6. \A i \in 1 .. Len(said') : said'[i].from # me'
    BY <2>1, <2>4
  <2>7. Answered' /\ Named' /\ Known'
    BY <2>1, <2>3, <2>5, <2>6
  <2>8. ToCome' /\ Replies'
    BY <1>1, <2>1
  <2> QED
    BY <1>3, <2>7, <2>8
<1>8. CASE ClientWrites /\ c_written' # c_written
  <2>1. /\ me \in Connections /\ c_writes[1] \in Write
        /\ c_written' = Append(c_written, c_writes[1].packet)
        /\ sent_by_me' = Append(sent_by_me, sends + 1)
        /\ UNCHANGED <<me, said, last_login, c_answered>>
        /\ \A t \in Sessions, y \in OutPacket : Going(t, y)' => Going(t, y)
        /\ \A d \in Connections, b \in Byte :
              Ahead(d, b)' => Ahead(d, b) \/ b[1].n = sends + 1
    BY <1>8, WritesFacts
  <2>2. \A m : (Covered(m)' <=> Covered(m)) /\ (Later(m)' <=> Later(m))
    BY <2>1 DEF Covered, Later
  <2>3. \A j \in 1 .. Len(sent_by_me) :
           /\ j \in 1 .. Len(sent_by_me')
           /\ sent_by_me'[j] = sent_by_me[j] /\ c_written'[j] = c_written[j]
    <3>1. c_writes[1].packet \in Client!Packet /\ sends + 1 \in Nat
      BY <1>0, <2>1 DEF Write
    <3>2. sent_by_me \in Seq(Nat)
      <4>1. 1 .. sends \subseteq Nat
        BY <1>0
      <4> QED
        BY <1>1, <4>1, SeqMonotonic
    <3> QED
      BY <1>1, <2>1, <3>1, <3>2, AppendProperties
  <2>4. Answered' /\ Named' /\ Known'
    <3>1. Answered'
      BY <1>1, <1>2, <2>1, <2>2, <2>3
    <3>2. Named'
      <4> SUFFICES ASSUME NEW i \in 1 .. Len(said), said[i].from = me
                   PROVE  /\ said[i].name < said[i].n
                          /\ \E j \in 1 .. Len(sent_by_me') : /\ sent_by_me'[j] = said[i].name
                                                              /\ c_written'[j].id = "REQUEST_LOGIN"
        BY <2>1
      <4>1. PICK j \in 1 .. Len(sent_by_me) :
               sent_by_me[j] = said[i].name /\ c_written[j].id = "REQUEST_LOGIN"
        BY <1>2
      <4>2. said[i].name < said[i].n
        BY <1>2
      <4> QED
        BY <2>3, <4>1, <4>2
    <3>3. Known'
      BY <1>2, <2>1, <2>3 DEF LoggedIn
    <3> QED
      BY <3>1, <3>2, <3>3
  <2>5. Later(sends + 1)
    <3>1. last_login[me] < sends + 1
      <4>1. CASE last_login[me] = 0
        BY <1>0, <4>1
      <4>2. CASE last_login[me] # 0
        BY <1>0, <1>1, <1>2, <2>1, <4>2 DEF LoggedIn
      <4> QED
        BY <4>1, <4>2
    <3>2. \A i \in 1 .. Len(said) : said[i].n < sends + 1
      BY <1>0, <1>1
    <3> QED
      BY <3>1, <3>2 DEF Later
  <2>6. ToCome'
    <3> SUFFICES ASSUME NEW c \in Connections, NEW b \in Byte, c = me', Ahead(c, b)', b[2] = 1
                 PROVE  Later(b[1].n)'
      OBVIOUS
    <3>1. CASE Ahead(c, b)
      BY <1>2, <2>1, <2>2, <3>1
    <3>2. CASE b[1].n = sends + 1
      BY <2>2, <2>5, <3>2
    <3> QED
      BY <2>1, <3>1, <3>2
  <2>7. Replies'
    BY <1>1, <1>2, <2>1, <2>2
  <2> QED
    BY <1>3, <2>4, <2>6, <2>7
<1>9. ASSUME NEW s \in Sessions, ServerReaches(s)
      PROVE  LoginInv'
  <2>1. PICK x \in OutPacket :
           /\ Going(s, x)
           /\ c_answered' = IF x.id = "REPLY_LOGIN"
                            THEN c_answered \cup {i \in 1 .. Len(sent_by_me) :
                                                     sent_by_me[i] = x.n}
                            ELSE c_answered
    BY <1>9, ReachesFacts
  <2>2. /\ \A t \in Sessions, y \in OutPacket : ~Going(t, y)'
        /\ UNCHANGED <<vars, me, sent_by_me, said, c_written>>
    BY <1>9, ReachesFacts
  <2>3. UNCHANGED <<last_login, is_open, conn, inbound, packet_buffer_, packet_buffer_mark_>>
    BY <2>2 DEF vars, history_vars, socket_vars, peer_vars, rx_vars
  <2>4. \A m : (Covered(m)' <=> Covered(m)) /\ (Later(m)' <=> Later(m))
    BY <2>2, <2>3 DEF Covered, Later
  <2>5. \A j \in c_answered' : Covered(sent_by_me[j])
    <3>1. x.id = "REPLY_LOGIN" => Covered(x.n)
      BY <1>2, <2>1
    <3> QED
      BY <1>2, <2>1, <3>1
  <2>6. Answered' /\ Named' /\ Known'
    BY <1>2, <2>2, <2>3, <2>4, <2>5 DEF LoggedIn
  <2>7. ToCome'
    <3>1. \A c \in Connections, b \in Byte : Ahead(c, b)' => Ahead(c, b)
      BY <2>3 DEF Ahead
    <3> QED
      BY <1>2, <2>2, <2>4, <3>1
  <2>8. Replies'
    BY <1>1, <2>2
  <2> QED
    BY <1>3, <2>6, <2>7, <2>8
<1>10. ASSUME NEW s \in Sessions, NEW n \in 1 .. HeaderSize, NEW p \in InPacket,
              NEW y \in OutPacket, ServerReceives(s, n), Receives(s, p, y)
       PROVE  LoginInv'
  <2>1. UNCHANGED <<client_vars, me, sent_by_me, sends>>
    BY <1>0, <1>10, ReceiveFacts
  <2>2. UNCHANGED <<c_written, c_answered>>
    BY <2>1 DEF client_vars, c_other_vars
  <2>3. \A c \in Connections, b \in Byte : Ahead(c, b)' => Ahead(c, b)
    BY <1>0, <2>1, AheadShrinks, ServerStep DEF MeetingTypeOK
  <2>4. p.n \in Nat /\ conn[s] \in Connections /\ p.from = conn[s]
    BY <1>10 DEF Receives, InPacket
  <2>5. \/ last_login' = last_login
        \/ /\ last_login' = [last_login EXCEPT ![conn[s]] = p.n]
           /\ p.id = "REQUEST_LOGIN" /\ said' = said
    BY <1>10 DEF Receives, ReceivesLogin, ReceivesChat
  <2>6. \A k \in 1 .. Len(said') :
           \/ /\ said'[k] = y /\ y = NoticeOf(s, p) /\ p.id = "REQUEST_CHAT"
              /\ last_login' = last_login
           \/ k \in 1 .. Len(said) /\ said'[k] = said[k]
    <3>1. CASE said' = said
      BY <3>1
    <3>2. CASE said' # said
      <4>1. \A k \in 1 .. Len(said') :
               said'[k] = y \/ (k \in 1 .. Len(said) /\ said'[k] = said[k])
        BY <1>10, <3>2, MadeStep
      <4>2. ReceivesChat(s, p, y)
        BY <1>10, <3>2 DEF Receives, ReceivesLogin
      <4> QED
        BY <4>1, <4>2 DEF ReceivesChat
    <3> QED
      BY <3>1, <3>2
  <2>7. y = NoticeOf(s, p) => y.from = conn[s] /\ y.n = p.n /\ y.name = name_[s]
    BY <2>4 DEF NoticeOf
  <2>8. conn[s] = me =>
           /\ me \in Connections /\ Later(p.n)
           /\ \E j \in 1 .. Len(sent_by_me) : sent_by_me[j] = p.n /\ c_written[j].id = p.id
           /\ p.id = "REQUEST_CHAT" => LoggedIn /\ name_[s] = last_login[me]
    <3>1. is_open[s]
      BY <1>10 DEF Receives
    <3> QED
      BY <1>0, <1>10, <3>1, ReceivedLater DEF NamesInv, NameOwn, LoggedIn
  <2>9. me \in Connections =>
           /\ last_login[me] \in Nat
           /\ \/ last_login'[me] = last_login[me]
              \/ conn[s] = me /\ last_login'[me] = p.n /\ p.id = "REQUEST_LOGIN"
    BY <1>0, <2>5
  <2>10. ASSUME NEW m \in Nat, Covered(m)
         PROVE  Covered(m)'
    <3>1. me \in Connections /\ m <= last_login[me]
      BY <2>10 DEF Covered
    <3>2. m <= last_login'[me]
      <4>1. conn[s] = me => last_login[me] < p.n
        BY <2>8 DEF Later
      <4> QED
        BY <2>4, <2>9, <3>1, <4>1
    <3>3. ASSUME NEW k \in 1 .. Len(said'), said'[k].from = me, m < said'[k].n
          PROVE  m <= said'[k].name
      <4>1. CASE k \in 1 .. Len(said) /\ said'[k] = said[k]
        BY <2>10, <3>3, <4>1 DEF Covered
      <4>2. CASE said'[k] = y /\ y = NoticeOf(s, p) /\ p.id = "REQUEST_CHAT"
        BY <2>7, <2>8, <3>1, <3>3, <4>2
      <4> QED
        BY <2>6, <4>1, <4>2
    <3> QED
      BY <2>1, <3>1, <3>2, <3>3 DEF Covered
  <2>11. Answered'
    <3>1. \A j \in c_answered : sent_by_me[j] \in Nat
      BY <1>0, <1>1
    <3> QED
      BY <1>2, <2>1, <2>2, <2>10, <3>1
  <2>12. Known'
    <3>1. CASE me \in Connections /\ last_login'[me] = last_login[me]
      BY <1>2, <2>1, <2>2, <3>1 DEF LoggedIn
    <3>2. CASE conn[s] = me /\ last_login'[me] = p.n /\ p.id = "REQUEST_LOGIN"
      BY <2>1, <2>2, <2>8, <3>2
    <3> QED
      BY <2>1, <2>9, <3>1, <3>2 DEF LoggedIn
  <2>13. Named'
    <3> SUFFICES ASSUME NEW k \in 1 .. Len(said'), said'[k].from = me
                 PROVE  /\ said'[k].name < said'[k].n
                        /\ \E j \in 1 .. Len(sent_by_me) :
                              sent_by_me[j] = said'[k].name /\ c_written[j].id = "REQUEST_LOGIN"
      BY <2>1, <2>2
    <3>1. CASE k \in 1 .. Len(said) /\ said'[k] = said[k]
      BY <1>2, <3>1
    <3>2. CASE said'[k] = y /\ y = NoticeOf(s, p) /\ p.id = "REQUEST_CHAT"
      <4>1. LoggedIn /\ y.name = last_login[me] /\ y.n = p.n /\ Later(p.n)
        BY <2>7, <2>8, <3>2
      <4> QED
        BY <1>2, <3>2, <4>1 DEF Later
    <3> QED
      BY <2>6, <3>1, <3>2
  <2>14. ToCome'
    <3> SUFFICES ASSUME NEW c \in Connections, NEW b \in Byte, c = me, Ahead(c, b)', b[2] = 1
                 PROVE  Later(b[1].n)'
      BY <2>1
    <3>1. Later(b[1].n)
      BY <1>2, <2>3
    <3>2. conn[s] = me => p.n < b[1].n
      BY <1>10 DEF Receives
    <3>3. last_login'[me] < b[1].n
      BY <2>9, <3>1, <3>2 DEF Later
    <3>4. ASSUME NEW k \in 1 .. Len(said'), said'[k].from = me
          PROVE  said'[k].n < b[1].n
      <4>1. CASE k \in 1 .. Len(said) /\ said'[k] = said[k]
        BY <3>1, <3>4, <4>1 DEF Later
      <4>2. CASE said'[k] = y /\ y = NoticeOf(s, p)
        BY <2>7, <3>2, <3>4, <4>2
      <4> QED
        BY <2>6, <4>1, <4>2
    <3> QED
      BY <2>1, <3>3, <3>4 DEF Later
  <2>15. Replies'
    <3>1. \A m \in Nat : Covered(m) => Covered(m)'
      BY <2>10
    <3> QED
      BY <1>1, <3>1, CoveredGoing
  <2> QED
    BY <1>3, <2>11, <2>12, <2>13, <2>14, <2>15
<1> QED
  BY <1>5, <1>6, <1>7, <1>8, <1>9, <1>10, MeetingSteps DEF Meets

-------------------------------------------------------------------------------
(* What holds of the two together.                                           *)

\* The two start in a state of the invariant: nothing is built, sent or shown.
LEMMA SystemInitInv == SystemInit => SysInv
<1> SUFFICES ASSUME SystemInit PROVE SysInv
  OBVIOUS
<1>1. Init /\ Client!Init
  BY DEF SystemInit
<1>2. Inv /\ WireInv /\ OutInv
  BY <1>1, InitInv, InitWire
<1>3. NamesInv
  BY <1>1 DEF Init, RxInit, NamesInv, BytesOwn, FrontOwn, NameOwn, NameLeft,
                   ServesAlone, LoginAccepted
<1>4. /\ me = 0 /\ sent_by_me = << >> /\ incoming = << >> /\ passed = {} /\ said = << >>
      /\ shown = << >> /\ hurried = FALSE
      /\ Len(<< >>) = 0
  BY DEF SystemInit
<1>5. /\ c_socket = "open" /\ c_connect = "pending" /\ c_writes = << >> /\ c_posted = << >>
      /\ c_written = << >> /\ c_main = "getline" /\ c_lines = 0 /\ c_inbound = << >>
      /\ c_answered = {} /\ c_notices = 0 /\ c_id = "REQUEST_LOGIN" /\ ~c_is_logged_in_
  BY <1>1 DEF Client!Init
<1>12. \A S : << >> \in Seq(S)
  BY EmptySeq
<1>6. ClientInv
  <2>1. Client!TypeOK
    <3>1. /\ c_writes \in Seq([packet : Client!Packet, state : {"started", "done", "failed"}])
          /\ c_inbound \in Seq({"REPLY_LOGIN", "NOTICE_CHAT"})
          /\ c_posted \in Seq(Client!Packet) /\ c_written \in Seq(Client!Packet)
      BY <1>5, <1>12
    <3>2. c_send_data_queue_ \in Seq({NULL})
      BY <1>1, <1>12 DEF Client!Init
    <3>3. c_lines \in 0 .. MaxLines
      BY <1>5, SystemAssumption
    <3> QED
      BY <1>1, <3>1, <3>2, <3>3 DEF Client!Init, Client!TypeOK, Client!Ids
  <2>2. Client!OneWrite
    BY <1>4, <1>5 DEF Client!OneWrite
  <2>3. ClientCounts /\ ~Started
    BY <1>4, <1>5 DEF ClientCounts, Started
  <2> QED
    BY <1>4, <1>5, <2>1, <2>2, <2>3 DEF ClientInv
<1>7. MeetingTypeOK
  <2>1. arrived = 0
    BY <1>1 DEF Init
  <2>2. c_inbound = [i \in 1 .. Len(incoming) |-> incoming[i].id]
    <3>1. \A q : (q \in Seq({}) /\ Len(q) = 0) => q = << >>
      BY EmptySeq
    <3>2. [i \in 1 .. 0 |-> incoming[i].id] \in Seq({})
          /\ Len([i \in 1 .. 0 |-> incoming[i].id]) = 0
      BY IsASeq, LenProperties
    <3> QED
      BY <1>4, <1>5, <3>1, <3>2
  <2> QED
    <3>1. /\ incoming \in Seq(OutPacket) /\ sent_by_me \in Seq(1 .. sends)
          /\ said \in Seq(Notice) /\ shown \in Seq(Notice)
      BY <1>4, <1>12
    <3>2. Len(incoming) = 0 /\ Len(sent_by_me) = Len(c_written)
      BY <1>4, <1>5
    <3>3. me \in 0 .. arrived /\ passed \subseteq Sessions /\ hurried \in BOOLEAN
      <4>1. me = 0 /\ passed = {} /\ hurried = FALSE
        BY <1>4
      <4>2. me \in 0 .. arrived
        BY <2>1, <4>1
      <4>3. passed \subseteq Sessions
        BY <4>1
      <4>4. hurried \in BOOLEAN
        BY <4>1
      <4> QED
        BY <4>2, <4>3, <4>4
    <3>4. \A i \in 1 .. Len(incoming) :
             incoming[i].id = "REPLY_LOGIN" \/ incoming[i] \in Notice
      BY <3>2
    <3> QED
      BY <2>2, <3>1, <3>2, <3>3, <3>4, Zenon DEF MeetingTypeOK
<1>8. /\ \A s \in Sessions, x \in OutPacket : ~Going(s, x)
      /\ \A c \in Connections, b \in Byte : c = me => ~Ahead(c, b)
  <2>1. \A s \in Sessions : ~is_open[s]
    BY <1>1 DEF Init
  <2>2. 0 \notin Connections
    BY ServerAssumption DEF Connections
  <2> QED
    BY <1>4, <2>1, <2>2 DEF Going
<1>9. ReplyInv /\ SaidInv
  BY <1>4, <1>5, <1>8 DEF ReplyInv, SaidInv
<1>10. NoticeInv
  <2>1. \A x : ~Shown(x)
    BY <1>4 DEF Shown
  <2>2. \A i, x : ~Coming(i, x)
    BY <1>4 DEF Coming
  <2>3. \A s \in Sessions, x \in Notice : ~Going(s, x)
    BY <1>1 DEF Init, Going
  <2> QED
    BY <1>4, <1>5, <2>1, <2>2, <2>3 DEF NoticeInv
<1>11. OwnInv
  BY <1>4, <1>5, <1>8 DEF OwnInv, LoggedIn
<1>13. LoginInv
  <2>1. ~LoggedIn
    BY <1>4, ServerAssumption DEF LoggedIn, Connections
  <2> QED
    BY <1>4, <1>5, <1>8, <2>1 DEF LoginInv, OwnName
<1> QED
  BY <1>2, <1>3, <1>6, <1>7, <1>9, <1>10, <1>11, <1>13 DEF SysInv, MeetingInv

\* Every step of the two keeps the whole invariant.
LEMMA SysInvStep ==
    ASSUME SysInv, [SystemNext]_system_vars
    PROVE  SysInv'
<1>1. Inv /\ NamesInv /\ WireInv /\ OutInv /\ ClientInv /\ MeetingTypeOK
  BY DEF SysInv, MeetingInv
<1>2. [Next]_vars
  BY <1>1, ServerStep DEF MeetingTypeOK
<1>3. Inv'
  BY <1>1, <1>2, TypedStep, PoolStep DEF Inv
<1>4. NamesInv' /\ WireInv' /\ OutInv'
  BY <1>1, <1>2, NamesStep, WireStep, OutStep
<1>5. ClientInv'
  BY <1>1, ClientNext, ClientStep
<1>6. MeetingTypeOK' /\ ReplyInv' /\ SaidInv' /\ NoticeInv' /\ OwnInv' /\ LoginInv'
  BY MeetingTypeStep, ReplyStep, SaidStep, NoticeStep, OwnStep, LoginStep
<1> QED
  BY <1>3, <1>4, <1>5, <1>6 DEF SysInv, MeetingInv

\* So every state of the two together has it.
LEMMA SysInvariance == SystemSpec => []SysInv
BY SystemInitInv, SysInvStep, PTL DEF SystemSpec

\* Beside a real client the server behaves as ChatServer says, whose peers it
\* knows nothing of: what ChatServerProofs proves of the server holds of the two.
THEOREM ServerAsAlone == SystemSpec => Spec
<1>1. SystemInit => Init
  BY DEF SystemInit
<1>2. SysInv /\ [SystemNext]_system_vars => [Next]_vars
  <2>1. SysInv => Inv /\ ClientInv /\ me \in 0 .. arrived
    BY DEF SysInv, MeetingInv, MeetingTypeOK
  <2> QED
    BY <2>1, ServerStep
<1> QED
  BY <1>1, <1>2, SysInvariance, PTL DEF SystemSpec, Spec

\* The server does nothing that ChatClient does not expect of its server: every
\* reply answers a login of this client that was not answered before, although the
\* server keeps no account of what it answered (chatting_server.cpp:63-112).
THEOREM ServerAsExpected == SystemSpec => ClientSpec
<1>1. SystemInit => Client!Init
  BY DEF SystemInit
<1>2. SysInv /\ [SystemNext]_system_vars => [Client!Next]_(Client!vars)
  BY ClientNext
<1> QED
  BY <1>1, <1>2, SysInvariance, PTL DEF SystemSpec, ClientSpec, Client!Spec

\* The ids the client has coming are those of the packets the server wrote to it,
\* and every packet of the client that arrived has one number at the server.
THEOREM SystemTyped == SystemSpec => []SystemTypeOK
<1>1. SysInv => SystemTypeOK
  BY DEF SysInv, Inv, ClientInv, MeetingInv, MeetingTypeOK, SystemTypeOK
<1> QED
  BY <1>1, SysInvariance, PTL

\* A chat of the client is passed on under the text of a login that the client sent
\* before it, and never under an older one than one that was answered, however its
\* threads, the server's handlers, other peers and earlier users of its session
\* interleave (client_main.cpp:40-48, chatting_server.cpp:79 and :98).
THEOREM ChatsUnderOwnName == SystemSpec => []OwnName
<1>1. SysInv => OwnName
  BY DEF SysInv, MeetingInv, LoginInv
<1> QED
  BY <1>1, SysInvariance, PTL

\* The position in q of the last element of d.
LastIn(q, d) ==
    IF d = << >> THEN 0 ELSE CHOOSE i \in 1 .. Len(q) : q[i] = d[Len(d)]

\* Line numbers being distinct, the last line shown has one place among those written.
LEMMA LastIs ==
    ASSUME NEW q, NEW d, d # << >>, NEW k \in 1 .. Len(q), q[k] = d[Len(d)],
           \A i, j \in 1 .. Len(q) : q[i].n = q[j].n => i = j
    PROVE  LastIn(q, d) = k
<1>1. \A i \in 1 .. Len(q) : q[i] = d[Len(d)] => i = k
  OBVIOUS
<1> QED
  BY <1>1 DEF LastIn

\* A line the server makes is a line transmitted, a line the client shows is a line
\* delivered that was made later than the last one shown; no other step does either.
LEMMA ShowsStep ==
    ASSUME SysInv, SysInv', [SystemNext]_system_vars
    PROVE  [Shows!ChannelNext]_(Shows!channel_vars)
<1>0. /\ SaidInv /\ SaidInv' /\ NoticeInv
      /\ said \in Seq(Notice) /\ shown \in Seq(Notice) /\ Len(said) \in Nat
      /\ Inv /\ NamesInv /\ WireInv /\ OutInv
  <2>1. said \in Seq(Notice) /\ shown \in Seq(Notice)
    BY DEF SysInv, MeetingInv, MeetingTypeOK
  <2> QED
    BY <2>1, LenProperties DEF SysInv, MeetingInv
<1>1. shown # << >> => \E k \in 1 .. Len(said) : said[k] = shown[Len(shown)]
  <2>1. ASSUME shown # << >>
        PROVE  \E k \in 1 .. Len(said) : said[k] = shown[Len(shown)]
    <3>1. shown[Len(shown)] \in Notice
      <4>1. Len(shown) \in 1 .. Len(shown)
        BY <1>0, <2>1, EmptySeq, LenProperties
      <4> QED
        BY <1>0, <4>1, ElementOfSeq
    <3>2. Shown(shown[Len(shown)])
      BY <2>1 DEF Shown
    <3> QED
      BY <1>0, <3>1, <3>2 DEF NoticeInv, Made
  <2> QED
    BY <2>1
<1>2. CASE said' = said /\ shown' = shown
  BY <1>2 DEF Shows!channel_vars
<1>3. ASSUME NEW s \in Sessions, NEW p \in InPacket, NEW y \in OutPacket,
             Receives(s, p, y), said' # said, shown' = shown
      PROVE  Shows!ChannelNext
  <2>1. said' = Append(said, y) /\ y \in Notice
    BY <1>3 DEF Receives, ReceivesLogin, ReceivesChat
  <2>2. /\ Len(said') = Len(said) + 1
        /\ \A k \in 1 .. Len(said) : said'[k] = said[k] /\ k \in 1 .. Len(said')
    BY <1>0, <2>1, AppendProperties
  <2>3. LastIn(said', shown') = LastIn(said, shown)
    <3>1. CASE shown = << >>
      BY <1>3, <3>1 DEF LastIn
    <3>2. CASE shown # << >>
      <4>1. PICK k \in 1 .. Len(said) : said[k] = shown[Len(shown)]
        BY <1>1, <3>2
      <4>2. LastIn(said, shown) = k
        BY <1>0, <3>2, <4>1, LastIs DEF SaidInv
      <4>3. k \in 1 .. Len(said') /\ said'[k] = shown'[Len(shown')] /\ shown' # << >>
        BY <1>3, <2>2, <3>2, <4>1
      <4>4. \A i, j \in 1 .. Len(said') : said'[i].n = said'[j].n => i = j
        BY <1>0 DEF SaidInv
      <4>5. LastIn(said', shown') = k
        BY <4>3, <4>4, LastIs
      <4> QED
        BY <4>2, <4>5
    <3> QED
      BY <3>1, <3>2
  <2>4. Shows!Transmit(y)
    BY <1>3, <2>1, <2>3 DEF Shows!Transmit, LastIn
  <2> QED
    BY <2>1, <2>4 DEF Shows!ChannelNext
<1>4. ASSUME NEW n \in 1 .. MaxLines + MaxNotices, ClientReceives(n), shown' # shown
      PROVE  Shows!ChannelNext
  <2>1. /\ n \in 1 .. Len(incoming) /\ Len(incoming) \in Nat
        /\ incoming[1] \in Notice /\ shown' = Append(shown, incoming[1])
        /\ said' = said
    BY <1>4, ClientReceiveFacts
  <2>2. PICK z \in Notice : z = incoming[1]
    BY <2>1
  <2>3. Coming(1, z)
    <3>1. 1 \in 1 .. Len(incoming)
      BY <2>1
    <3> QED
      BY <2>2, <3>1 DEF Coming
  <2>4. PICK k \in 1 .. Len(said) : said[k] = z
    BY <1>0, <2>3 DEF NoticeInv, Made
  <2>5. shown' # << >> /\ shown'[Len(shown')] = z
    BY <1>0, <2>1, <2>2, AppendProperties
  <2>6. LastIn(said', shown') = k
    <3>1. \A i, j \in 1 .. Len(said') : said'[i].n = said'[j].n => i = j
      BY <1>0 DEF SaidInv
    <3> QED
      BY <2>1, <2>4, <2>5, <3>1, LastIs
  <2>7. LastIn(said, shown) < k
    <3>1. CASE shown = << >>
      BY <1>0, <2>4, <3>1 DEF LastIn
    <3>2. CASE shown # << >>
      <4>1. PICK j \in 1 .. Len(said) : said[j] = shown[Len(shown)]
        BY <1>1, <3>2
      <4>2. LastIn(said, shown) = j
        BY <1>0, <3>2, <4>1, LastIs DEF SaidInv
      <4>3. PICK w \in Notice : w = said[j]
        BY <1>0, ElementOfSeq
      <4>4. Shown(w)
        BY <3>2, <4>1, <4>3 DEF Shown
      <4>5. Before(w, z)
        BY <1>0, <2>3, <4>4 DEF NoticeInv
      <4>6. j < k
        BY <2>4, <4>3, <4>5 DEF Before
      <4> QED
        BY <4>2, <4>6
    <3> QED
      BY <3>1, <3>2
  <2>8. Shows!Deliver(k)
    BY <2>1, <2>2, <2>4, <2>6, <2>7 DEF Shows!Deliver, LastIn
  <2> QED
    BY <2>8 DEF Shows!ChannelNext
<1>5. \/ said' = said /\ shown' = shown
      \/ \E s \in Sessions, p \in InPacket, y \in OutPacket :
            Receives(s, p, y) /\ said' # said /\ shown' = shown
      \/ \E n \in 1 .. MaxLines + MaxNotices : ClientReceives(n) /\ shown' # shown
  <2>1. CASE Meets
    BY <2>1 DEF Meets, ClientReceives, ClientConnects, ClientWrites, ServerReaches,
                ServerReceives
  <2> QED
    BY <2>1, MeetingSteps DEF Apart
<1> QED
  BY <1>2, <1>3, <1>4, <1>5

\* What the client shows is what the server made of the chats it received, each
\* once at most and in the order the server received them, whichever sessions they
\* came from and whatever is lost on the way.
THEOREM ShownInOrder == SystemSpec => ShowsInOrder
<1>1. SystemInit => Shows!ChannelInit
  BY DEF SystemInit, Shows!ChannelInit
<1>2. SysInv /\ SysInv' /\ [SystemNext]_system_vars
          => [Shows!ChannelNext]_(Shows!channel_vars)
  BY ShowsStep
<1> QED
  BY <1>1, <1>2, SysInvariance, PTL DEF SystemSpec, ShowsInOrder, Shows!ChannelSpec

===============================================================================
