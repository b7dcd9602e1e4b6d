-------------------------- MODULE ChatServerProofs ---------------------------
(***************************************************************************)
(* Proofs about ChatServer, for every number of sessions, connections and  *)
(* packets, every header size and every limit.                             *)
(***************************************************************************)
EXTENDS ChatServer, TLAPS, SequenceTheorems

\* The inductive invariant.
Inv == TypeOK /\ InBounds /\ OneReader /\ OneWrite /\ PoolInv

\* What the buffer is after a chunk was inserted at the mark.
LEMMA FilledTyped ==
    ASSUME NEW S, NEW s \in Sessions, NEW chunk \in Seq(S),
           packet_buffer_[s] \in Seq(S),
           packet_buffer_mark_[s] \in 0 .. Len(packet_buffer_[s])
    PROVE  /\ Filled(s, chunk) \in Seq(S)
           /\ packet_data_size(s, chunk) \in Nat
           /\ packet_data_size(s, chunk) <= Len(Filled(s, chunk))
<1> DEFINE buf == packet_buffer_[s]
           m == packet_buffer_mark_[s]
           front == SubSeq(buf, 1, m)
           tail == SubSeq(buf, m + 1, Len(buf))
<1>1. front \in Seq(S)
  OBVIOUS
<1>2. Len(front) = m
  OBVIOUS
<1>3. tail \in Seq(S)
  OBVIOUS
<1>4. m \in Nat
  OBVIOUS
<1>5. Filled(s, chunk) = front \o chunk \o tail
  BY DEF Filled
<1>6. packet_data_size(s, chunk) = m + Len(chunk)
  BY DEF packet_data_size
<1> HIDE DEF front, tail, m, buf
<1> DEFINE x == front \o chunk
<1>7. x \in Seq(S) /\ Len(x) = Len(front) + Len(chunk)
  BY <1>1, ConcatProperties
<1>8. Len(x) = m + Len(chunk)
  BY <1>2, <1>7
<1> HIDE DEF x
<1>9. x \o tail \in Seq(S) /\ Len(x \o tail) = Len(x) + Len(tail)
  BY <1>7, <1>3, ConcatProperties
<1>10. Len(x) \in Nat /\ Len(tail) \in Nat
  BY <1>7, <1>3
<1>11. Len(x \o tail) >= Len(x)
  BY <1>9, <1>10
<1> QED
  BY <1>4, <1>5, <1>6, <1>8, <1>9, <1>11 DEF x

\* The packet a complete read hands to process_packet.
LEMMA CompleteTyped ==
    ASSUME NEW s \in Sessions, NEW chunk \in Seq(InPacket \X Nat),
           packet_buffer_[s] \in Seq(InPacket \X Nat),
           packet_buffer_mark_[s] \in 0 .. Len(packet_buffer_[s]),
           Complete(s, chunk)
    PROVE  header(PacketBytes(s, chunk)) \in InPacket
<1> DEFINE filled == Filled(s, chunk)
           size == packet_data_size(s, chunk)
           length == get_packet_size(header(filled))
<1>1. filled \in Seq(InPacket \X Nat) /\ size \in Nat /\ size <= Len(filled)
  BY FilledTyped
<1>2. size >= HeaderSize /\ length <= size
  BY DEF Complete
<1>3. PacketBytes(s, chunk) = SubSeq(filled, 1, length)
  BY DEF PacketBytes
<1>4. length = header(filled).content_size + HeaderSize
  BY DEF get_packet_size
<1> HIDE DEF filled, size, length
<1>5. 1 \in 1 .. Len(filled)
  BY <1>1, <1>2, HeaderSizeAssumption
<1>6. filled[1] \in InPacket \X Nat
  BY <1>1, <1>5
<1>7. header(filled) \in InPacket
  BY <1>6 DEF header
<1>8. length \in Nat /\ length >= 1
  BY <1>4, <1>7, HeaderSizeAssumption DEF InPacket
<1>9. SubSeq(filled, 1, length)[1] = filled[1]
  BY <1>1, <1>2, <1>8
<1> QED
  BY <1>3, <1>7, <1>9 DEF header

\* The bytes of a packet.
LEMMA BuildTyped ==
    ASSUME NEW p \in InPacket
    PROVE  build_packet(p) \in Seq(Byte)
<1>1. get_packet_size(p) \in Nat
  BY HeaderSizeAssumption DEF get_packet_size, InPacket
<1> QED
  BY <1>1 DEF build_packet, Byte

\* post_send keeps types, and one write for a queue that is not empty.
LEMMA PostSend ==
    ASSUME TypeOK, OneWrite, server # "crashed", server' = server,
           NEW targets, NEW data \in OutPacket, post_send(targets, data)
    PROVE  /\ send_data_queue_' \in [Sessions -> Seq({NULL})]
           /\ writes' \in [Sessions -> Seq(OutPacket)]
           /\ OneWrite'
<1>1. ASSUME NEW s \in Sessions
      PROVE  /\ send_data_queue_'[s] \in Seq({NULL})
             /\ writes'[s] \in Seq(OutPacket)
             /\ Len(writes'[s]) = IF send_data_queue_'[s] = << >> THEN 0 ELSE 1
  <2>1. /\ send_data_queue_[s] \in Seq({NULL}) /\ writes[s] \in Seq(OutPacket)
        /\ Len(writes[s]) = IF send_data_queue_[s] = << >> THEN 0 ELSE 1
    BY DEF TypeOK, OneWrite
  <2>2. CASE s \in targets
    <3>1. send_data_queue_'[s] = Append(send_data_queue_[s], NULL)
      BY <2>2 DEF post_send
    <3>2. writes'[s] = IF send_data_queue_[s] = << >> THEN Append(writes[s], data)
                                                     ELSE writes[s]
      BY <2>2 DEF post_send
    <3>3. send_data_queue_'[s] \in Seq({NULL}) /\ send_data_queue_'[s] # << >>
      <4>1. Append(send_data_queue_[s], NULL) \in Seq({NULL})
        BY <2>1
      <4>2. Len(Append(send_data_queue_[s], NULL)) = Len(send_data_queue_[s]) + 1
        BY <2>1
      <4>3. Len(send_data_queue_[s]) \in Nat
        BY <2>1
      <4> QED
        BY <3>1, <4>1, <4>2, <4>3
    <3>4. CASE send_data_queue_[s] = << >>
      <4>1. Len(writes[s]) = 0 /\ writes'[s] = Append(writes[s], data)
        BY <2>1, <3>2, <3>4
      <4>2. Append(writes[s], data) \in Seq(OutPacket)
        BY <2>1
      <4>3. Len(Append(writes[s], data)) = Len(writes[s]) + 1
        BY <2>1
      <4> QED
        BY <3>3, <4>1, <4>2, <4>3
    <3>5. CASE send_data_queue_[s] # << >>
      BY <2>1, <3>2, <3>3, <3>5
    <3> QED
      BY <3>4, <3>5
  <2>3. CASE s \notin targets
    BY <2>1, <2>3 DEF post_send
  <2> QED
    BY <2>2, <2>3
<1>2. /\ send_data_queue_' = [s \in Sessions |-> send_data_queue_'[s]]
      /\ writes' = [s \in Sessions |-> writes'[s]]
  BY DEF post_send
<1> QED
  BY <1>1, <1>2 DEF OneWrite

\* The receiving side of a session keeps its types.
LEMMA ReceiveTyped ==
    ASSUME TypeOK, InBounds, NEW s \in Sessions, NEW chunk \in Seq(Byte)
    PROVE  /\ KeepChunk(s, chunk) =>
                 /\ packet_buffer_' \in [Sessions -> Seq(Byte)]
                 /\ packet_buffer_mark_' \in [Sessions -> Nat]
                 /\ \A t \in Sessions : packet_buffer_mark_'[t] <= Len(packet_buffer_'[t])
           /\ clear_packet_buffer(s) =>
                 /\ packet_buffer_' \in [Sessions -> Seq(Byte)]
                 /\ packet_buffer_mark_' \in [Sessions -> Nat]
                 /\ content_read_mode_' \in [Sessions -> BOOLEAN]
                 /\ \A t \in Sessions : packet_buffer_mark_'[t] <= Len(packet_buffer_'[t])
<1>1. /\ packet_buffer_[s] \in Seq(Byte)
      /\ packet_buffer_mark_[s] \in 0 .. Len(packet_buffer_[s])
  BY DEF TypeOK, InBounds
<1>2. /\ Filled(s, chunk) \in Seq(Byte)
      /\ packet_data_size(s, chunk) \in Nat
      /\ packet_data_size(s, chunk) <= Len(Filled(s, chunk))
  BY <1>1, FilledTyped
<1> DEFINE filled == Filled(s, chunk)
           size == packet_data_size(s, chunk)
<1> HIDE DEF filled, size
<1>3. filled \in Seq(Byte) /\ size \in Nat /\ size <= Len(filled)
  BY <1>2 DEF filled, size
<1>4. ASSUME KeepChunk(s, chunk)
      PROVE  /\ packet_buffer_' \in [Sessions -> Seq(Byte)]
             /\ packet_buffer_mark_' \in [Sessions -> Nat]
             /\ \A t \in Sessions : packet_buffer_mark_'[t] <= Len(packet_buffer_'[t])
  <2>1. /\ packet_buffer_' = [packet_buffer_ EXCEPT ![s] = filled]
        /\ packet_buffer_mark_' = [packet_buffer_mark_ EXCEPT ![s] = size]
    BY <1>4 DEF KeepChunk, filled, size
  <2> QED
    BY <1>3, <2>1 DEF TypeOK, InBounds
<1>5. ASSUME clear_packet_buffer(s)
      PROVE  /\ packet_buffer_' \in [Sessions -> Seq(Byte)]
             /\ packet_buffer_mark_' \in [Sessions -> Nat]
             /\ content_read_mode_' \in [Sessions -> BOOLEAN]
             /\ \A t \in Sessions : packet_buffer_mark_'[t] <= Len(packet_buffer_'[t])
  BY <1>5 DEF clear_packet_buffer, TypeOK, InBounds
<1> QED
  BY <1>4, <1>5

\* close_session and handle_accept: what post_accept does to the pool's types.
LEMMA PostAcceptTyped ==
    ASSUME NEW queue \in Seq(Sessions), NEW pending \in SUBSET Sessions,
           post_accept(queue, pending)
    PROVE  /\ is_accepting_' \in BOOLEAN
           /\ session_queue_' \in Seq(Sessions)
           /\ accepts' \subseteq Sessions
<1>1. CASE queue = << >>
  BY <1>1 DEF post_accept
<1>2. CASE queue # << >>
  <2>1. Tail(queue) \in Seq(Sessions) /\ Head(queue) \in Sessions
    BY <1>2
  <2> QED
    BY <1>2, <2>1 DEF post_accept
<1> QED
  BY <1>1, <1>2

\* The ids of a queue.
Ids(queue) == {queue[i] : i \in 1 .. Len(queue)}

Distinct(queue) ==
    \A i, j \in 1 .. Len(queue) : queue[i] = queue[j] => i = j

\* post_accept takes one id of the queue, if there is one, to listen.
LEMMA PostAcceptListens ==
    ASSUME NEW queue \in Seq(Sessions), Distinct(queue), post_accept(queue, {})
    PROVE  /\ Pool!Listen(Ids(queue))
           /\ Distinct(session_queue_')
           /\ is_accepting_' <=> accepts' # {}
           /\ Queued' \cup accepts' = Ids(queue)
           /\ Queued' \cap accepts' = {}
           /\ \A s, t \in accepts' : s = t
           /\ Queued' # {} => accepts' # {}
<1>0. Queued' = Ids(session_queue_')
  BY DEF Queued, Ids
<1>1. CASE queue = << >>
  <2>1. is_accepting_' = FALSE /\ session_queue_' = << >> /\ accepts' = {}
    BY <1>1 DEF post_accept
  <2>2. Ids(queue) = {} /\ Queued' = {}
    BY <1>0, <1>1, <2>1 DEF Ids
  <2> QED
    BY <2>1, <2>2 DEF Pool!Listen, Distinct
<1>2. CASE queue # << >>
  <2>1. is_accepting_' = TRUE /\ session_queue_' = Tail(queue) /\ accepts' = {Head(queue)}
    BY <1>2 DEF post_accept
  <2>2. /\ Len(queue) \in Nat /\ Len(queue) >= 1
        /\ Len(Tail(queue)) = Len(queue) - 1
        /\ \A i \in 1 .. Len(queue) - 1 : Tail(queue)[i] = queue[i + 1]
        /\ Head(queue) = queue[1]
    BY <1>2
  <2>3. Head(queue) \in Ids(queue)
    BY <2>2 DEF Ids
  <2>4. ASSUME NEW s
        PROVE  s \in Ids(Tail(queue)) <=> s \in Ids(queue) \ {Head(queue)}
    <3>1. ASSUME s \in Ids(Tail(queue))
          PROVE  s \in Ids(queue) \ {Head(queue)}
      <4>1. PICK i \in 1 .. Len(queue) - 1 : s = queue[i + 1]
        BY <2>2, <3>1 DEF Ids
      <4>2. i + 1 \in 1 .. Len(queue) /\ 1 \in 1 .. Len(queue) /\ i + 1 # 1
        BY <2>2
      <4> QED
        BY <2>2, <4>1, <4>2 DEF Ids, Distinct
    <3>2. ASSUME s \in Ids(queue) \ {Head(queue)}
          PROVE  s \in Ids(Tail(queue))
      <4>1. PICK i \in 1 .. Len(queue) : s = queue[i]
        BY <3>2 DEF Ids
      <4>2. i # 1
        BY <2>2, <3>2, <4>1
      <4>3. i - 1 \in 1 .. Len(Tail(queue)) /\ Tail(queue)[i - 1] = s
        BY <2>2, <4>1, <4>2
      <4> QED
        BY <4>3 DEF Ids
    <3> QED
      BY <3>1, <3>2
  <2>5. Queued' = Ids(queue) \ {Head(queue)}
    BY <1>0, <2>1, <2>4
  <2>6. Distinct(Tail(queue))
    <3> SUFFICES ASSUME NEW i \in 1 .. Len(queue) - 1, NEW j \in 1 .. Len(queue) - 1,
                        queue[i + 1] = queue[j + 1]
                 PROVE  i = j
      BY <2>2 DEF Distinct
    <3>1. i + 1 \in 1 .. Len(queue) /\ j + 1 \in 1 .. Len(queue)
      BY <2>2
    <3>2. i + 1 = j + 1
      BY <3>1 DEF Distinct
    <3> QED
      BY <3>2
  <2> QED
    BY <2>1, <2>3, <2>5, <2>6 DEF Pool!Listen
<1> QED
  BY <1>1, <1>2

\* close_session puts the id of the session back at the end.
LEMMA Pushed ==
    ASSUME NEW queue \in Seq(Sessions), NEW s \in Sessions, s \notin Ids(queue),
           Distinct(queue)
    PROVE  /\ Append(queue, s) \in Seq(Sessions)
           /\ Ids(Append(queue, s)) = Ids(queue) \cup {s}
           /\ Distinct(Append(queue, s))
<1> DEFINE q == Append(queue, s)
<1>1. /\ q \in Seq(Sessions) /\ Len(queue) \in Nat /\ Len(q) = Len(queue) + 1
      /\ q[Len(queue) + 1] = s
      /\ \A i \in 1 .. Len(queue) : q[i] = queue[i]
  OBVIOUS
<1> HIDE DEF q
<1>2. ASSUME NEW t PROVE t \in Ids(q) <=> t \in Ids(queue) \cup {s}
  <2>1. ASSUME t \in Ids(q) PROVE t \in Ids(queue) \cup {s}
    <3>1. PICK i \in 1 .. Len(q) : t = q[i]
      BY <2>1 DEF Ids
    <3> QED
      BY <1>1, <3>1 DEF Ids
  <2>2. ASSUME t \in Ids(queue) PROVE t \in Ids(q)
    BY <1>1, <2>2 DEF Ids
  <2>3. s \in Ids(q)
    <3>1. Len(queue) + 1 \in 1 .. Len(q)
      BY <1>1
    <3> QED
      BY <1>1, <3>1 DEF Ids
  <2> QED
    BY <2>1, <2>2, <2>3
<1>3. ASSUME NEW i \in 1 .. Len(q), NEW j \in 1 .. Len(q), q[i] = q[j]
      PROVE  i = j
  <2>1. CASE i \in 1 .. Len(queue) /\ j \in 1 .. Len(queue)
    BY <1>1, <1>3, <2>1 DEF Distinct
  <2>2. CASE i = Len(queue) + 1 \/ j = Len(queue) + 1
    BY <1>1, <1>3, <2>2 DEF Ids
  <2> QED
    BY <1>1, <2>1, <2>2
<1> QED
  BY <1>1, <1>2, <1>3 DEF Distinct, q

\* A free session is accepted and the next one listens.
LEMMA AcceptStep ==
    ASSUME Inv, NEW s \in Sessions, HandleAccept(s)
    PROVE  PoolInv' /\ Pool!Accept(s)
<1> DEFINE Q == Ids(session_queue_)
<1>1. /\ TypeOK /\ OnePlace /\ FreeSessionListens /\ FailureSticks
      /\ s \in accepts /\ is_open' = [is_open EXCEPT ![s] = TRUE] /\ failed' = failed
      /\ post_accept(session_queue_, accepts \ {s})
  BY DEF Inv, PoolInv, HandleAccept
<1>2. accepts = {s} /\ accepts \ {s} = {}
  BY <1>1 DEF OnePlace
<1>3. ~failed /\ s \notin Q /\ Queued = Q /\ s \notin Open
  BY <1>1 DEF FailureSticks, OnePlace, Queued, Ids
<1>4. Distinct(session_queue_) /\ session_queue_ \in Seq(Sessions)
  BY <1>1 DEF Distinct, OnePlace, TypeOK
<1>5. /\ Pool!Listen(Q)
      /\ Distinct(session_queue_')
      /\ is_accepting_' <=> accepts' # {}
      /\ Queued' \cup accepts' = Q
      /\ Queued' \cap accepts' = {}
      /\ \A a, b \in accepts' : a = b
      /\ Queued' # {} => accepts' # {}
  BY <1>1, <1>2, <1>4, PostAcceptListens
<1>6. Open' = Open \cup {s}
  BY <1>1 DEF Open, TypeOK
<1>7. Q \cap Open = {} /\ Q \cup {s} \cup Open = Sessions
  BY <1>1, <1>2, <1>3 DEF OnePlace, FreeSessionListens
<1> HIDE DEF Q
<1>8. OnePlace'
  <2>1. \A i, j \in 1 .. Len(session_queue_') :
           session_queue_'[i] = session_queue_'[j] => i = j
    BY <1>5 DEF Distinct
  <2>2. Queued' \cap Open' = {} /\ accepts' \cap Open' = {}
    BY <1>3, <1>5, <1>6, <1>7
  <2> QED
    BY <1>5, <2>1, <2>2 DEF OnePlace
<1>9. FreeSessionListens' /\ FailureSticks'
  BY <1>1, <1>3, <1>5, <1>6, <1>7 DEF FreeSessionListens, FailureSticks
<1>10. Pool!Accept(s)
  BY <1>1, <1>3, <1>5, <1>6 DEF Pool!Accept
<1> QED
  BY <1>8, <1>9, <1>10 DEF PoolInv

\* A session whose connection is gone is given back.
LEMMA ReleaseStep ==
    ASSUME Inv, NEW s \in Sessions, HandleReceiveError(s)
    PROVE  PoolInv' /\ Pool!Release(s)
<1> DEFINE Q == Ids(session_queue_)
           queue == Append(session_queue_, s)
<1>1. /\ TypeOK /\ OnePlace /\ FreeSessionListens /\ FailureSticks /\ OneReader
      /\ reads[s] > 0 /\ is_open' = [is_open EXCEPT ![s] = FALSE] /\ failed' = failed
      /\ \/ is_accepting_ = FALSE /\ post_accept(queue, accepts)
         \/ /\ is_accepting_
            /\ session_queue_' = queue
            /\ UNCHANGED <<is_accepting_, accepts>>
  BY DEF Inv, PoolInv, HandleReceiveError, close_session
<1>2. is_open[s] /\ s \in Open
  BY <1>1 DEF OneReader, Open
<1>3. Open' = Open \ {s}
  BY <1>1 DEF Open, TypeOK
<1>4. /\ Queued = Q /\ s \notin Q /\ s \notin accepts
      /\ Q \cap Open = {} /\ accepts \cap Open = {} /\ Q \cap accepts = {}
  BY <1>1, <1>2 DEF OnePlace, Queued, Ids
<1>5. Distinct(session_queue_) /\ session_queue_ \in Seq(Sessions)
  BY <1>1 DEF Distinct, OnePlace, TypeOK
<1>6. queue \in Seq(Sessions) /\ Ids(queue) = Q \cup {s} /\ Distinct(queue)
  BY <1>4, <1>5, Pushed
<1> HIDE DEF Q, queue
<1>7. CASE is_accepting_ = FALSE /\ post_accept(queue, accepts)
  <2>1. ~failed /\ accepts = {}
    BY <1>1, <1>7 DEF FailureSticks, FreeSessionListens
  <2>2. /\ Pool!Listen(Q \cup {s})
        /\ Distinct(session_queue_')
        /\ is_accepting_' <=> accepts' # {}
        /\ Queued' \cup accepts' = Q \cup {s}
        /\ Queued' \cap accepts' = {}
        /\ \A a, b \in accepts' : a = b
        /\ Queued' # {} => accepts' # {}
    BY <1>6, <1>7, <2>1, PostAcceptListens
  <2>3. OnePlace'
    <3>1. \A i, j \in 1 .. Len(session_queue_') :
             session_queue_'[i] = session_queue_'[j] => i = j
      BY <2>2 DEF Distinct
    <3>2. Queued' \cap Open' = {} /\ accepts' \cap Open' = {}
      BY <1>3, <1>4, <2>2
    <3> QED
      BY <2>2, <3>1, <3>2 DEF OnePlace
  <2>4. FreeSessionListens' /\ FailureSticks'
    BY <1>1, <1>2, <1>3, <1>4, <2>1, <2>2 DEF FreeSessionListens, FailureSticks
  <2>5. Pool!Release(s)
    BY <1>1, <1>2, <1>3, <1>4, <2>1, <2>2 DEF Pool!Release
  <2> QED
    BY <2>3, <2>4, <2>5 DEF PoolInv
<1>8. CASE /\ is_accepting_
           /\ session_queue_' = queue
           /\ UNCHANGED <<is_accepting_, accepts>>
  <2>1. Queued' = Q \cup {s}
    BY <1>6, <1>8 DEF Queued, Ids
  <2>2. accepts # {} \/ failed
    BY <1>1, <1>8 DEF FreeSessionListens
  <2>3. OnePlace'
    <3>1. \A i, j \in 1 .. Len(session_queue_') :
             session_queue_'[i] = session_queue_'[j] => i = j
      BY <1>6, <1>8 DEF Distinct
    <3>2. /\ Queued' \cap Open' = {} /\ accepts' \cap Open' = {}
          /\ Queued' \cap accepts' = {}
      BY <1>3, <1>4, <1>8, <2>1
    <3>3. \A a, b \in accepts' : a = b
      BY <1>1, <1>8 DEF OnePlace
    <3> QED
      BY <3>1, <3>2, <3>3 DEF OnePlace
  <2>4. FreeSessionListens' /\ FailureSticks'
    BY <1>1, <1>2, <1>3, <1>4, <1>8, <2>1, <2>2 DEF FreeSessionListens, FailureSticks
  <2>5. Pool!Release(s)
    BY <1>1, <1>2, <1>3, <1>4, <1>8, <2>1, <2>2 DEF Pool!Release
  <2> QED
    BY <2>3, <2>4, <2>5 DEF PoolInv
<1> QED
  BY <1>1, <1>7, <1>8

\* A failed accept ends the listening.
LEMMA FailStep ==
    ASSUME Inv, NEW s \in Sessions, HandleAcceptError(s)
    PROVE  PoolInv' /\ Pool!Fail
<1>1. /\ OnePlace /\ FreeSessionListens /\ FailureSticks
      /\ s \in accepts /\ accepts' = accepts \ {s} /\ failed'
      /\ UNCHANGED <<is_accepting_, session_queue_, is_open>>
  BY DEF Inv, PoolInv, HandleAcceptError, socket_vars
<1>2. accepts' = {} /\ accepts # {} /\ ~failed /\ is_accepting_
  BY <1>1 DEF OnePlace, FailureSticks, FreeSessionListens
<1>3. Queued' = Queued /\ Open' = Open
  BY <1>1 DEF Queued, Open
<1> QED
  BY <1>1, <1>2, <1>3 DEF PoolInv, OnePlace, FreeSessionListens, FailureSticks, Pool!Fail

\* Every other handler leaves the pool alone.
LEMMA OtherSteps ==
    ASSUME Inv, UNCHANGED <<is_accepting_, session_queue_, accepts, failed, is_open>>
    PROVE  PoolInv' /\ UNCHANGED Pool!pool_vars
<1>1. Queued' = Queued /\ Open' = Open
  BY DEF Queued, Open
<1> QED
  BY <1>1 DEF Inv, PoolInv, OnePlace, FreeSessionListens, FailureSticks, Pool!pool_vars

\* Every step of the server is one of the pool, and keeps it sound.
LEMMA PoolStep ==
    ASSUME Inv, [Next]_vars
    PROVE  PoolInv' /\ [Pool!PoolNext]_(Pool!pool_vars)
<1>1. ASSUME NEW s \in Sessions, HandleAccept(s)
      PROVE  PoolInv' /\ [Pool!PoolNext]_(Pool!pool_vars)
  BY <1>1, AcceptStep DEF Pool!PoolNext
<1>2. ASSUME NEW s \in Sessions, HandleReceiveError(s)
      PROVE  PoolInv' /\ [Pool!PoolNext]_(Pool!pool_vars)
  BY <1>2, ReleaseStep DEF Pool!PoolNext
<1>3. ASSUME NEW s \in Sessions, HandleAcceptError(s)
      PROVE  PoolInv' /\ [Pool!PoolNext]_(Pool!pool_vars)
  BY <1>3, FailStep DEF Pool!PoolNext
<1>4. CASE UNCHANGED <<is_accepting_, session_queue_, accepts, failed, is_open>>
  BY <1>4, OtherSteps
<1> QED
  BY <1>1, <1>2, <1>3, <1>4
     DEF Next, vars, pool_vars, socket_vars, Connect, PeerSend, PeerClose,
         HandleReceive, HandleWrite, RunReturns

\* An open session serves a connection.
LEMMA OpenServes ==
    ASSUME TypeOK, InBounds, NEW s \in Sessions, is_open[s]
    PROVE  conn[s] \in Connections
<1>1. conn[s] \in 1 .. accepted /\ accepted <= arrived /\ arrived <= MaxConnections
  BY DEF InBounds
<1>2. accepted \in Nat /\ arrived \in Nat /\ MaxConnections \in Nat
  BY ServerAssumption DEF TypeOK
<1> QED
  BY <1>1, <1>2 DEF Connections

\* Each handler keeps types, bounds, one read and one write per socket.
LEMMA TypedStep ==
    ASSUME Inv, [Next]_vars
    PROVE  (TypeOK /\ InBounds /\ OneReader /\ OneWrite)'
<1> DEFINE Goal == TypeOK' /\ InBounds' /\ OneReader' /\ OneWrite'
<1>0. TypeOK /\ InBounds /\ OneReader /\ OneWrite /\ OnePlace
  BY DEF Inv, PoolInv
<1>1. CASE Connect
  <2>1. /\ arrived < MaxConnections /\ arrived' = arrived + 1
        /\ UNCHANGED <<rx_vars, pool_vars, socket_vars, send_vars, history_vars,
                       inbound, closed, sends, server>>
    BY <1>1 DEF Connect
  <2>2. arrived' \in Nat /\ accepted' <= arrived' /\ arrived' <= MaxConnections
    BY <1>0, <2>1, ServerAssumption DEF TypeOK, InBounds, socket_vars
  <2>3. TypeOK'
    BY <1>0, <2>1, <2>2 DEF TypeOK, rx_vars, pool_vars, socket_vars, send_vars,
                            history_vars
  <2> QED
    BY <1>0, <2>1, <2>2, <2>3 DEF InBounds, OneReader, OneWrite, rx_vars,
                                  socket_vars, send_vars
<1>2. ASSUME NEW c \in Connections, NEW kind \in Kinds, PeerSend(c, kind)
      PROVE  Goal
  <2> DEFINE p == [id |-> kind.id, content_size |-> kind.content_size,
                   from |-> c, n |-> sends + 1]
  <2>1. p \in InPacket
    BY <1>0, ServerAssumption DEF InPacket, TypeOK, Connections, PacketIds
  <2>2. /\ inbound' = [inbound EXCEPT ![c] = @ \o build_packet(p)]
        /\ sends' = sends + 1
        /\ UNCHANGED <<rx_vars, pool_vars, socket_vars, send_vars, history_vars,
                       arrived, closed, server>>
    BY <1>2 DEF PeerSend
  <2> HIDE DEF p
  <2>3. inbound[c] \o build_packet(p) \in Seq(Byte)
    <3>1. inbound[c] \in Seq(Byte) /\ build_packet(p) \in Seq(Byte)
      BY <1>0, <2>1, BuildTyped DEF TypeOK
    <3> QED
      BY <3>1
  <2>4. inbound' \in [Connections -> Seq(Byte)] /\ sends' \in Nat
    BY <1>0, <2>2, <2>3 DEF TypeOK
  <2> QED
    BY <1>0, <2>2, <2>4 DEF TypeOK, InBounds, OneReader, OneWrite, rx_vars,
                            pool_vars, socket_vars, send_vars, history_vars
<1>3. ASSUME NEW c \in Connections, PeerClose(c)
      PROVE  Goal
  BY <1>0, <1>3 DEF PeerClose, TypeOK, InBounds, OneReader, OneWrite, rx_vars,
                    pool_vars, socket_vars, send_vars, history_vars
<1>4. ASSUME NEW s \in Sessions, HandleAccept(s)
      PROVE  Goal
  <2>1. /\ is_accepting_' \in BOOLEAN
        /\ session_queue_' \in Seq(Sessions)
        /\ accepts' \subseteq Sessions
    BY <1>0, <1>4, PostAcceptTyped DEF HandleAccept, TypeOK
  <2>2. /\ packet_buffer_' = packet_buffer_ /\ content_read_mode_' = content_read_mode_
        /\ packet_buffer_mark_' = [packet_buffer_mark_ EXCEPT ![s] = 0]
        /\ accepted < arrived /\ accepted' = accepted + 1
        /\ conn' = [conn EXCEPT ![s] = accepted + 1]
        /\ is_open' = [is_open EXCEPT ![s] = TRUE]
        /\ reads' = [reads EXCEPT ![s] = @ + 1]
        /\ UNCHANGED <<failed, send_vars, history_vars, peer_vars, server>>
    BY <1>4 DEF HandleAccept, init
  <2>3. TypeOK'
    <3>1. /\ packet_buffer_mark_' \in [Sessions -> Nat]
          /\ accepted' \in Nat /\ conn' \in [Sessions -> Nat]
          /\ is_open' \in [Sessions -> BOOLEAN] /\ reads' \in [Sessions -> Nat]
      BY <1>0, <2>2 DEF TypeOK
    <3> QED
      BY <1>0, <2>1, <2>2, <3>1 DEF TypeOK, send_vars, history_vars, peer_vars
  <2>4. InBounds'
    <3>1. /\ packet_buffer_ \in [Sessions -> Seq(Byte)]
          /\ packet_buffer_mark_ \in [Sessions -> Nat]
          /\ is_open \in [Sessions -> BOOLEAN] /\ conn \in [Sessions -> Nat]
          /\ accepted \in Nat /\ arrived \in Nat /\ arrived' = arrived
      BY <1>0, <2>2 DEF TypeOK, peer_vars
    <3>2. packet_buffer_mark_'[s] = 0 /\ Len(packet_buffer_[s]) \in Nat
      BY <2>2, <3>1
    <3> QED
      BY <1>0, <2>2, <3>1, <3>2 DEF InBounds
  <2>5. ~is_open[s]
    BY <1>0, <1>4 DEF HandleAccept, OnePlace, Open
  <2>6. OneReader' /\ OneWrite'
    BY <1>0, <2>2, <2>5 DEF TypeOK, OneReader, OneWrite, send_vars
  <2> QED
    BY <2>3, <2>4, <2>6
<1>5. ASSUME NEW s \in Sessions, HandleAcceptError(s)
      PROVE  Goal
  BY <1>0, <1>5 DEF HandleAcceptError, TypeOK, InBounds, OneReader, OneWrite,
                    rx_vars, socket_vars, send_vars, history_vars, peer_vars
<1>6. ASSUME NEW s \in Sessions, NEW n \in 1 .. HeaderSize, HandleReceive(s, n)
      PROVE  Goal
  <2> DEFINE c == conn[s]
             chunk == SubSeq(inbound[c], 1, n)
             rest == SubSeq(inbound[c], n + 1, Len(inbound[c]))
             p == header(PacketBytes(s, chunk))
  <2>1. /\ server = "running" /\ reads[s] > 0 /\ n <= Len(inbound[c])
        /\ inbound' = [inbound EXCEPT ![c] = rest]
        /\ UNCHANGED <<pool_vars, socket_vars, delivered, arrived, closed, sends, server>>
    BY <1>6 DEF HandleReceive
  <2>2. is_open[s] /\ c \in Connections
    <3>1. is_open[s]
      BY <1>0, <2>1 DEF OneReader
    <3> QED
      BY <1>0, <3>1, OpenServes
  <2>3. chunk \in Seq(Byte) /\ rest \in Seq(Byte)
    <3>1. inbound[c] \in Seq(Byte)
      BY <1>0, <2>2 DEF TypeOK
    <3>2. n \in 1 .. Len(inbound[c])
      BY <2>1, <3>1, HeaderSizeAssumption
    <3> QED
      BY <3>1, <3>2
  <2>4. inbound' \in [Connections -> Seq(Byte)]
    BY <1>0, <2>1, <2>2, <2>3 DEF TypeOK
  <2>5. \/ ShortHeader(s, chunk) /\ UNCHANGED <<send_vars, last_login, owed>>
        \/ Refused(s, chunk) /\ UNCHANGED <<send_vars, last_login, owed>>
        \/ Incomplete(s, chunk) /\ UNCHANGED <<send_vars, last_login, owed>>
        \/ /\ Complete(s, chunk)
           /\ process_packet(s, p)
           /\ last_login' = IF p.id = "REQUEST_LOGIN"
                           THEN [last_login EXCEPT ![c] = p.n] ELSE last_login
           /\ owed' = owed \cup {<<d, p.n>> : d \in Addressees(s, p)}
    BY <1>6 DEF HandleReceive
  <2> HIDE DEF chunk, rest, p, c
  <2>6. /\ packet_buffer_' \in [Sessions -> Seq(Byte)]
        /\ packet_buffer_mark_' \in [Sessions -> Nat]
        /\ content_read_mode_' \in [Sessions -> BOOLEAN]
        /\ \A t \in Sessions : packet_buffer_mark_'[t] <= Len(packet_buffer_'[t])
    <3>1. CASE ShortHeader(s, chunk)
      BY <1>0, <2>3, <3>1, ReceiveTyped DEF ShortHeader, TypeOK
    <3>2. CASE Refused(s, chunk)
      BY <1>0, <2>3, <3>2, ReceiveTyped DEF Refused
    <3>3. CASE Incomplete(s, chunk)
      BY <1>0, <2>3, <3>3, ReceiveTyped DEF Incomplete, TypeOK
    <3>4. CASE Complete(s, chunk)
      BY <1>0, <2>3, <3>4, ReceiveTyped DEF Complete
    <3> QED
      BY <2>5, <3>1, <3>2, <3>3, <3>4
  <2>7. /\ send_data_queue_' \in [Sessions -> Seq({NULL})]
        /\ writes' \in [Sessions -> Seq(OutPacket)]
        /\ name_' \in [Sessions -> Nat]
        /\ OneWrite'
        /\ last_login' \in [Connections -> Nat]
        /\ owed' \subseteq Connections \X Nat
    <3>1. CASE UNCHANGED <<send_vars, last_login, owed>>
      BY <1>0, <2>1, <3>1 DEF TypeOK, OneWrite, send_vars
    <3>2. CASE /\ Complete(s, chunk)
               /\ process_packet(s, p)
               /\ last_login' = IF p.id = "REQUEST_LOGIN"
                           THEN [last_login EXCEPT ![c] = p.n] ELSE last_login
               /\ owed' = owed \cup {<<d, p.n>> : d \in Addressees(s, p)}
      <4>1. p \in InPacket
        <5>1. /\ packet_buffer_[s] \in Seq(InPacket \X Nat)
              /\ packet_buffer_mark_[s] \in 0 .. Len(packet_buffer_[s])
              /\ chunk \in Seq(InPacket \X Nat)
          BY <1>0, <2>3 DEF TypeOK, InBounds, Byte
        <5> QED
          BY <3>2, <5>1, CompleteTyped DEF p
      <4>2. p.from \in Nat /\ p.n \in Nat
        BY <4>1 DEF InPacket
      <4>3. Addressees(s, p) \subseteq Connections
        BY <1>0, <2>2, OpenServes DEF Addressees, Served, c
      <4>4. last_login' \in [Connections -> Nat] /\ owed' \subseteq Connections \X Nat
        BY <1>0, <2>2, <3>2, <4>2, <4>3 DEF TypeOK
      <4>5. CASE /\ name_' = [name_ EXCEPT ![s] = p.n]
                 /\ post_send({s}, [id |-> "REPLY_LOGIN", name |-> 0,
                                    from |-> p.from, n |-> p.n])
        <5>1. [id |-> "REPLY_LOGIN", name |-> 0, from |-> p.from, n |-> p.n] \in OutPacket
          BY <4>2 DEF OutPacket, PacketIds
        <5>2. name_' \in [Sessions -> Nat]
          BY <1>0, <4>2, <4>5 DEF TypeOK
        <5> QED
          BY <1>0, <2>1, <4>4, <4>5, <5>1, <5>2, PostSend
      <4>6. CASE /\ post_send({i \in Sessions : is_open[i]},
                              [id |-> "NOTICE_CHAT", name |-> name_[s],
                               from |-> p.from, n |-> p.n])
                 /\ UNCHANGED name_
        <5>1. [id |-> "NOTICE_CHAT", name |-> name_[s], from |-> p.from, n |-> p.n]
                  \in OutPacket
          BY <1>0, <4>2 DEF OutPacket, PacketIds, TypeOK
        <5> QED
          BY <1>0, <2>1, <4>4, <4>6, <5>1, PostSend DEF TypeOK
      <4> QED
        BY <3>2, <4>5, <4>6 DEF process_packet
    <3> QED
      BY <2>5, <3>1, <3>2
  <2>8. TypeOK'
    BY <1>0, <2>1, <2>4, <2>6, <2>7 DEF TypeOK, pool_vars, socket_vars
  <2>9. InBounds' /\ OneReader'
    BY <1>0, <2>1, <2>6 DEF InBounds, OneReader, socket_vars
  <2> QED
    BY <2>7, <2>8, <2>9
<1>7. ASSUME NEW s \in Sessions, HandleReceiveError(s)
      PROVE  Goal
  <2>1. /\ reads[s] > 0 /\ reads' = [reads EXCEPT ![s] = @ - 1]
        /\ is_open' = [is_open EXCEPT ![s] = FALSE]
        /\ inbound' = [inbound EXCEPT ![conn[s]] = << >>]
        /\ UNCHANGED <<rx_vars, failed, conn, accepted, send_vars, history_vars,
                       arrived, closed, sends, server>>
        /\ \/ is_accepting_ = FALSE /\ post_accept(Append(session_queue_, s), accepts)
           \/ /\ is_accepting_
              /\ session_queue_' = Append(session_queue_, s)
              /\ UNCHANGED <<is_accepting_, accepts>>
    BY <1>7 DEF HandleReceiveError, close_session
  <2>2. /\ is_accepting_' \in BOOLEAN
        /\ session_queue_' \in Seq(Sessions)
        /\ accepts' \subseteq Sessions
    <3>1. Append(session_queue_, s) \in Seq(Sessions)
      BY <1>0 DEF TypeOK
    <3> QED
      BY <1>0, <2>1, <3>1, PostAcceptTyped DEF TypeOK
  <2>3. inbound' \in [Connections -> Seq(Byte)]
    <3>1. << >> \in Seq(Byte) /\ inbound \in [Connections -> Seq(Byte)]
      BY <1>0 DEF TypeOK
    <3> QED
      BY <2>1, <3>1
  <2>4. is_open[s] /\ reads[s] = 1
    BY <1>0, <2>1 DEF OneReader
  <2>5. reads' \in [Sessions -> Nat] /\ OneReader'
    <3>1. reads \in [Sessions -> Nat] /\ is_open \in [Sessions -> BOOLEAN]
      BY <1>0 DEF TypeOK
    <3>2. reads' = [reads EXCEPT ![s] = 0]
      BY <2>1, <2>4
    <3> QED
      BY <1>0, <2>1, <3>1, <3>2 DEF OneReader
  <2>6. TypeOK'
    BY <1>0, <2>1, <2>2, <2>3, <2>5 DEF TypeOK, rx_vars, send_vars, history_vars
  <2> QED
    BY <1>0, <2>1, <2>5, <2>6 DEF TypeOK, InBounds, OneWrite, rx_vars, send_vars
<1>8. ASSUME NEW s \in Sessions, HandleWrite(s)
      PROVE  Goal
  <2> DEFINE queue == Tail(send_data_queue_[s])
  <2>1. /\ server = "running" /\ writes[s] # << >>
        /\ send_data_queue_' = [send_data_queue_ EXCEPT ![s] = queue]
        /\ writes' = [writes EXCEPT ![s] =
                         IF queue # << >> /\ Head(queue) # NULL
                         THEN Append(Tail(@), Head(queue)) ELSE Tail(@)]
        /\ server' = IF queue # << >> /\ Head(queue) = NULL THEN "crashed" ELSE server
        /\ delivered' = IF is_open[s]
                        THEN delivered \cup {<<conn[s], Head(writes[s]).n>>}
                        ELSE delivered
        /\ UNCHANGED <<rx_vars, pool_vars, socket_vars, name_, last_login, owed, peer_vars>>
    BY <1>8 DEF HandleWrite
  <2>2. /\ send_data_queue_[s] \in Seq({NULL}) /\ writes[s] \in Seq(OutPacket)
        /\ Len(writes[s]) = IF send_data_queue_[s] = << >> THEN 0 ELSE 1
    BY <1>0, <2>1 DEF TypeOK, OneWrite
  <2>3. send_data_queue_[s] # << >> /\ Len(writes[s]) = 1
    BY <2>1, <2>2
  <2>4. queue \in Seq({NULL})
    BY <2>2, <2>3
  <2> HIDE DEF queue
  <2>5. queue # << >> => Head(queue) = NULL
    BY <2>4
  <2>6. /\ writes' = [writes EXCEPT ![s] = Tail(@)]
        /\ server' = IF queue # << >> THEN "crashed" ELSE server
    BY <2>1, <2>5
  <2>7. Tail(writes[s]) \in Seq(OutPacket) /\ Len(Tail(writes[s])) = 0
    <3>1. writes[s] \in Seq(OutPacket) /\ Len(writes[s]) = 1
      BY <2>2, <2>3
    <3>2. Tail(writes[s]) \in Seq(OutPacket)
      BY <2>1, <3>1
    <3>3. Len(Tail(writes[s])) = Len(writes[s]) - 1
      BY <2>1, <3>1
    <3> QED
      BY <3>1, <3>2, <3>3
  <2>8. Head(writes[s]) \in OutPacket
    BY <2>1, <2>2
  <2>9. delivered' \subseteq Connections \X Nat
    <3>1. Head(writes[s]).n \in Nat
      BY <2>8 DEF OutPacket
    <3>2. is_open[s] => conn[s] \in Connections
      BY <1>0, OpenServes
    <3> QED
      BY <1>0, <2>1, <3>1, <3>2 DEF TypeOK
  <2>10. /\ send_data_queue_' \in [Sessions -> Seq({NULL})]
         /\ writes' \in [Sessions -> Seq(OutPacket)]
         /\ server' \in {"running", "crashed", "ended"}
    BY <1>0, <2>1, <2>4, <2>6, <2>7 DEF TypeOK
  <2>11. TypeOK'
    BY <1>0, <2>1, <2>9, <2>10 DEF TypeOK, rx_vars, pool_vars, socket_vars, peer_vars
  <2>12. OneWrite'
    <3> SUFFICES ASSUME server' # "crashed", NEW t \in Sessions
                 PROVE  Len(writes'[t]) = IF send_data_queue_'[t] = << >> THEN 0 ELSE 1
      BY DEF OneWrite
    <3>1. queue = << >>
      BY <2>6
    <3>2. CASE t = s
      BY <1>0, <2>1, <2>6, <2>7, <3>1, <3>2 DEF TypeOK
    <3>3. CASE t # s
      BY <1>0, <2>1, <2>6, <3>3 DEF TypeOK, OneWrite
    <3> QED
      BY <3>2, <3>3
  <2> QED
    BY <1>0, <2>1, <2>11, <2>12 DEF InBounds, OneReader, rx_vars, socket_vars, peer_vars
<1>9. CASE RunReturns
  BY <1>0, <1>9 DEF RunReturns, TypeOK, InBounds, OneReader, OneWrite, rx_vars,
                    pool_vars, socket_vars, send_vars, history_vars, peer_vars
<1>10. CASE UNCHANGED vars
  BY <1>0, <1>10 DEF vars, TypeOK, InBounds, OneReader, OneWrite, rx_vars,
                     pool_vars, socket_vars, send_vars, history_vars, peer_vars
<1> QED
  BY <1>1, <1>2, <1>3, <1>4, <1>5, <1>6, <1>7, <1>8, <1>9, <1>10 DEF Next

\* The state after start().
LEMMA InitInv == Init => Inv
<1> USE ServerAssumption
<1> SUFFICES ASSUME Init PROVE Inv
  OBVIOUS
<1>1. /\ session_queue_ \in Seq(Sessions)
      /\ Len(session_queue_) = MAX_SESSION_COUNT - 1
      /\ \A i \in 1 .. MAX_SESSION_COUNT - 1 : session_queue_[i] = i
  <2>1. \A i \in 1 .. MAX_SESSION_COUNT - 1 : i \in Sessions
    OBVIOUS
  <2> QED
    BY <2>1 DEF Init
<1>2. accepts = {0} /\ 0 \in Sessions /\ is_accepting_ /\ ~failed
  BY DEF Init
<1>3. TypeOK
  <2>1. << >> \in Seq(Byte) /\ << >> \in Seq(OutPacket) /\ << >> \in Seq({NULL})
    OBVIOUS
  <2>2. /\ packet_buffer_ \in [Sessions -> Seq(Byte)]
        /\ packet_buffer_mark_ \in [Sessions -> Nat]
        /\ content_read_mode_ \in [Sessions -> BOOLEAN]
        /\ writes \in [Sessions -> Seq(OutPacket)]
        /\ send_data_queue_ \in [Sessions -> Seq({NULL})]
        /\ inbound \in [Connections -> Seq(Byte)]
    BY <2>1 DEF Init, RxInit
  <2>3. /\ is_open \in [Sessions -> BOOLEAN] /\ reads \in [Sessions -> Nat]
        /\ name_ \in [Sessions -> Nat] /\ conn \in [Sessions -> Nat]
        /\ server \in {"running", "crashed", "ended"}
        /\ arrived \in Nat /\ accepted \in Nat /\ sends \in Nat
        /\ closed = {} /\ last_login \in [Connections -> Nat] /\ owed = {} /\ delivered = {}
        /\ failed \in BOOLEAN /\ is_accepting_ \in BOOLEAN
    BY DEF Init
  <2>4. accepts \subseteq Sessions
    BY <1>2
  <2> QED
    BY <1>1, <2>2, <2>3, <2>4 DEF TypeOK
<1>4. InBounds /\ OneReader /\ OneWrite
  BY DEF Init, RxInit, InBounds, OneReader, OneWrite
<1>5. Open = {} /\ Queued = Sessions \ {0}
  <2>1. Open = {}
    BY DEF Init, Open
  <2>2. Queued = {session_queue_[i] : i \in 1 .. MAX_SESSION_COUNT - 1}
    BY <1>1 DEF Queued
  <2>3. ASSUME NEW s PROVE s \in Queued <=> s \in 1 .. MAX_SESSION_COUNT - 1
    BY <1>1, <2>2
  <2> QED
    BY <2>1, <2>3
<1>6. PoolInv
  BY <1>1, <1>2, <1>5 DEF PoolInv, OnePlace, FreeSessionListens, FailureSticks
<1> QED
  BY <1>3, <1>4, <1>6 DEF Inv

\* The conjunction Inv is inductive.
LEMMA Invariance == Spec => []Inv
<1>1. Inv /\ [Next]_vars => Inv'
  <2> SUFFICES ASSUME Inv, [Next]_vars PROVE Inv'
    OBVIOUS
  <2>1. (TypeOK /\ InBounds /\ OneReader /\ OneWrite)'
    BY TypedStep
  <2>2. PoolInv'
    BY PoolStep
  <2> QED
    BY <2>1, <2>2 DEF Inv
<1> QED
  BY <1>1, InitInv, PTL DEF Spec

\* The server's state keeps its type.
THEOREM TypeCorrect == Spec => []TypeOK
<1>1. Inv => TypeOK
  BY DEF Inv
<1> QED
  BY <1>1, Invariance, PTL

\* However accepts, closes and failures follow each other, no session id is
\* duplicated or lost, and a free session listens until an accept fails.
THEOREM PoolSound == Spec => []PoolInv
<1>1. Inv => PoolInv
  BY DEF Inv
<1> QED
  BY <1>1, Invariance, PTL

\* No two async_writes are ever under way on one socket.
THEOREM SingleWrite == Spec => []OneWrite
<1>1. Inv => OneWrite
  BY DEF Inv
<1> QED
  BY <1>1, Invariance, PTL

\* A socket has one read under way exactly while it is open.
THEOREM SingleReader == Spec => []OneReader
<1>1. Inv => OneReader
  BY DEF Inv
<1> QED
  BY <1>1, Invariance, PTL

\* packet_buffer_.begin() + packet_buffer_mark_ is a position in the vector, and
\* an open session serves a connection that was accepted.
THEOREM PositionsInside == Spec => []InBounds
<1>1. Inv => InBounds
  BY DEF Inv
<1> QED
  BY <1>1, Invariance, PTL

\* The server's sessions implement the abstract pool of slots.
THEOREM ImplementsPool == Spec => RefinesPool
<1>1. Init => Pool!PoolInit
  <2> SUFFICES ASSUME Init PROVE Pool!PoolInit
    OBVIOUS
  <2>1. accepts = {0} /\ 0 \in Sessions /\ ~failed /\ failed = FALSE
    BY ServerAssumption DEF Init
  <2>2. Open = {}
    BY DEF Init, Open
  <2>3. Queued = Sessions \ {0}
    BY ServerAssumption, InitInv, <2>1, <2>2
       DEF Inv, PoolInv, OnePlace, FreeSessionListens
  <2> QED
    BY <2>1, <2>2, <2>3 DEF Pool!PoolInit
<1>2. Inv /\ [Next]_vars => [Pool!PoolNext]_(Pool!pool_vars)
  BY PoolStep
<1> QED
  BY <1>1, <1>2, Invariance, PTL DEF Spec, RefinesPool, Pool!PoolSpec

-------------------------------------------------------------------------------

\* io_service::run returns before an accept failed in no execution: without a
\* failure the free ids, or the reads of open sockets, keep it busy.
THEOREM EndsWithFailure == Spec => []EndsOnlyAfterFailure
<1>1. Init => EndsOnlyAfterFailure
  BY DEF Init, EndsOnlyAfterFailure
<1>2. EndsOnlyAfterFailure /\ Inv /\ [Next]_vars => EndsOnlyAfterFailure'
  <2> SUFFICES ASSUME EndsOnlyAfterFailure, Inv, [Next]_vars, server' = "ended"
               PROVE  failed'
    BY DEF EndsOnlyAfterFailure
  <2>1. CASE RunReturns
    <3>1. accepts = {} /\ (\A s \in Sessions : reads[s] = 0) /\ failed' = failed
      BY <2>1 DEF RunReturns, pool_vars
    <3>2. Open = {}
      BY <3>1 DEF Inv, OneReader, Open
    <3>3. 0 \in Sessions
      BY ServerAssumption
    <3>4. SUFFICES ASSUME ~failed PROVE FALSE
      BY <3>1
    <3>5. Queued \cup accepts \cup Open = Sessions /\ (Queued # {} => accepts # {})
      BY <3>4 DEF Inv, PoolInv, FreeSessionListens
    <3> QED
      BY <3>1, <3>2, <3>3, <3>5
  <2>2. ASSUME NEW s \in Sessions, HandleWrite(s) PROVE failed'
    BY <2>2 DEF HandleWrite
  <2>3. CASE server' = server /\ (failed' = failed \/ failed')
    BY <2>3 DEF EndsOnlyAfterFailure
  <2>4. ASSUME NEW s \in Sessions, HandleAcceptError(s) PROVE failed'
    BY <2>4 DEF HandleAcceptError
  <2>5. ASSUME \/ Connect
               \/ \E c \in Connections : PeerClose(c) \/ \E kind \in Kinds : PeerSend(c, kind)
               \/ \E s \in Sessions :
                     \/ HandleAccept(s) \/ HandleReceiveError(s)
                     \/ \E n \in 1 .. HeaderSize : HandleReceive(s, n)
        PROVE  server' = server /\ failed' = failed
    BY <2>5 DEF Connect, PeerClose, PeerSend, HandleAccept, HandleReceiveError,
                HandleReceive, pool_vars
  <2>6. CASE UNCHANGED vars
    BY <2>3, <2>6 DEF vars, pool_vars
  <2> QED
    BY <2>1, <2>2, <2>3, <2>4, <2>5, <2>6 DEF Next
<1> QED
  BY <1>1, <1>2, Invariance, PTL DEF Spec

-------------------------------------------------------------------------------
(* Names.                                                                    *)

\* The bytes on a connection come from its peer.
BytesOwn == \A c \in Connections : \A i \in 1 .. Len(inbound[c]) : inbound[c][i][1].from = c

\* So do those before the mark of an open session; bytes behind the mark may be
\* anyone's.
FrontOwn ==
    \A s \in Sessions : is_open[s] =>
        \A i \in 1 .. packet_buffer_mark_[s] : packet_buffer_[s][i][1].from = conn[s]

\* An open session has the name its peer logged in with last.
NameOwn ==
    \A s \in Sessions :
        is_open[s] /\ last_login[conn[s]] # 0 => name_[s] = last_login[conn[s]]

\* A name is the last login of a connection that no other open session serves.
NameLeft ==
    \A s \in Sessions : name_[s] # 0 =>
        \E d \in Connections :
            /\ last_login[d] = name_[s]
            /\ \A t \in Sessions : is_open[t] /\ conn[t] = d => t = s

\* No two open sessions serve one connection, and only accepted ones log in.
ServesAlone ==
    \A s, t \in Sessions : is_open[s] /\ is_open[t] /\ conn[s] = conn[t] => s = t
LoginAccepted == \A c \in Connections : last_login[c] # 0 => c <= accepted

NamesInv ==
    BytesOwn /\ FrontOwn /\ NameOwn /\ NameLeft /\ ServesAlone /\ LoginAccepted

\* The bytes in front after a chunk was inserted at the mark.
LEMMA FilledBytes ==
    ASSUME NEW s \in Sessions, NEW chunk \in Seq(Byte),
           packet_buffer_[s] \in Seq(Byte),
           packet_buffer_mark_[s] \in 0 .. Len(packet_buffer_[s])
    PROVE  /\ packet_data_size(s, chunk) = packet_buffer_mark_[s] + Len(chunk)
           /\ \A i \in 1 .. packet_data_size(s, chunk) :
                 Filled(s, chunk)[i] = IF i <= packet_buffer_mark_[s]
                                       THEN packet_buffer_[s][i]
                                       ELSE chunk[i - packet_buffer_mark_[s]]
<1> DEFINE buf == packet_buffer_[s]
           m == packet_buffer_mark_[s]
           front == SubSeq(buf, 1, m)
           tail == SubSeq(buf, m + 1, Len(buf))
<1>1. front \in Seq(Byte) /\ tail \in Seq(Byte) /\ Len(front) = m /\ m \in Nat
  OBVIOUS
<1>2. \A i \in 1 .. m : front[i] = buf[i]
  OBVIOUS
<1>3. Filled(s, chunk) = (front \o chunk) \o tail
  BY DEF Filled
<1>4. packet_data_size(s, chunk) = m + Len(chunk)
  BY DEF packet_data_size
<1> HIDE DEF front, tail, buf, m
<1>5. ASSUME NEW i \in 1 .. m + Len(chunk)
      PROVE  ((front \o chunk) \o tail)[i] = IF i <= m THEN buf[i] ELSE chunk[i - m]
  <2>1. /\ front \o chunk \in Seq(Byte)
        /\ Len(front \o chunk) = Len(front) + Len(chunk)
        /\ \A j \in 1 .. Len(front) + Len(chunk) :
              (front \o chunk)[j] = IF j <= Len(front) THEN front[j] ELSE chunk[j - Len(front)]
    BY <1>1, ConcatProperties, Zenon
  <2>2. ((front \o chunk) \o tail)[i] = (front \o chunk)[i]
    BY <1>1, <2>1
  <2>3. (front \o chunk)[i] = IF i <= m THEN front[i] ELSE chunk[i - m]
    BY <1>1, <2>1
  <2> QED
    BY <1>1, <1>2, <2>2, <2>3
<1>6. \A i \in 1 .. m + Len(chunk) :
         Filled(s, chunk)[i] = IF i <= m THEN buf[i] ELSE chunk[i - m]
  BY <1>3, <1>5, Zenon
<1> QED
  BY <1>4, <1>6, Zenon DEF m, buf

\* What is in front after a chunk was inserted at the mark comes from one peer, if
\* what was before the mark and the chunk do.
LEMMA FilledFrom ==
    ASSUME NEW s \in Sessions, NEW c, NEW chunk \in Seq(Byte),
           packet_buffer_[s] \in Seq(Byte),
           packet_buffer_mark_[s] \in 0 .. Len(packet_buffer_[s]),
           \A i \in 1 .. packet_buffer_mark_[s] : packet_buffer_[s][i][1].from = c,
           \A i \in 1 .. Len(chunk) : chunk[i][1].from = c
    PROVE  \A i \in 1 .. packet_data_size(s, chunk) : Filled(s, chunk)[i][1].from = c
<1> SUFFICES ASSUME NEW i \in 1 .. packet_data_size(s, chunk)
             PROVE  Filled(s, chunk)[i][1].from = c
  OBVIOUS
<1> DEFINE m == packet_buffer_mark_[s]
           filled == Filled(s, chunk)
<1>1. /\ i \in 1 .. m + Len(chunk) /\ m \in Nat
      /\ filled[i] = IF i <= m THEN packet_buffer_[s][i] ELSE chunk[i - m]
  BY FilledBytes
<1>2. i <= m => packet_buffer_[s][i][1].from = c
  BY <1>1
<1>3. i > m => chunk[i - m][1].from = c
  BY <1>1
<1> HIDE DEF filled, m
<1>4. filled[i][1].from = c
  BY <1>1, <1>2, <1>3
<1> QED
  BY <1>4 DEF filled

\* The packet that is processed comes from the peer whose bytes are in front.
LEMMA CompleteFrom ==
    ASSUME NEW s \in Sessions, NEW c, NEW chunk \in Seq(Byte), Complete(s, chunk),
           packet_buffer_[s] \in Seq(Byte),
           packet_buffer_mark_[s] \in 0 .. Len(packet_buffer_[s]),
           \A i \in 1 .. packet_data_size(s, chunk) : Filled(s, chunk)[i][1].from = c
    PROVE  header(PacketBytes(s, chunk)).from = c
<1> DEFINE filled == Filled(s, chunk)
           size == packet_data_size(s, chunk)
           length == get_packet_size(header(filled))
<1>1. filled \in Seq(Byte) /\ size \in Nat /\ size <= Len(filled)
  BY FilledTyped
<1>2. size >= HeaderSize /\ length <= size
  BY DEF Complete
<1>3. PacketBytes(s, chunk) = SubSeq(filled, 1, length)
  BY DEF PacketBytes
<1>4. length = header(filled).content_size + HeaderSize
  BY DEF get_packet_size
<1> HIDE DEF filled, size, length
<1>5. 1 \in 1 .. Len(filled) /\ 1 \in 1 .. size
  BY <1>1, <1>2, HeaderSizeAssumption
<1>6. header(filled) \in InPacket
  BY <1>1, <1>5 DEF header, Byte
<1>7. length \in Nat /\ length >= 1
  BY <1>4, <1>6, HeaderSizeAssumption DEF InPacket
<1>8. SubSeq(filled, 1, length)[1] = filled[1]
  BY <1>1, <1>2, <1>7
<1>9. filled[1][1].from = c
  BY <1>5 DEF filled, size
<1> QED
  BY <1>3, <1>8, <1>9 DEF header

\* A packet a peer sends carries the peer's number.
LEMMA SentFrom ==
    ASSUME TypeOK, BytesOwn, NEW c \in Connections, NEW p \in InPacket, p.from = c,
           inbound' = [inbound EXCEPT ![c] = @ \o build_packet(p)]
    PROVE  BytesOwn'
<1> DEFINE bytes == build_packet(p)
           size == get_packet_size(p)
<1>1. size \in Nat
  BY HeaderSizeAssumption DEF InPacket, get_packet_size
<1>2. bytes \in Seq(Byte)
  BY BuildTyped
<1>3. bytes = [i \in 1 .. size |-> <<p, i>>]
  BY DEF build_packet
<1> HIDE DEF bytes, size
<1>4. Len(bytes) = size
  BY <1>1, <1>2, <1>3
<1>5. \A i \in 1 .. Len(bytes) : bytes[i][1].from = c
  BY <1>3, <1>4
<1>6. inbound' = [inbound EXCEPT ![c] = inbound[c] \o bytes]
  BY DEF bytes
<1>7. inbound \in [Connections -> Seq(Byte)]
  BY DEF TypeOK
<1>8. \A i \in 1 .. Len(inbound[c] \o bytes) : (inbound[c] \o bytes)[i][1].from = c
  <2> SUFFICES ASSUME NEW i \in 1 .. Len(inbound[c] \o bytes)
               PROVE  (inbound[c] \o bytes)[i][1].from = c
    OBVIOUS
  <2> DEFINE old == inbound[c]
  <2>1. old \in Seq(Byte) /\ \A j \in 1 .. Len(old) : old[j][1].from = c
    BY <1>7 DEF BytesOwn
  <2> HIDE DEF old
  <2>2. /\ Len(old \o bytes) = Len(old) + Len(bytes)
        /\ (old \o bytes)[i] = IF i <= Len(old) THEN old[i] ELSE bytes[i - Len(old)]
    BY <1>2, <2>1 DEF old
  <2>3. CASE i <= Len(old)
    BY <2>1, <2>2, <2>3 DEF old
  <2>4. CASE i > Len(old)
    <3>1. i - Len(old) \in 1 .. Len(bytes)
      BY <1>2, <2>1, <2>2, <2>4 DEF old
    <3> QED
      BY <1>5, <2>1, <2>2, <2>4, <3>1 DEF old
  <2> QED
    BY <2>1, <2>3, <2>4
<1> QED
  BY <1>6, <1>7, <1>8 DEF BytesOwn

\* What a receive leaves in front of the mark, and what it reads, is the peer's.
LEMMA ReceiveFrom ==
    ASSUME Inv, NamesInv, NEW s \in Sessions, NEW n \in 1 .. HeaderSize,
           HandleReceive(s, n)
    PROVE  /\ is_open[s] /\ conn[s] \in Connections
           /\ BytesOwn' /\ FrontOwn'
           /\ LET chunk == SubSeq(inbound[conn[s]], 1, n)
              IN  Complete(s, chunk) => header(PacketBytes(s, chunk)).from = conn[s]
<1> DEFINE c == conn[s]
           chunk == SubSeq(inbound[c], 1, n)
           rest == SubSeq(inbound[c], n + 1, Len(inbound[c]))
<1>1. TypeOK /\ InBounds /\ OneReader /\ BytesOwn /\ FrontOwn
  BY DEF Inv, NamesInv
<1>2. /\ reads[s] > 0 /\ n <= Len(inbound[c])
      /\ inbound' = [inbound EXCEPT ![c] = rest]
      /\ is_open' = is_open /\ conn' = conn
      /\ \/ KeepChunk(s, chunk)
         \/ clear_packet_buffer(s)
  BY DEF HandleReceive, ShortHeader, Refused, Incomplete, Complete, socket_vars
<1>3. is_open[s] /\ c \in Connections
  <2>1. is_open[s]
    BY <1>1, <1>2 DEF OneReader
  <2> QED
    BY <1>1, <2>1, OpenServes
<1>4. /\ chunk \in Seq(Byte) /\ rest \in Seq(Byte)
      /\ \A i \in 1 .. Len(chunk) : chunk[i][1].from = c
      /\ \A i \in 1 .. Len(rest) : rest[i][1].from = c
  <2> DEFINE old == inbound[c]
  <2>1. old \in Seq(Byte) /\ \A j \in 1 .. Len(old) : old[j][1].from = c
    BY <1>1, <1>3 DEF BytesOwn, TypeOK
  <2>2. n \in 1 .. Len(old)
    BY <1>2, <2>1, HeaderSizeAssumption
  <2> HIDE DEF old
  <2>3. /\ SubSeq(old, 1, n) \in Seq(Byte) /\ Len(SubSeq(old, 1, n)) = n
        /\ \A i \in 1 .. n : SubSeq(old, 1, n)[i] = old[i]
    BY <2>1, <2>2
  <2>4. /\ SubSeq(old, n + 1, Len(old)) \in Seq(Byte)
        /\ Len(SubSeq(old, n + 1, Len(old))) = Len(old) - n
        /\ \A i \in 1 .. Len(old) - n : SubSeq(old, n + 1, Len(old))[i] = old[n + i]
    BY <2>1, <2>2
  <2>5. \A i \in 1 .. Len(old) - n : n + i \in 1 .. Len(old)
    BY <2>1, <2>2
  <2>6. \A i \in 1 .. n : i \in 1 .. Len(old)
    BY <2>1, <2>2
  <2> QED
    BY <2>1, <2>3, <2>4, <2>5, <2>6 DEF old
<1>5. /\ packet_buffer_[s] \in Seq(Byte)
      /\ packet_buffer_mark_[s] \in 0 .. Len(packet_buffer_[s])
      /\ \A i \in 1 .. packet_buffer_mark_[s] : packet_buffer_[s][i][1].from = c
  BY <1>1, <1>3 DEF TypeOK, InBounds, FrontOwn
<1> HIDE DEF c, chunk, rest
<1>6. \A i \in 1 .. packet_data_size(s, chunk) : Filled(s, chunk)[i][1].from = c
  BY <1>4, <1>5, FilledFrom
<1>7. Complete(s, chunk) => header(PacketBytes(s, chunk)).from = c
  BY <1>4, <1>5, <1>6, CompleteFrom
<1>8. BytesOwn'
  BY <1>1, <1>2, <1>3, <1>4 DEF BytesOwn, TypeOK
<1>9. FrontOwn'
  <2>1. CASE KeepChunk(s, chunk)
    BY <1>1, <1>2, <1>6, <2>1 DEF KeepChunk, FrontOwn, TypeOK, c
  <2>2. CASE clear_packet_buffer(s)
    <3>1. /\ packet_buffer_mark_ \in [Sessions -> Nat]
          /\ packet_buffer_ \in [Sessions -> Seq(Byte)]
      BY <1>1 DEF TypeOK
    <3>2. /\ packet_buffer_mark_'[s] = 0
          /\ \A t \in Sessions : t # s =>
                packet_buffer_mark_'[t] = packet_buffer_mark_[t]
                /\ packet_buffer_'[t] = packet_buffer_[t]
      BY <2>2, <3>1 DEF clear_packet_buffer
    <3> QED
      BY <1>1, <1>2, <3>2 DEF FrontOwn
  <2> QED
    BY <1>2, <2>1, <2>2
<1> QED
  BY <1>3, <1>7, <1>8, <1>9 DEF c, chunk

\* Every handler keeps names and bytes where they belong.
LEMMA NamesStep ==
    ASSUME Inv, NamesInv, [Next]_vars
    PROVE  NamesInv'
<1>0. TypeOK /\ InBounds /\ OneReader /\ OnePlace
  BY DEF Inv, PoolInv
<1>1. CASE Connect
  BY <1>1 DEF Connect, NamesInv, BytesOwn, FrontOwn, NameOwn, NameLeft, ServesAlone, LoginAccepted,
              rx_vars, socket_vars, send_vars, history_vars
<1>2. ASSUME NEW c \in Connections, NEW kind \in Kinds, PeerSend(c, kind)
      PROVE  NamesInv'
  <2> DEFINE p == [id |-> kind.id, content_size |-> kind.content_size,
                   from |-> c, n |-> sends + 1]
  <2>1. p \in InPacket /\ p.from = c
    <3>1. kind.id \in PacketIds /\ kind.content_size \in Nat
      BY ServerAssumption DEF PacketIds
    <3> QED
      BY <1>0, <3>1 DEF InPacket, TypeOK, Connections
  <2>2. inbound' = [inbound EXCEPT ![c] = @ \o build_packet(p)]
    BY <1>2 DEF PeerSend
  <2> HIDE DEF p
  <2>3. BytesOwn'
    BY <1>0, <2>1, <2>2, SentFrom DEF NamesInv
  <2> QED
    BY <1>2, <2>3 DEF PeerSend, NamesInv, FrontOwn, NameOwn, NameLeft, ServesAlone, LoginAccepted,
                      rx_vars, socket_vars, send_vars, history_vars
<1>3. ASSUME NEW c \in Connections, PeerClose(c)
      PROVE  NamesInv'
  BY <1>3 DEF PeerClose, NamesInv, BytesOwn, FrontOwn, NameOwn, NameLeft, ServesAlone,
              LoginAccepted, rx_vars, socket_vars, send_vars, history_vars
<1>4. ASSUME NEW s \in Sessions, HandleAccept(s)
      PROVE  NamesInv'
  <2>1. /\ accepted' = accepted + 1 /\ accepted \in Nat
        /\ conn' = [conn EXCEPT ![s] = accepted + 1]
        /\ is_open' = [is_open EXCEPT ![s] = TRUE]
        /\ packet_buffer_mark_' = [packet_buffer_mark_ EXCEPT ![s] = 0]
        /\ UNCHANGED <<packet_buffer_, name_, last_login, inbound>>
    BY <1>0, <1>4 DEF HandleAccept, init, TypeOK, send_vars, history_vars, peer_vars
  <2>2. \A t \in Sessions : is_open[t] => conn[t] \in 1 .. accepted
    BY <1>0 DEF InBounds
  <2>3. BytesOwn' /\ LoginAccepted'
    BY <2>1 DEF NamesInv, BytesOwn, LoginAccepted, Connections
  <2>4. FrontOwn'
    BY <1>0, <2>1 DEF NamesInv, FrontOwn, TypeOK
  <2>5. \A d \in Connections : last_login[d] # 0 => d # accepted + 1
    BY <2>1 DEF NamesInv, LoginAccepted, Connections
  <2>6. NameOwn' /\ NameLeft'
    <3>1. accepted + 1 \in Connections
      BY <1>0, <1>4, ServerAssumption DEF HandleAccept, InBounds, TypeOK, Connections
    <3>2. NameOwn'
      BY <1>0, <2>1, <2>5, <3>1 DEF NamesInv, NameOwn, TypeOK
    <3> SUFFICES ASSUME NEW t \in Sessions, name_[t] # 0
                 PROVE  \E d \in Connections :
                            /\ last_login[d] = name_[t]
                            /\ \A u \in Sessions : is_open'[u] /\ conn'[u] = d => u = t
      BY <2>1, <3>2 DEF NameLeft
    <3>3. PICK d \in Connections :
              /\ last_login[d] = name_[t]
              /\ \A u \in Sessions : is_open[u] /\ conn[u] = d => u = t
      BY DEF NamesInv, NameLeft
    <3>4. \A u \in Sessions : is_open'[u] /\ conn'[u] = d => u = t
      BY <1>0, <2>1, <2>5, <3>3 DEF TypeOK
    <3> QED
      BY <3>3, <3>4
  <2>7. ServesAlone'
    <3> SUFFICES ASSUME NEW t \in Sessions, NEW u \in Sessions,
                        is_open'[t], is_open'[u], conn'[t] = conn'[u]
                 PROVE  t = u
      BY DEF ServesAlone
    <3>1. \A v \in Sessions : v # s /\ is_open'[v] => conn'[v] = conn[v] /\ is_open[v]
      BY <1>0, <2>1 DEF TypeOK
    <3>2. conn'[s] = accepted + 1 /\ \A v \in Sessions : is_open[v] => conn[v] # accepted + 1
      BY <1>0, <2>1, <2>2 DEF TypeOK
    <3>3. CASE t # s /\ u # s
      BY <3>1, <3>3 DEF NamesInv, ServesAlone
    <3>4. CASE t = s \/ u = s
      BY <3>1, <3>2, <3>4
    <3> QED
      BY <3>3, <3>4
  <2> QED
    BY <2>3, <2>4, <2>6, <2>7 DEF NamesInv
<1>5. ASSUME NEW s \in Sessions, HandleAcceptError(s)
      PROVE  NamesInv'
  BY <1>5 DEF HandleAcceptError, NamesInv, BytesOwn, FrontOwn, NameOwn, NameLeft, ServesAlone,
              LoginAccepted, rx_vars, socket_vars, send_vars, history_vars, peer_vars
<1>6. ASSUME NEW s \in Sessions, NEW n \in 1 .. HeaderSize, HandleReceive(s, n)
      PROVE  NamesInv'
  <2> DEFINE c == conn[s]
             chunk == SubSeq(inbound[c], 1, n)
             p == header(PacketBytes(s, chunk))
  <2>1. /\ is_open[s] /\ c \in Connections /\ BytesOwn' /\ FrontOwn'
    BY <1>6, ReceiveFrom
  <2>2. is_open' = is_open /\ conn' = conn /\ accepted' = accepted
    BY <1>6 DEF HandleReceive, socket_vars
  <2>3. \/ UNCHANGED <<name_, last_login>>
        \/ /\ Complete(s, chunk)
           /\ process_packet(s, p)
           /\ last_login' = IF p.id = "REQUEST_LOGIN"
                           THEN [last_login EXCEPT ![c] = p.n] ELSE last_login
    BY <1>6 DEF HandleReceive, send_vars
  <2>4. \/ UNCHANGED <<name_, last_login>>
        \/ \E name : /\ name_' = [name_ EXCEPT ![s] = name]
                      /\ last_login' = [last_login EXCEPT ![c] = name]
    <3> HIDE DEF p, chunk, c
    <3>1. process_packet(s, p) =>
             \/ p.id = "REQUEST_LOGIN" /\ name_' = [name_ EXCEPT ![s] = p.n]
             \/ p.id = "REQUEST_CHAT" /\ UNCHANGED name_
      BY DEF process_packet
    <3> QED
      BY <2>3, <3>1
  <2>5. c <= accepted
    BY <1>0, <2>1 DEF InBounds
  <2> HIDE DEF p, chunk
  <2>6. NameOwn' /\ ServesAlone' /\ LoginAccepted'
    <3>1. ServesAlone'
      BY <2>2 DEF NamesInv, ServesAlone
    <3>2. CASE UNCHANGED <<name_, last_login>>
      BY <2>2, <3>1, <3>2 DEF NamesInv, NameOwn, LoginAccepted
    <3>3. ASSUME NEW name, name_' = [name_ EXCEPT ![s] = name],
                 last_login' = [last_login EXCEPT ![c] = name]
          PROVE  NameOwn' /\ LoginAccepted'
      <4>1. LoginAccepted'
        BY <1>0, <2>2, <2>5, <3>3 DEF NamesInv, LoginAccepted, TypeOK
      <4> SUFFICES ASSUME NEW t \in Sessions, is_open[t], last_login'[conn[t]] # 0
                   PROVE  name_'[t] = last_login'[conn[t]]
        BY <2>2, <4>1 DEF NameOwn
      <4>2. CASE t = s
        BY <1>0, <2>1, <3>3, <4>2 DEF TypeOK, c
      <4>3. CASE t # s
        <5>1. conn[t] # c /\ conn[t] \in Connections
          BY <1>0, <2>1, <4>3, OpenServes DEF NamesInv, ServesAlone, c
        <5> QED
          BY <1>0, <3>3, <4>3, <5>1 DEF NamesInv, NameOwn, TypeOK
      <4> QED
        BY <4>2, <4>3
    <3> QED
      BY <2>4, <3>1, <3>2, <3>3
  <2>7. NameLeft'
    <3>1. CASE UNCHANGED <<name_, last_login>>
      BY <2>2, <3>1 DEF NamesInv, NameLeft
    <3>2. ASSUME NEW name, name_' = [name_ EXCEPT ![s] = name],
                 last_login' = [last_login EXCEPT ![c] = name]
          PROVE  NameLeft'
      <4> SUFFICES ASSUME NEW t \in Sessions, name_'[t] # 0
                   PROVE  \E d \in Connections :
                              /\ last_login'[d] = name_'[t]
                              /\ \A u \in Sessions : is_open[u] /\ conn[u] = d => u = t
        BY <2>2 DEF NameLeft
      <4>1. CASE t = s
        <5>1. last_login'[c] = name /\ name_'[s] = name
          BY <1>0, <2>1, <3>2 DEF TypeOK
        <5>2. \A u \in Sessions : is_open[u] /\ conn[u] = c => u = s
          BY <2>1 DEF NamesInv, ServesAlone, c
        <5> QED
          BY <2>1, <4>1, <5>1, <5>2
      <4>2. CASE t # s
        <5>1. name_'[t] = name_[t]
          BY <1>0, <3>2, <4>2 DEF TypeOK
        <5>2. PICK d \in Connections :
                  /\ last_login[d] = name_[t]
                  /\ \A u \in Sessions : is_open[u] /\ conn[u] = d => u = t
          BY <5>1 DEF NamesInv, NameLeft
        <5>3. d # c
          BY <2>1, <4>2, <5>2 DEF c
        <5>4. last_login'[d] = last_login[d]
          BY <1>0, <3>2, <5>3 DEF TypeOK
        <5> QED
          BY <5>1, <5>2, <5>4
      <4> QED
        BY <4>1, <4>2
    <3> QED
      BY <2>4, <3>1, <3>2
  <2> QED
    BY <2>1, <2>6, <2>7 DEF NamesInv
<1>7. ASSUME NEW s \in Sessions, HandleReceiveError(s)
      PROVE  NamesInv'
  <2>1. /\ is_open' = [is_open EXCEPT ![s] = FALSE]
        /\ inbound' = [inbound EXCEPT ![conn[s]] = << >>]
        /\ UNCHANGED <<rx_vars, conn, accepted, name_, last_login>>
    BY <1>7 DEF HandleReceiveError, close_session, send_vars, history_vars
  <2>2. inbound \in [Connections -> Seq(Byte)] /\ is_open \in [Sessions -> BOOLEAN]
    BY <1>0 DEF TypeOK
  <2>3. BytesOwn'
    BY <2>1, <2>2 DEF NamesInv, BytesOwn
  <2>4. FrontOwn' /\ NameOwn' /\ ServesAlone' /\ LoginAccepted'
    BY <2>1, <2>2 DEF NamesInv, FrontOwn, NameOwn, ServesAlone, LoginAccepted, rx_vars
  <2>5. \A t \in Sessions : is_open'[t] => is_open[t]
    BY <2>1, <2>2
  <2>6. NameLeft'
    BY <2>1, <2>5 DEF NamesInv, NameLeft
  <2> QED
    BY <2>3, <2>4, <2>6 DEF NamesInv
<1>8. ASSUME NEW s \in Sessions, HandleWrite(s)
      PROVE  NamesInv'
  BY <1>8 DEF HandleWrite, NamesInv, BytesOwn, FrontOwn, NameOwn, NameLeft, ServesAlone,
              LoginAccepted, rx_vars, socket_vars, peer_vars
<1>9. CASE RunReturns
  BY <1>9 DEF RunReturns, NamesInv, BytesOwn, FrontOwn, NameOwn, NameLeft, ServesAlone,
              LoginAccepted, rx_vars, socket_vars, send_vars, history_vars, peer_vars
<1>10. CASE UNCHANGED vars
  BY <1>10 DEF vars, NamesInv, BytesOwn, FrontOwn, NameOwn, NameLeft, ServesAlone, LoginAccepted,
               rx_vars, socket_vars, send_vars, history_vars, peer_vars
<1> QED
  BY <1>1, <1>2, <1>3, <1>4, <1>5, <1>6, <1>7, <1>8, <1>9, <1>10 DEF Next

\* NamesInv is an invariant, relative to Inv.
LEMMA NamesInvariance == Spec => []NamesInv
<1>1. Init => NamesInv
  BY DEF Init, RxInit, NamesInv, BytesOwn, FrontOwn, NameOwn, NameLeft, ServesAlone, LoginAccepted
<1>2. Inv /\ NamesInv /\ [Next]_vars => NamesInv'
  BY NamesStep
<1> QED
  BY <1>1, <1>2, Invariance, PTL DEF Spec

\* What a posted packet says, if it is the last of the writes that grew.
LEMMA PostedLast ==
    ASSUME TypeOK, NEW targets, NEW data \in OutPacket, post_send(targets, data),
           NEW s \in Sessions, Len(writes'[s]) > Len(writes[s])
    PROVE  writes'[s][Len(writes'[s])] = data
<1>1. writes[s] \in Seq(OutPacket)
  BY DEF TypeOK
<1>2. writes'[s] = writes[s] \/ writes'[s] = Append(writes[s], data)
  BY DEF post_send
<1> QED
  BY <1>1, <1>2

\* For every number of sessions, connections and packets a notice carries what its
\* sender logged in with last; if the sender never logged in, no name or that of a
\* peer that is no longer served, which a session used again still holds.
THEOREM NoticesNameSender == Spec => NoticeNamesSender
<1> DEFINE Right(s) ==
        Len(writes'[s]) > Len(writes[s]) =>
            LET p == writes'[s][Len(writes'[s])]
            IN  p.id = "NOTICE_CHAT" =>
                   \/ p.name = last_login[p.from]
                   \/ /\ last_login[p.from] = 0
                      /\ \E d \in Connections \ Served : p.name = last_login[d]
<1>1. ASSUME Inv, NamesInv, Next, NEW s \in Sessions
      PROVE  Right(s)
  <2>0. TypeOK /\ InBounds /\ OneWrite
    BY <1>1 DEF Inv
  <2>1. ASSUME NEW t \in Sessions, NEW n \in 1 .. HeaderSize, HandleReceive(t, n),
               Len(writes'[s]) > Len(writes[s])
        PROVE  Right(s)
    <3> DEFINE c == conn[t]
               chunk == SubSeq(inbound[c], 1, n)
               p == header(PacketBytes(t, chunk))
    <3>1. is_open[t] /\ c \in Connections
      BY <1>1, <2>1, ReceiveFrom
    <3>2. Complete(t, chunk) => p.from = c
      BY <1>1, <2>1, ReceiveFrom
    <3>3. \/ UNCHANGED writes
          \/ Complete(t, chunk) /\ process_packet(t, p)
      BY <2>1 DEF HandleReceive, send_vars
    <3>4. Complete(t, chunk) /\ process_packet(t, p)
      BY <2>1, <3>3
    <3>5. p \in InPacket
      <4> DEFINE buf == packet_buffer_[t]
                 inb == inbound[c]
      <4>1. inb \in Seq(Byte) /\ n <= Len(inb)
        BY <2>0, <2>1, <3>1 DEF TypeOK, HandleReceive
      <4>2. n \in 1 .. Len(inb)
        BY <4>1, HeaderSizeAssumption
      <4> HIDE DEF inb
      <4>3. SubSeq(inb, 1, n) \in Seq(Byte)
        BY <4>1, <4>2
      <4>4. /\ packet_buffer_[t] \in Seq(InPacket \X Nat)
            /\ packet_buffer_mark_[t] \in 0 .. Len(packet_buffer_[t])
            /\ chunk \in Seq(InPacket \X Nat)
        BY <2>0, <4>3 DEF TypeOK, InBounds, Byte, inb
      <4> QED
        BY <3>4, <4>4, CompleteTyped
    <3> HIDE DEF p, chunk, c
    <3>6. CASE /\ p.id = "REQUEST_LOGIN"
               /\ post_send({t}, [id |-> "REPLY_LOGIN", name |-> 0,
                                  from |-> p.from, n |-> p.n])
      <4> DEFINE data == [id |-> "REPLY_LOGIN", name |-> 0, from |-> p.from, n |-> p.n]
      <4>1. data \in OutPacket /\ data.id # "NOTICE_CHAT"
        BY <3>5 DEF InPacket, OutPacket, PacketIds
      <4> HIDE DEF data
      <4>2. writes'[s][Len(writes'[s])] = data
        BY <2>0, <2>1, <3>6, <4>1, PostedLast DEF data
      <4> QED
        BY <4>1, <4>2
    <3>7. CASE post_send({i \in Sessions : is_open[i]},
                         [id |-> "NOTICE_CHAT", name |-> name_[t],
                          from |-> p.from, n |-> p.n])
      <4> DEFINE data == [id |-> "NOTICE_CHAT", name |-> name_[t],
                          from |-> p.from, n |-> p.n]
      <4>1. data \in OutPacket /\ data.from = c /\ data.name = name_[t]
        BY <2>0, <3>2, <3>4, <3>5 DEF InPacket, OutPacket, PacketIds, TypeOK
      <4> HIDE DEF data
      <4>2. writes'[s][Len(writes'[s])] = data
        BY <2>0, <2>1, <3>7, <4>1, PostedLast DEF data
      <4>3. CASE last_login[c] # 0
        BY <1>1, <3>1, <4>1, <4>2, <4>3 DEF NamesInv, NameOwn, c
      <4>4. CASE last_login[c] = 0 /\ name_[t] = 0
        BY <4>1, <4>2, <4>4
      <4>5. CASE last_login[c] = 0 /\ name_[t] # 0
        <5>1. PICK d \in Connections :
                  /\ last_login[d] = name_[t]
                  /\ \A u \in Sessions : is_open[u] /\ conn[u] = d => u = t
          BY <1>1, <4>5 DEF NamesInv, NameLeft
        <5>2. d \notin Served
          BY <4>5, <5>1 DEF Served, c
        <5> QED
          BY <4>1, <4>2, <4>5, <5>1, <5>2
      <4> QED
        BY <4>3, <4>4, <4>5
    <3> QED
      BY <3>4, <3>6, <3>7 DEF process_packet
  <2>2. ASSUME NEW t \in Sessions, HandleWrite(t)
        PROVE  Len(writes'[s]) <= Len(writes[s])
    <3>1. /\ send_data_queue_[t] \in Seq({NULL}) /\ writes[t] \in Seq(OutPacket)
          /\ writes[s] \in Seq(OutPacket)
      BY <2>0 DEF TypeOK
    <3>2. /\ writes[t] # << >> /\ server = "running"
          /\ writes' = [writes EXCEPT ![t] =
                IF Tail(send_data_queue_[t]) # << >> /\ Head(Tail(send_data_queue_[t])) # NULL
                THEN Append(Tail(@), Head(Tail(send_data_queue_[t]))) ELSE Tail(@)]
      BY <2>2 DEF HandleWrite
    <3>3. send_data_queue_[t] # << >>
      BY <2>0, <3>1, <3>2 DEF OneWrite
    <3>4. Tail(send_data_queue_[t]) # << >> => Head(Tail(send_data_queue_[t])) = NULL
      BY <3>1, <3>3
    <3>5. writes' = [writes EXCEPT ![t] = Tail(writes[t])]
      BY <3>2, <3>4
    <3>6. Len(Tail(writes[t])) = Len(writes[t]) - 1 /\ Len(writes[t]) \in Nat
      BY <3>1, <3>2
    <3> QED
      BY <2>0, <3>1, <3>5, <3>6 DEF TypeOK
  <2>3. CASE UNCHANGED writes
    <3>1. writes[s] \in Seq(OutPacket)
      BY <2>0 DEF TypeOK
    <3> QED
      BY <2>3, <3>1
  <2>4. \/ UNCHANGED writes
        \/ \E t \in Sessions, n \in 1 .. HeaderSize : HandleReceive(t, n)
        \/ \E t \in Sessions : HandleWrite(t)
    BY <1>1 DEF Next, Connect, PeerSend, PeerClose, HandleAccept, HandleAcceptError,
                HandleReceiveError, RunReturns, send_vars
  <2>5. Len(writes[s]) \in Nat /\ (\E t \in Sessions : HandleWrite(t)) => Right(s)
    <3> SUFFICES ASSUME Len(writes[s]) \in Nat, NEW t \in Sessions, HandleWrite(t),
                        Len(writes'[s]) > Len(writes[s])
                 PROVE  FALSE
      OBVIOUS
    <3>1. Len(writes'[s]) <= Len(writes[s])
      BY <2>2
    <3>2. Len(writes'[s]) \in Nat
      <4>1. writes'[s] \in Seq(OutPacket)
        BY <1>1, TypedStep DEF TypeOK
      <4> QED
        BY <4>1
    <3> QED
      BY <3>1, <3>2
  <2>6. Len(writes[s]) \in Nat
    <3>1. writes[s] \in Seq(OutPacket)
      BY <2>0 DEF TypeOK
    <3> QED
      BY <3>1
  <2> QED
    BY <2>1, <2>3, <2>4, <2>5, <2>6
<1>2. Inv /\ NamesInv /\ [Next]_vars => [\A s \in Sessions : Right(s)]_vars
  BY <1>1
<1> QED
  BY <1>2, Invariance, NamesInvariance, PTL DEF Spec, NoticeNamesSender

-------------------------------------------------------------------------------
(* The server survives peers that wait until nothing is under way: one       *)
(* packet on the wire makes it answer at most once.                          *)

\* Some session has sent, or is to send, and has not been told it is done.
Answering == \E s \in Sessions : send_data_queue_[s] # << >>

\* At most one packet of one peer is on the wire, its bytes in order; a
\* connection that waits to be accepted has it whole.
OneOnWire ==
    /\ \A c, d \in Connections : inbound[c] # << >> /\ inbound[d] # << >> => c = d
    /\ \A c \in Connections : \A i \in 2 .. Len(inbound[c]) : inbound[c][i][2] > 1
    /\ \A c \in Connections : c > accepted /\ inbound[c] # << >> => inbound[c][1][2] = 1

\* No byte on the wire is a packet's first, and who reads on starts in the middle
\* of a packet and checks what it reads.
NoHeaderLeft ==
    /\ \A c \in Connections : \A i \in 1 .. Len(inbound[c]) : inbound[c][i][2] > 1
    /\ \A s \in Sessions : is_open[s] /\ inbound[conn[s]] # << >> =>
          /\ ~content_read_mode_[s]
          /\ \A i \in 1 .. packet_buffer_mark_[s] : packet_buffer_[s][i][2] > 1

\* Once the server answers, nothing that is left makes it answer again.
QuietInv ==
    /\ server # "crashed"
    /\ \A s \in Sessions : Len(send_data_queue_[s]) <= 1
    /\ OneOnWire
    /\ Answering => NoHeaderLeft

\* Bytes from the middle of a packet are never taken for a header.
LEMMA NotAHeader ==
    ASSUME NEW s \in Sessions, NEW chunk \in Seq(Byte), Len(chunk) >= 1,
           packet_buffer_[s] \in Seq(Byte),
           packet_buffer_mark_[s] \in 0 .. Len(packet_buffer_[s]),
           ~content_read_mode_[s],
           \A i \in 1 .. packet_buffer_mark_[s] : packet_buffer_[s][i][2] > 1,
           \A i \in 1 .. Len(chunk) : chunk[i][2] > 1
    PROVE  /\ ~HeaderPasses(s, chunk)
           /\ \A i \in 1 .. packet_data_size(s, chunk) : Filled(s, chunk)[i][2] > 1
<1> DEFINE m == packet_buffer_mark_[s]
           filled == Filled(s, chunk)
           size == packet_data_size(s, chunk)
<1>1. m \in Nat /\ size = m + Len(chunk) /\ Len(chunk) \in Nat
  BY FilledBytes
<1>2. ASSUME NEW i \in 1 .. size
      PROVE  filled[i][2] > 1
  <2>1. filled[i] = IF i <= m THEN packet_buffer_[s][i] ELSE chunk[i - m]
    BY FilledBytes
  <2>2. i <= m => packet_buffer_[s][i][2] > 1
    BY <1>1
  <2>3. i > m => chunk[i - m][2] > 1
    BY <1>1
  <2> HIDE DEF filled, m
  <2> QED
    BY <1>1, <2>1, <2>2, <2>3
<1> HIDE DEF filled, size
<1>3. filled[1][2] > 1
  BY <1>1, <1>2
<1>4. ~crc_valid(filled)
  <2> SUFFICES ASSUME crc_valid(filled) PROVE FALSE
    OBVIOUS
  <2>1. filled[1] = <<header(filled), 1>>
    BY HeaderSizeAssumption DEF crc_valid
  <2>2. filled[1][2] = 1
    BY <2>1
  <2> QED
    BY <1>3, <2>2
<1> QED
  BY <1>2, <1>4 DEF HeaderPasses, filled, size

\* A peer that waited puts its packet on an empty wire.
LEMMA QuietSend ==
    ASSUME Quiet, Inv, QuietInv, NEW c \in Connections, NEW kind \in Kinds,
           PeerSend(c, kind)
    PROVE  QuietInv'
<1> DEFINE p == [id |-> kind.id, content_size |-> kind.content_size,
                 from |-> c, n |-> sends + 1]
           bytes == build_packet(p)
<1>0. TypeOK /\ OneWrite
  BY DEF Inv
<1>1. /\ inbound' = [inbound EXCEPT ![c] = inbound[c] \o bytes]
      /\ \A d \in Connections : inbound[d] = << >>
      /\ \A s \in Sessions : writes[s] = << >>
      /\ server = "running" /\ server' = server
      /\ UNCHANGED <<rx_vars, is_open, conn, accepted, send_data_queue_>>
  BY DEF PeerSend, Idle, socket_vars, send_vars
<1>2. \A s \in Sessions : send_data_queue_[s] = << >>
  <2> SUFFICES ASSUME NEW s \in Sessions PROVE send_data_queue_[s] = << >>
    OBVIOUS
  <2>1. Len(writes[s]) = 0
    BY <1>1
  <2> QED
    BY <1>0, <1>1, <2>1 DEF OneWrite
<1>3. p \in InPacket
  <2>1. kind.id \in PacketIds /\ kind.content_size \in Nat
    BY ServerAssumption DEF PacketIds
  <2> QED
    BY <1>0, <2>1 DEF InPacket, TypeOK, Connections
<1>4. get_packet_size(p) \in Nat
  BY <1>3, HeaderSizeAssumption DEF InPacket, get_packet_size
<1> HIDE DEF p
<1>5. bytes \in Seq(Byte) /\ \A i \in 1 .. Len(bytes) : bytes[i][2] = i
  <2>1. bytes \in Seq(Byte)
    BY <1>3, BuildTyped
  <2> DEFINE z == get_packet_size(p)
  <2>2. bytes = [i \in 1 .. z |-> <<p, i>>] /\ z \in Nat
    BY <1>4 DEF build_packet
  <2> HIDE DEF z
  <2> QED
    BY <2>1, <2>2
<1> HIDE DEF bytes
<1>6. inbound' = [inbound EXCEPT ![c] = bytes]
  <2>1. << >> \o bytes = bytes
    BY <1>5, ConcatEmptySeq
  <2> QED
    BY <1>1, <2>1
<1>7. inbound'[c] = bytes /\ \A d \in Connections : d # c => inbound'[d] = << >>
  BY <1>0, <1>1, <1>6 DEF TypeOK
<1>8. OneOnWire'
  <2>1. \A d \in Connections : inbound'[d] # << >> => d = c
    BY <1>7
  <2>2. ASSUME NEW d \in Connections, NEW i \in 2 .. Len(inbound'[d])
        PROVE  inbound'[d][i][2] > 1
    <3>1. d = c
      BY <1>7
    <3>2. i \in 1 .. Len(bytes) /\ i > 1
      BY <1>5, <1>7, <3>1
    <3> QED
      BY <1>5, <1>7, <3>1, <3>2
  <2>3. inbound'[c] # << >> => inbound'[c][1][2] = 1
    BY <1>5, <1>7
  <2> QED
    BY <2>1, <2>2, <2>3 DEF OneOnWire
<1> QED
  BY <1>1, <1>2, <1>8 DEF QuietInv, Answering

\* What is left of the wire after a read.
LEMMA WireAfterRead ==
    ASSUME Inv, OneOnWire, NEW s \in Sessions, NEW n \in 1 .. HeaderSize,
           HandleReceive(s, n)
    PROVE  LET chunk == SubSeq(inbound[conn[s]], 1, n)
           IN  /\ is_open[s] /\ conn[s] \in Connections /\ conn[s] <= accepted
               /\ inbound[conn[s]] # << >>
               /\ chunk \in Seq(Byte) /\ Len(chunk) = n
               /\ \A i \in 1 .. n : chunk[i] = inbound[conn[s]][i]
               /\ \A i \in 1 .. Len(inbound'[conn[s]]) : inbound'[conn[s]][i][2] > 1
               /\ \A d \in Connections : d # conn[s] => inbound'[d] = inbound[d]
               /\ OneOnWire'
<1> DEFINE c == conn[s]
           old == inbound[c]
           chunk == SubSeq(old, 1, n)
           rest == SubSeq(old, n + 1, Len(old))
<1>0. TypeOK /\ InBounds /\ OneReader
  BY DEF Inv
<1>1. /\ reads[s] > 0 /\ n <= Len(old)
      /\ inbound' = [inbound EXCEPT ![c] = rest]
      /\ accepted' = accepted
  BY DEF HandleReceive, socket_vars
<1>2. is_open[s] /\ c \in Connections /\ c <= accepted
  <2>1. is_open[s]
    BY <1>0, <1>1 DEF OneReader
  <2> QED
    BY <1>0, <2>1, OpenServes DEF InBounds
<1>3. /\ old \in Seq(Byte) /\ n \in 1 .. Len(old)
      /\ \A i \in 2 .. Len(old) : old[i][2] > 1
  <2>1. old \in Seq(Byte)
    BY <1>0, <1>2 DEF TypeOK
  <2> QED
    BY <1>1, <1>2, <2>1, HeaderSizeAssumption DEF OneOnWire
<1>4. inbound'[c] = rest /\ \A d \in Connections : d # c => inbound'[d] = inbound[d]
  BY <1>0, <1>1, <1>2 DEF TypeOK
<1> HIDE DEF old, c
<1>5. chunk \in Seq(Byte) /\ Len(chunk) = n /\ \A i \in 1 .. n : chunk[i] = old[i]
  BY <1>3
<1>6. /\ rest \in Seq(Byte) /\ Len(rest) = Len(old) - n
      /\ \A i \in 1 .. Len(rest) : rest[i] = old[n + i]
  BY <1>3
<1> HIDE DEF chunk, rest
<1>7. \A i \in 1 .. Len(rest) : rest[i][2] > 1
  <2>1. \A i \in 1 .. Len(rest) : n + i \in 2 .. Len(old)
    BY <1>3, <1>6
  <2> QED
    BY <1>3, <1>6, <2>1
<1>8. old # << >>
  BY <1>3
<1>9. OneOnWire'
  <2>1. \A d \in Connections : inbound'[d] # << >> => inbound[d] # << >>
    BY <1>4, <1>8 DEF old
  <2>2. ASSUME NEW d \in Connections, NEW i \in 2 .. Len(inbound'[d])
        PROVE  inbound'[d][i][2] > 1
    <3>1. CASE d = c
      <4>1. i \in 1 .. Len(rest)
        BY <1>4, <1>6, <3>1
      <4> QED
        BY <1>4, <1>7, <3>1, <4>1
    <3>2. CASE d # c
      BY <1>4, <3>2 DEF OneOnWire
    <3> QED
      BY <3>1, <3>2
  <2>3. \A d \in Connections : d > accepted => d # c
    <3>1. accepted \in Nat /\ c \in Nat
      BY <1>0, <1>2 DEF TypeOK, Connections
    <3> QED
      BY <1>2, <3>1
  <2> QED
    BY <1>1, <1>4, <2>1, <2>2, <2>3 DEF OneOnWire
<1> QED
  BY <1>2, <1>4, <1>5, <1>7, <1>8, <1>9 DEF c, old, chunk

\* An empty queue holds at most one packet after at most one was pushed.
LEMMA AtMostOne ==
    ASSUME NEW q \in Seq({NULL}), Len(q) = 0, NEW r, r = q \/ r = Append(q, NULL)
    PROVE  Len(r) <= 1
  OBVIOUS

\* A read while the server answers makes nothing more to answer; a read that
\* makes it answer leaves nothing on the wire that could.
LEMMA QuietReceive ==
    ASSUME Inv, NamesInv, QuietInv, NEW s \in Sessions, NEW n \in 1 .. HeaderSize,
           HandleReceive(s, n)
    PROVE  QuietInv'
<1> DEFINE c == conn[s]
           chunk == SubSeq(inbound[c], 1, n)
           p == header(PacketBytes(s, chunk))
<1>0. TypeOK /\ InBounds /\ OneOnWire /\ ServesAlone
  BY DEF Inv, QuietInv, NamesInv
<1>1. /\ is_open[s] /\ c \in Connections /\ inbound[c] # << >>
      /\ chunk \in Seq(Byte) /\ Len(chunk) = n /\ n >= 1
      /\ \A i \in 1 .. n : chunk[i] = inbound[c][i]
      /\ \A i \in 1 .. Len(inbound'[c]) : inbound'[c][i][2] > 1
      /\ \A d \in Connections : d # c => inbound'[d] = inbound[d]
      /\ OneOnWire'
  BY <1>0, WireAfterRead
<1>2. /\ is_open' = is_open /\ conn' = conn /\ server' = server /\ n <= Len(inbound[c])
      /\ \/ ShortHeader(s, chunk) /\ UNCHANGED send_vars
         \/ Refused(s, chunk) /\ UNCHANGED send_vars
         \/ Incomplete(s, chunk) /\ UNCHANGED send_vars
         \/ Complete(s, chunk) /\ process_packet(s, p)
  BY DEF HandleReceive, socket_vars
<1>3. /\ packet_buffer_[s] \in Seq(Byte)
      /\ packet_buffer_mark_[s] \in 0 .. Len(packet_buffer_[s])
  BY <1>0 DEF TypeOK, InBounds
<1> HIDE DEF c, chunk, p
<1>4. \A d \in Connections : d # c => inbound'[d] = << >>
  <2> SUFFICES ASSUME NEW d \in Connections, d # c PROVE inbound'[d] = << >>
    OBVIOUS
  <2>1. inbound[d] = << >>
    BY <1>0, <1>1 DEF OneOnWire
  <2> QED
    BY <1>1, <2>1
<1>5. \A d \in Connections : \A i \in 1 .. Len(inbound'[d]) : inbound'[d][i][2] > 1
  BY <1>1, <1>4
<1>6. ASSUME NEW t \in Sessions, is_open'[t], inbound'[conn'[t]] # << >>
      PROVE  t = s
  <2>1. conn[t] \in Connections
    BY <1>0, <1>2, <1>6, OpenServes
  <2>2. conn[t] = c
    BY <1>2, <1>4, <1>6, <2>1
  <2> QED
    BY <1>0, <1>1, <1>2, <1>6, <2>2 DEF ServesAlone, c
<1>7. CASE Answering
  <2>1. NoHeaderLeft
    BY <1>7 DEF QuietInv
  <2>2. /\ ~content_read_mode_[s]
        /\ \A i \in 1 .. packet_buffer_mark_[s] : packet_buffer_[s][i][2] > 1
    BY <1>1, <2>1 DEF NoHeaderLeft, c
  <2>3. \A i \in 1 .. Len(chunk) : chunk[i][2] > 1
    <3>1. inbound[c] \in Seq(Byte)
      BY <1>0, <1>1 DEF TypeOK
    <3>2. \A i \in 1 .. n : i \in 1 .. Len(inbound[c])
      BY <1>1, <1>2, <3>1
    <3> QED
      BY <1>1, <2>1, <3>2 DEF NoHeaderLeft
  <2>4. /\ ~HeaderPasses(s, chunk)
        /\ \A i \in 1 .. packet_data_size(s, chunk) : Filled(s, chunk)[i][2] > 1
    BY <1>1, <1>3, <2>2, <2>3, NotAHeader
  <2>5. /\ UNCHANGED send_vars
        /\ \/ ShortHeader(s, chunk)
           \/ Refused(s, chunk)
    BY <1>2, <2>4 DEF Incomplete, Complete
  <2>6. /\ ~content_read_mode_'[s]
        /\ \A i \in 1 .. packet_buffer_mark_'[s] : packet_buffer_'[s][i][2] > 1
    <3>1. CASE ShortHeader(s, chunk)
      BY <1>0, <2>2, <2>4, <3>1 DEF ShortHeader, KeepChunk, TypeOK
    <3>2. CASE Refused(s, chunk)
      BY <1>0, <3>2 DEF Refused, clear_packet_buffer, TypeOK
    <3> QED
      BY <2>5, <3>1, <3>2
  <2>7. NoHeaderLeft'
    BY <1>5, <1>6, <2>6 DEF NoHeaderLeft
  <2> QED
    BY <1>1, <1>2, <2>5, <2>7 DEF QuietInv, send_vars
<1>8. CASE ~Answering /\ UNCHANGED send_vars
  BY <1>1, <1>2, <1>8 DEF QuietInv, Answering, send_vars
<1>9. CASE ~Answering /\ Complete(s, chunk) /\ process_packet(s, p)
  <2>1. \A t \in Sessions : send_data_queue_[t] = << >>
    BY <1>9 DEF Answering
  <2>2. \A t \in Sessions : Len(send_data_queue_'[t]) <= 1
    <3>1. \E targets, data : post_send(targets, data)
      BY <1>9 DEF process_packet
    <3>2. \A t \in Sessions : \/ send_data_queue_'[t] = send_data_queue_[t]
                             \/ send_data_queue_'[t] = Append(send_data_queue_[t], NULL)
      BY <3>1 DEF post_send
    <3> SUFFICES ASSUME NEW t \in Sessions PROVE Len(send_data_queue_'[t]) <= 1
      OBVIOUS
    <3> DEFINE q == send_data_queue_[t]
               r == send_data_queue_'[t]
    <3>3. q \in Seq({NULL}) /\ Len(q) = 0
      BY <1>0, <2>1 DEF TypeOK
    <3>4. r = q \/ r = Append(q, NULL)
      BY <3>2
    <3> HIDE DEF q, r
    <3>5. Len(r) <= 1
      BY <3>3, <3>4, AtMostOne
    <3> QED
      BY <3>5 DEF r
  <2>3. /\ ~content_read_mode_'[s]
        /\ packet_buffer_mark_'[s] = 0
    BY <1>0, <1>9 DEF Complete, clear_packet_buffer, TypeOK
  <2>4. \A i \in 1 .. packet_buffer_mark_'[s] : packet_buffer_'[s][i][2] > 1
    BY <2>3
  <2>5. NoHeaderLeft'
    BY <1>5, <1>6, <2>3, <2>4 DEF NoHeaderLeft
  <2> QED
    BY <1>1, <1>2, <2>2, <2>5 DEF QuietInv
<1> QED
  BY <1>2, <1>7, <1>8, <1>9

\* Each step of the server and its peers.
LEMMA QuietStep ==
    ASSUME Quiet, Inv, NamesInv, QuietInv, [Next]_vars
    PROVE  QuietInv'
<1>0. TypeOK /\ InBounds /\ OneOnWire
  BY DEF Inv, QuietInv
<1>1. CASE Connect
  BY <1>1 DEF Connect, QuietInv, Answering, OneOnWire, NoHeaderLeft, rx_vars,
              socket_vars, send_vars
<1>2. ASSUME NEW c \in Connections, NEW kind \in Kinds, PeerSend(c, kind)
      PROVE  QuietInv'
  BY <1>2, QuietSend
<1>3. ASSUME NEW c \in Connections, PeerClose(c)
      PROVE  QuietInv'
  BY <1>3 DEF PeerClose, QuietInv, Answering, OneOnWire, NoHeaderLeft, rx_vars,
              socket_vars, send_vars
<1>4. ASSUME NEW s \in Sessions, HandleAccept(s)
      PROVE  QuietInv'
  <2> DEFINE c == accepted + 1
  <2>1. /\ accepted < arrived /\ accepted' = c /\ accepted \in Nat
        /\ conn' = [conn EXCEPT ![s] = c]
        /\ is_open' = [is_open EXCEPT ![s] = TRUE]
        /\ packet_buffer_mark_' = [packet_buffer_mark_ EXCEPT ![s] = 0]
        /\ UNCHANGED <<packet_buffer_, content_read_mode_, send_data_queue_,
                       inbound, server>>
    BY <1>0, <1>4 DEF HandleAccept, init, TypeOK, send_vars, peer_vars
  <2>2. c \in Connections
    BY <1>0, <2>1, ServerAssumption DEF InBounds, Connections, TypeOK
  <2>3. OneOnWire'
    <3>1. \A d \in Connections : d > accepted + 1 => d > accepted
      BY <2>1 DEF Connections
    <3> QED
      BY <2>1, <3>1 DEF QuietInv, OneOnWire
  <2>4. Answering => inbound[c] = << >>
    <3> SUFFICES ASSUME Answering, inbound[c] # << >> PROVE FALSE
      OBVIOUS
    <3>1. inbound[c][1][2] = 1
      BY <2>1, <2>2 DEF QuietInv, OneOnWire
    <3>2. inbound[c] \in Seq(Byte)
      BY <1>0, <2>2 DEF TypeOK
    <3> HIDE DEF c
    <3>3. 1 \in 1 .. Len(inbound[c])
      BY <3>2
    <3>4. inbound[c][1][2] > 1
      BY <2>2, <3>3 DEF QuietInv, NoHeaderLeft
    <3> QED
      BY <3>1, <3>4
  <2>5. ASSUME Answering
        PROVE  NoHeaderLeft'
    <3>1. NoHeaderLeft
      BY <2>5 DEF QuietInv
    <3>2. ASSUME NEW t \in Sessions, is_open'[t], inbound'[conn'[t]] # << >>
          PROVE  /\ is_open[t] /\ conn'[t] = conn[t]
                 /\ packet_buffer_mark_'[t] = packet_buffer_mark_[t]
      <4>1. t # s
        BY <1>0, <2>1, <2>4, <2>5, <3>2 DEF TypeOK
      <4> QED
        BY <1>0, <2>1, <3>2, <4>1 DEF TypeOK
    <3> QED
      BY <2>1, <3>1, <3>2 DEF NoHeaderLeft
  <2> QED
    BY <2>1, <2>3, <2>5 DEF QuietInv, Answering
<1>5. ASSUME NEW s \in Sessions, HandleAcceptError(s)
      PROVE  QuietInv'
  BY <1>5 DEF HandleAcceptError, QuietInv, Answering, OneOnWire, NoHeaderLeft, rx_vars,
              socket_vars, send_vars, peer_vars
<1>6. ASSUME NEW s \in Sessions, NEW n \in 1 .. HeaderSize, HandleReceive(s, n)
      PROVE  QuietInv'
  BY <1>6, QuietReceive
<1>7. ASSUME NEW s \in Sessions, HandleReceiveError(s)
      PROVE  QuietInv'
  <2>1. /\ is_open' = [is_open EXCEPT ![s] = FALSE]
        /\ inbound' = [inbound EXCEPT ![conn[s]] = << >>]
        /\ UNCHANGED <<rx_vars, conn, accepted, send_data_queue_, server>>
    BY <1>7 DEF HandleReceiveError, close_session, send_vars
  <2>2. \A d \in Connections : inbound'[d] = inbound[d] \/ inbound'[d] = << >>
    BY <1>0, <2>1 DEF TypeOK
  <2>3. OneOnWire'
    BY <2>1, <2>2 DEF QuietInv, OneOnWire
  <2>4. ASSUME NoHeaderLeft
        PROVE  NoHeaderLeft'
    <3>1. ASSUME NEW t \in Sessions, is_open'[t], inbound'[conn'[t]] # << >>
          PROVE  is_open[t] /\ inbound[conn[t]] # << >>
      <4>1. is_open[t]
        BY <1>0, <2>1, <3>1 DEF TypeOK
      <4>2. conn[t] \in Connections
        BY <1>0, <4>1, OpenServes
      <4> QED
        BY <2>1, <2>2, <3>1, <4>1, <4>2
    <3> QED
      BY <2>1, <2>2, <2>4, <3>1 DEF NoHeaderLeft, rx_vars
  <2> QED
    BY <2>1, <2>3, <2>4 DEF QuietInv, Answering
<1>8. ASSUME NEW s \in Sessions, HandleWrite(s)
      PROVE  QuietInv'
  <2> DEFINE queue == Tail(send_data_queue_[s])
  <2>1. /\ writes[s] # << >>
        /\ send_data_queue_' = [send_data_queue_ EXCEPT ![s] = queue]
        /\ server' = IF queue # << >> /\ Head(queue) = NULL THEN "crashed" ELSE server
        /\ UNCHANGED <<rx_vars, is_open, conn, accepted, inbound>>
    BY <1>8 DEF HandleWrite, socket_vars, peer_vars
  <2>2. send_data_queue_[s] \in Seq({NULL}) /\ Len(send_data_queue_[s]) <= 1
    BY <1>0 DEF TypeOK, QuietInv
  <2>3. send_data_queue_[s] # << >>
    <3>1. Len(writes[s]) = IF send_data_queue_[s] = << >> THEN 0 ELSE 1
      BY DEF Inv, QuietInv, OneWrite
    <3>2. Len(writes[s]) # 0
      BY <1>0, <2>1 DEF TypeOK
    <3> QED
      BY <3>1, <3>2
  <2>4. queue = << >>
    BY <2>2, <2>3
  <2>5. \A t \in Sessions : \/ send_data_queue_'[t] = send_data_queue_[t]
                           \/ send_data_queue_'[t] = << >>
    BY <1>0, <2>1, <2>4 DEF TypeOK
  <2>6. \A t \in Sessions : Len(send_data_queue_'[t]) <= 1
    BY <2>5 DEF QuietInv
  <2>7. Answering' => Answering
    BY <2>5 DEF Answering
  <2> QED
    BY <2>1, <2>4, <2>6, <2>7 DEF QuietInv, OneOnWire, NoHeaderLeft, rx_vars
<1>9. CASE RunReturns
  BY <1>9 DEF RunReturns, QuietInv, Answering, OneOnWire, NoHeaderLeft, rx_vars,
              socket_vars, send_vars, peer_vars
<1>10. CASE UNCHANGED vars
  BY <1>10 DEF vars, QuietInv, Answering, OneOnWire, NoHeaderLeft, rx_vars,
               socket_vars, send_vars, peer_vars
<1> QED
  BY <1>1, <1>2, <1>3, <1>4, <1>5, <1>6, <1>7, <1>8, <1>9, <1>10 DEF Next

\* Peers that wait until nothing is under way never make handle_write find a
\* null packet: what ends the program takes two packets close to each other.
THEOREM QuietPeersSurvive ==
    ASSUME Quiet
    PROVE  Spec => []Survives
<1>1. Init => QuietInv
  BY DEF Init, QuietInv, Answering, OneOnWire
<1>2. Inv /\ NamesInv /\ QuietInv /\ [Next]_vars => QuietInv'
  BY QuietStep
<1>3. QuietInv => Survives
  BY DEF QuietInv, Survives
<1> QED
  BY <1>1, <1>2, <1>3, Invariance, NamesInvariance, PTL DEF Spec

===============================================================================
