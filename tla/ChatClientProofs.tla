-------------------------- MODULE ChatClientProofs ---------------------------
(***************************************************************************)
(* Proofs about ChatClient, for every number of lines and of notices.      *)
(***************************************************************************)
EXTENDS ChatClient, TLAPS, SequenceTheorems

Write == [packet : Packet, state : {"started", "done", "failed"}]

\* What the two threads keep of the queue and the write under way.
QueueInv ==
    /\ OneWrite
    /\ ~overlapped => Len(send_data_queue_) = Len(writes)

\* The packets the worker thread and the server handle are those main posted.
last == IF written = << >> THEN 0 ELSE written[Len(written)].n

OrderInv ==
    /\ Len(posted) + (IF main \in {"is_connecting", "is_logged_in", "post_send"}
                      THEN 1 ELSE 0) <= lines
    /\ \A k \in 1 .. Len(posted) : posted[k].n = k
    /\ last \in 0 .. Len(posted)
    /\ \A i \in 1 .. Len(writes) :
          /\ writes[i].packet.n \in 1 .. Len(posted)
          /\ posted[writes[i].packet.n] = writes[i].packet
          /\ writes[i].state = "started" => last < writes[i].packet.n

\* Where the flag comes from: a reply, a login that reached the server.
LoginInv ==
    /\ answered \subseteq Logins(written)
    /\ \A i \in 1 .. Len(inbound) : inbound[i] = "REPLY_LOGIN" => Logins(written) # {}
    /\ is_logged_in_ => Logins(written) # {}
    /\ (main = "post_send" /\ id = "REQUEST_CHAT") => Logins(written) # {}
    /\ ChatNeedsLogin

\* The worker thread stays while there is a connection, or still may be one.
ServeInv ==
    /\ connect = "pending" => socket = "open"
    /\ connect = "refused" => socket # "connected"
    /\ connect = "done" /\ socket = "connected" => reading
    /\ connect # "done" \/ socket = "connected" => running \/ stopped

\* The inductive invariant.
Inv == TypeOK /\ QueueInv /\ OrderInv /\ LoginInv /\ ServeInv

-------------------------------------------------------------------------------

\* A sequence of one element.
LEMMA OneElement ==
    ASSUME NEW S, NEW q \in Seq(S), q # << >>, Len(q) <= 1
    PROVE  /\ Len(q) = 1
           /\ q[1] \in S
           /\ Head(q) = q[1]
           /\ Tail(q) = << >>
<1>0. Len(q) \in Nat \ {0}
  BY EmptySeq, Zenon
<1>1. Len(q) = 1
  BY <1>0
<1>2. Tail(q) \in Seq(S) /\ Len(Tail(q)) = 0
  BY <1>1
<1>3. Tail(q) = << >>
  BY <1>2, EmptySeq
<1> QED
  BY <1>1, <1>3

\* Closing the socket changes only the state of what is under way.
LEMMA CloseKeeps ==
    ASSUME TypeOK, close
    PROVE  /\ socket' = "closed"
           /\ connect' \in {"accepted", "refused", "done"}
           /\ writes' \in Seq(Write)
           /\ Len(writes') = Len(writes)
           /\ \A i \in 1 .. Len(writes) :
                 /\ writes'[i].packet = writes[i].packet
                 /\ writes'[i].state # "started"
<1>1. writes \in Seq(Write)
  BY DEF TypeOK, Write
<1>2. \A i \in 1 .. Len(writes) : writes[i] \in Write
  BY <1>1
<1>3. \A i \in 1 .. Len(writes) :
         (IF writes[i].state = "started" THEN [writes[i] EXCEPT !.state = "failed"]
          ELSE writes[i]) \in Write
  BY <1>2 DEF Write
<1>4. writes' \in Seq(Write) /\ Len(writes') = Len(writes)
  BY <1>1, <1>3 DEF close
<1>5. \A i \in 1 .. Len(writes) :
         writes'[i].packet = writes[i].packet /\ writes'[i].state # "started"
  BY <1>2 DEF close, Write
<1> QED
  BY <1>4, <1>5 DEF close, TypeOK

\* A new packet is queued, and written only when the queue was empty.
LEMMA PostSendKeeps ==
    ASSUME TypeOK, NEW packet \in Packet, post_send(packet)
    PROVE  /\ send_data_queue_' \in Seq({NULL})
           /\ Len(send_data_queue_') = Len(send_data_queue_) + 1
           /\ writes' \in Seq(Write)
           /\ send_data_queue_ # << >> => writes' = writes
           /\ send_data_queue_ = << >> =>
                 /\ Len(writes') = Len(writes) + 1
                 /\ writes'[Len(writes')].packet = packet
                 /\ \A i \in 1 .. Len(writes) : writes'[i] = writes[i]
<1> DEFINE w == begun(packet)
<1>1. w \in Write /\ w.packet = packet
  BY DEF Write, begun
<1>2. writes \in Seq(Write) /\ send_data_queue_ \in Seq({NULL})
  BY DEF TypeOK, Write
<1>3. /\ send_data_queue_' \in Seq({NULL})
      /\ Len(send_data_queue_') = Len(send_data_queue_) + 1
  BY <1>2 DEF post_send
<1>4. send_data_queue_ = << >> <=> Len(send_data_queue_') < 2
  BY <1>2, <1>3
<1>5. writes' = IF send_data_queue_ = << >> THEN Append(writes, w) ELSE writes
  BY <1>4 DEF post_send
<1> HIDE DEF w
<1> QED
  BY <1>1, <1>2, <1>3, <1>5

\* handle_write takes one packet and one write away: what is queued is null.
LEMMA HandleWriteKeeps ==
    ASSUME TypeOK, QueueInv, HandleWrite
    PROVE  /\ writes' = << >>
           /\ send_data_queue_' \in Seq({NULL})
           /\ Len(send_data_queue_') = Len(send_data_queue_) - 1
           /\ Len(writes) = 1
<1>1. /\ writes \in Seq(Write) /\ send_data_queue_ \in Seq({NULL})
      /\ Len(writes) <= 1 /\ writes # << >> /\ send_data_queue_ # << >>
  BY DEF TypeOK, Write, QueueInv, OneWrite, HandleWrite
<1>2. Len(writes) = 1 /\ Tail(writes) = << >>
  BY <1>1, OneElement
<1> DEFINE queue == Tail(send_data_queue_)
<1>3. queue \in Seq({NULL}) /\ Len(queue) = Len(send_data_queue_) - 1
  BY <1>1
<1>4. queue # << >> => Head(queue) = NULL
  BY <1>3
<1>5. send_data_queue_' = queue
  BY DEF HandleWrite
<1>6. writes' = Tail(writes)
  BY <1>4 DEF HandleWrite
<1> HIDE DEF queue
<1> QED
  BY <1>2, <1>3, <1>5, <1>6

\* A write that completes changes its state, and reaches the server or not.
LEMMA CompletesKeeps ==
    ASSUME TypeOK, QueueInv, WriteCompletes
    PROVE  /\ Len(writes) = 1 /\ writes[1] \in Write /\ writes[1].state = "started"
           /\ writes' \in Seq(Write) /\ Len(writes') = 1
           /\ writes'[1].packet = writes[1].packet
           /\ writes'[1].state # "started"
           /\ \/ written' = written
              \/ written' = Append(written, writes[1].packet)
<1>1. writes \in Seq(Write) /\ Len(writes) <= 1 /\ writes # << >>
  BY DEF TypeOK, Write, QueueInv, OneWrite, WriteCompletes
<1>2. Len(writes) = 1 /\ writes[1] \in Write /\ Head(writes) = writes[1]
  BY <1>1, OneElement
<1>3. \E st \in {"done", "failed"} : writes' = [writes EXCEPT ![1].state = st]
  BY DEF WriteCompletes
<1>4. PICK st \in {"done", "failed"} : writes' = [writes EXCEPT ![1].state = st]
  BY <1>3
<1>5. [writes[1] EXCEPT !.state = st] \in Write
  BY <1>2 DEF Write
<1>6. /\ [writes[1] EXCEPT !.state = st].packet = writes[1].packet
      /\ [writes[1] EXCEPT !.state = st].state = st
  BY <1>2 DEF Write
<1>7. writes' = [writes EXCEPT ![1] = [writes[1] EXCEPT !.state = st]]
  BY <1>4
<1>8. writes' \in Seq(Write) /\ Len(writes') = 1
      /\ writes'[1] = [writes[1] EXCEPT !.state = st]
  BY <1>1, <1>2, <1>5, <1>7
<1> QED
  BY <1>2, <1>6, <1>8 DEF WriteCompletes

\* Logins that have reached the server stay.
LEMMA LoginsGrow ==
    ASSUME written \in Seq(Packet), NEW p \in Packet, written' = Append(written, p)
    PROVE  Logins(written) \subseteq Logins(written')
<1> SUFFICES ASSUME NEW i \in Logins(written) PROVE i \in Logins(written')
  OBVIOUS
<1>1. i \in 1 .. Len(written) /\ written[i].id = "REQUEST_LOGIN"
  BY DEF Logins
<1>2. Len(written') = Len(written) + 1 /\ written'[i] = written[i]
  BY <1>1
<1> QED
  BY <1>1, <1>2 DEF Logins

-------------------------------------------------------------------------------

\* The loop of main.
Loop == {"getline", "is_connecting", "is_logged_in", "post_send"}

\* Both threads keep the types.
LEMMA TypeStep == TypeOK /\ QueueInv /\ OrderInv /\ [Next]_vars => TypeOK'
<1> SUFFICES ASSUME TypeOK, QueueInv, OrderInv, [Next]_vars PROVE TypeOK'
  OBVIOUS
<1> USE DEF io_vars, main_vars, client_vars, server_vars
<1>w. writes \in Seq(Write)
  BY DEF TypeOK, Write
<1>1. CASE GetLine
  BY <1>1, ClientAssumption DEF GetLine, TypeOK
<1>2. CASE EndOfInput
  BY <1>2 DEF EndOfInput, TypeOK
<1>3. CASE is_connecting
  BY <1>3 DEF is_connecting, TypeOK
<1>4. CASE is_logged_in
  BY <1>4 DEF is_logged_in, TypeOK, Ids
<1>5. CASE PostSend
  <2> DEFINE packet == [id |-> id, n |-> Len(posted) + 1]
  <2>1. packet \in Packet
    BY DEF TypeOK, Packet
  <2>2. post_send(packet) /\ posted' = Append(posted, packet)
    BY <1>5 DEF PostSend
  <2>3. posted' \in Seq(Packet)
    BY <2>1, <2>2 DEF TypeOK
  <2>4. send_data_queue_' \in Seq({NULL}) /\ writes' \in Seq(Write)
    BY <2>1, <2>2, PostSendKeeps
  <2> HIDE DEF packet
  <2>5. overlapped' \in BOOLEAN
    BY <1>5 DEF PostSend, TypeOK
  <2> QED
    BY <1>5, <2>3, <2>4, <2>5 DEF PostSend, TypeOK, Write
<1>6. CASE StopService
  BY <1>6 DEF StopService, TypeOK
<1>7. CASE CloseSocket
  BY <1>7, CloseKeeps DEF CloseSocket, TypeOK, Write
<1>8. CASE Join
  BY <1>8 DEF Join, TypeOK
<1>9. CASE HandleConnect
  BY <1>9 DEF HandleConnect, TypeOK
<1>10. CASE HandleWrite
  <2>1. writes' \in Seq(Write) /\ send_data_queue_' \in Seq({NULL})
    BY <1>10, HandleWriteKeeps
  <2> QED
    BY <1>10, <2>1 DEF HandleWrite, TypeOK, Write
<1>11. ASSUME NEW n \in 1 .. MaxLines + MaxNotices, HandleReceive(n) PROVE TypeOK'
  <2>1. inbound' \in Seq({"REPLY_LOGIN", "NOTICE_CHAT"})
    BY <1>11, ClientAssumption DEF HandleReceive, TypeOK
  <2>2. is_logged_in_' \in BOOLEAN
    BY <1>11 DEF HandleReceive, process_packet, TypeOK
  <2> QED
    BY <1>11, <2>1, <2>2 DEF HandleReceive, TypeOK
<1>12. CASE HandleReceiveError
  BY <1>12, CloseKeeps DEF HandleReceiveError, TypeOK, Write
<1>13. CASE RunReturns
  <2>1. /\ running' \in BOOLEAN
        /\ UNCHANGED <<io_vars, main_vars, server_vars, send_data_queue_,
                       is_logged_in_, torn, written>>
    BY <1>13 DEF RunReturns
  <2> QED
    BY <2>1 DEF TypeOK
<1>14. CASE ConnectCompletes
  BY <1>14 DEF ConnectCompletes, TypeOK
<1>15. CASE WriteCompletes
  <2>1. writes' \in Seq(Write)
    BY <1>15, CompletesKeeps
  <2>2. writes[1].packet \in Packet
    BY <1>15, CompletesKeeps DEF Write
  <2>3. written' = written \/ written' = Append(written, writes[1].packet)
    BY <1>15, CompletesKeeps
  <2>4. written \in Seq(Packet)
    BY DEF TypeOK
  <2>5. written' \in Seq(Packet)
    BY <2>2, <2>3, <2>4
  <2> QED
    BY <1>15, <2>1, <2>5 DEF WriteCompletes, TypeOK, Write
<1>16. ASSUME NEW i \in 1 .. MaxLines, ServerReplies(i) PROVE TypeOK'
  <2>1. inbound' \in Seq({"REPLY_LOGIN", "NOTICE_CHAT"})
    BY <1>16 DEF ServerReplies, TypeOK
  <2>2. answered' \subseteq Nat
    BY <1>16, ClientAssumption DEF ServerReplies, TypeOK
  <2> QED
    BY <1>16, <2>1, <2>2 DEF ServerReplies, TypeOK
<1>17. CASE ServerNotifies
  BY <1>17 DEF ServerNotifies, TypeOK
<1>18. CASE ServerCloses
  BY <1>18 DEF ServerCloses, TypeOK
<1>19. CASE UNCHANGED vars
  BY <1>19 DEF vars, TypeOK
<1> QED
  BY <1>1, <1>2, <1>3, <1>4, <1>5, <1>6, <1>7, <1>8, <1>9, <1>10, <1>11, <1>12,
     <1>13, <1>14, <1>15, <1>16, <1>17, <1>18, <1>19 DEF Next

\* The steps that touch neither the queue nor what is under way or written.
Elsewhere ==
    /\ UNCHANGED <<writes, send_data_queue_, written, posted, overlapped>>
    /\ \/ UNCHANGED <<main, id, lines>>
       \/ GetLine \/ is_connecting \/ is_logged_in
       \/ main' \notin Loop \ {"getline"} /\ UNCHANGED <<id, lines>>

\* Every step is one of these.
LEMMA StepKinds ==
    ASSUME [Next]_vars
    PROVE  \/ Elsewhere
           \/ PostSend
           \/ CloseSocket \/ HandleReceiveError
           \/ HandleWrite
           \/ WriteCompletes
<1> USE DEF io_vars, main_vars, client_vars, server_vars
<1>1. CASE EndOfInput \/ StopService \/ Join
  BY <1>1 DEF EndOfInput, StopService, Join, Elsewhere, Loop
<1>2. CASE GetLine \/ is_connecting \/ is_logged_in
  BY <1>2 DEF GetLine, is_connecting, is_logged_in, Elsewhere
<1>3. CASE HandleConnect \/ RunReturns \/ ConnectCompletes \/ ServerNotifies \/ ServerCloses
  BY <1>3 DEF HandleConnect, RunReturns, ConnectCompletes, ServerNotifies, ServerCloses,
              Elsewhere
<1>4. ASSUME NEW n \in 1 .. MaxLines + MaxNotices, HandleReceive(n) PROVE Elsewhere
  BY <1>4 DEF HandleReceive, Elsewhere
<1>5. ASSUME NEW i \in 1 .. MaxLines, ServerReplies(i) PROVE Elsewhere
  BY <1>5 DEF ServerReplies, Elsewhere
<1>6. CASE UNCHANGED vars
  BY <1>6 DEF vars, Elsewhere
<1> QED
  BY <1>1, <1>2, <1>3, <1>4, <1>5, <1>6 DEF Next

\* However the threads interleave: one write for a queue that is not empty, and
\* without an overlap none is left behind.
LEMMA QueueStep == TypeOK /\ QueueInv /\ [Next]_vars => QueueInv'
<1> SUFFICES ASSUME TypeOK, QueueInv, [Next]_vars PROVE QueueInv'
  OBVIOUS
<1>0. /\ writes \in Seq(Write) /\ send_data_queue_ \in Seq({NULL})
      /\ overlapped \in BOOLEAN
  BY DEF TypeOK, Write
<1>1. CASE Elsewhere
  BY <1>1 DEF Elsewhere, QueueInv, OneWrite
<1>2. CASE PostSend
  <2> DEFINE packet == [id |-> id, n |-> Len(posted) + 1]
  <2>1. packet \in Packet
    BY DEF TypeOK, Packet
  <2>2. post_send(packet) /\ overlapped' = (overlapped \/ send_data_queue_ # << >>)
    BY <1>2 DEF PostSend
  <2>3. /\ send_data_queue_' \in Seq({NULL})
        /\ Len(send_data_queue_') = Len(send_data_queue_) + 1
        /\ writes' \in Seq(Write)
        /\ send_data_queue_ # << >> => writes' = writes
        /\ send_data_queue_ = << >> => Len(writes') = Len(writes) + 1
    BY <2>1, <2>2, PostSendKeeps
  <2>4. send_data_queue_' # << >>
    BY <1>0, <2>3
  <2>5. CASE send_data_queue_ = << >>
    <3>1. writes = << >>
      BY <2>5 DEF QueueInv, OneWrite
    <3>2. Len(writes') = 1 /\ Len(send_data_queue_') = 1
      BY <2>3, <2>5, <3>1
    <3> QED
      BY <2>4, <3>2 DEF QueueInv, OneWrite
  <2>6. CASE send_data_queue_ # << >>
    BY <2>2, <2>3, <2>4, <2>6 DEF QueueInv, OneWrite
  <2> QED
    BY <2>5, <2>6
<1>3. CASE CloseSocket \/ HandleReceiveError
  <2>1. close /\ UNCHANGED <<send_data_queue_, overlapped>>
    BY <1>3 DEF CloseSocket, HandleReceiveError, main_vars, client_vars
  <2>2. writes' \in Seq(Write) /\ Len(writes') = Len(writes)
    BY <2>1, CloseKeeps
  <2>3. writes' # << >> => writes # << >>
    BY <1>0, <2>2
  <2> QED
    BY <2>1, <2>2, <2>3 DEF QueueInv, OneWrite
<1>4. CASE HandleWrite
  <2>1. /\ writes' = << >>
        /\ Len(send_data_queue_') = Len(send_data_queue_) - 1
        /\ Len(writes) = 1
    BY <1>4, HandleWriteKeeps
  <2>2. overlapped' = overlapped
    BY <1>4 DEF HandleWrite, main_vars, client_vars
  <2>3. Len(writes') = 0
    BY <2>1
  <2> QED
    BY <2>1, <2>2, <2>3 DEF QueueInv, OneWrite
<1>5. CASE WriteCompletes
  <2>1. Len(writes) = 1 /\ Len(writes') = 1 /\ writes # << >>
    BY <1>5, CompletesKeeps DEF WriteCompletes
  <2>2. UNCHANGED <<send_data_queue_, overlapped>>
    BY <1>5 DEF WriteCompletes, main_vars, client_vars
  <2> QED
    BY <2>1, <2>2 DEF QueueInv, OneWrite
<1> QED
  BY <1>1, <1>2, <1>3, <1>4, <1>5, StepKinds

\* Where main is, and how many lines it has read.
LEMMA ElsewhereCounts ==
    ASSUME TypeOK, OrderInv, Elsewhere
    PROVE  Len(posted') + (IF main' \in {"is_connecting", "is_logged_in", "post_send"}
                           THEN 1 ELSE 0) <= lines'
<1>0. Len(posted) \in Nat /\ posted' = posted /\ lines \in Nat
  BY ClientAssumption DEF TypeOK, Elsewhere
<1>1. CASE UNCHANGED <<main, id, lines>>
  BY <1>0, <1>1 DEF OrderInv
<1>2. CASE GetLine
  BY <1>0, <1>2 DEF OrderInv, GetLine
<1>3. CASE is_connecting \/ is_logged_in
  BY <1>0, <1>3 DEF OrderInv, is_connecting, is_logged_in, main_vars, client_vars
<1>4. CASE main' \notin Loop \ {"getline"} /\ UNCHANGED <<id, lines>>
  BY <1>0, <1>4 DEF OrderInv, Loop
<1> QED
  BY <1>1, <1>2, <1>3, <1>4 DEF Elsewhere

\* Packets are numbered as they are posted, and written in that order.
LEMMA OrderStep == TypeOK /\ QueueInv /\ OrderInv /\ [Next]_vars => OrderInv'
<1> SUFFICES ASSUME TypeOK, QueueInv, OrderInv, [Next]_vars PROVE OrderInv'
  OBVIOUS
<1>0. /\ writes \in Seq(Write) /\ written \in Seq(Packet) /\ posted \in Seq(Packet)
      /\ lines \in Nat /\ last \in Nat
      /\ \A i \in 1 .. Len(writes) : writes[i] \in Write
  <2>1. /\ writes \in Seq(Write) /\ written \in Seq(Packet) /\ posted \in Seq(Packet)
        /\ lines \in Nat
    BY ClientAssumption DEF TypeOK, Write
  <2>2. Len(posted) \in Nat
    BY <2>1
  <2>3. last \in Nat
    BY <2>2 DEF OrderInv
  <2>4. \A i \in 1 .. Len(writes) : writes[i] \in Write
    BY <2>1
  <2> QED
    BY <2>1, <2>3, <2>4
<1>1. CASE Elsewhere
  <2>1. UNCHANGED <<writes, written, posted>>
    BY <1>1 DEF Elsewhere
  <2>2. last' = last
    BY <2>1 DEF last
  <2> QED
    BY <1>1, <2>1, <2>2, ElsewhereCounts DEF OrderInv
<1>2. CASE PostSend
  <2> DEFINE packet == [id |-> id, n |-> Len(posted) + 1]
  <2>1. packet \in Packet /\ packet.n = Len(posted) + 1
    BY DEF TypeOK, Packet
  <2>2. /\ post_send(packet) /\ posted' = Append(posted, packet)
        /\ main = "post_send" /\ main' = "getline" /\ lines' = lines
        /\ written' = written
    BY <1>2 DEF PostSend
  <2> HIDE DEF packet
  <2>3. /\ send_data_queue_ # << >> => writes' = writes
        /\ writes' \in Seq(Write)
        /\ send_data_queue_ = << >> =>
              Len(writes') = Len(writes) + 1 /\ writes'[Len(writes')].packet = packet
    BY <2>1, <2>2, PostSendKeeps
  <2>4. /\ posted' \in Seq(Packet) /\ Len(posted') = Len(posted) + 1
        /\ \A k \in 1 .. Len(posted) : posted'[k] = posted[k]
        /\ posted'[Len(posted) + 1] = packet
    BY <1>0, <2>1, <2>2
  <2>5. last' = last
    BY <2>2 DEF last
  <2>6. Len(posted') <= lines'
    BY <1>0, <2>2, <2>4 DEF OrderInv
  <2>7. ASSUME NEW k \in 1 .. Len(posted') PROVE posted'[k].n = k
    <3>1. Len(posted) \in Nat
      BY <1>0
    <3>2. CASE k = Len(posted) + 1
      BY <2>1, <2>4, <3>2
    <3>3. CASE k \in 1 .. Len(posted)
      BY <2>4, <3>3 DEF OrderInv
    <3> QED
      BY <2>4, <3>1, <3>2, <3>3
  <2>8. last' \in 0 .. Len(posted')
    BY <1>0, <2>4, <2>5 DEF OrderInv
  <2>9. ASSUME NEW i \in 1 .. Len(writes')
        PROVE  /\ writes'[i].packet.n \in 1 .. Len(posted')
               /\ posted'[writes'[i].packet.n] = writes'[i].packet
               /\ writes'[i].state = "started" => last' < writes'[i].packet.n
    <3>1. CASE send_data_queue_ = << >>
      <4>1. writes = << >>
        BY <3>1 DEF QueueInv, OneWrite
      <4>2. Len(writes') = 1
        BY <2>3, <3>1, <4>1
      <4>3. writes'[i].packet = packet
        BY <2>3, <3>1, <4>2
      <4> QED
        BY <1>0, <2>1, <2>4, <2>5, <4>3 DEF OrderInv
    <3>2. CASE send_data_queue_ # << >>
      <4>1. writes' = writes
        BY <2>3, <3>2
      <4>2. /\ writes[i].packet.n \in 1 .. Len(posted)
            /\ posted[writes[i].packet.n] = writes[i].packet
            /\ writes[i].state = "started" => last < writes[i].packet.n
        BY <4>1, <2>9 DEF OrderInv
      <4> QED
        BY <1>0, <2>4, <2>5, <4>1, <4>2
    <3> QED
      BY <3>1, <3>2
  <2> QED
    BY <2>2, <2>6, <2>7, <2>8, <2>9 DEF OrderInv
<1>3. CASE CloseSocket \/ HandleReceiveError
  <2>1. close /\ UNCHANGED <<written, posted, lines>>
    BY <1>3 DEF CloseSocket, HandleReceiveError, main_vars, client_vars
  <2>2. /\ Len(writes') = Len(writes)
        /\ \A i \in 1 .. Len(writes) :
              writes'[i].packet = writes[i].packet /\ writes'[i].state # "started"
    BY <2>1, CloseKeeps
  <2>3. last' = last
    BY <2>1 DEF last
  <2>4. main' = main \/ main' = "join"
    BY <1>3 DEF CloseSocket, HandleReceiveError, main_vars, client_vars
  <2>5. Len(posted') + (IF main' \in {"is_connecting", "is_logged_in", "post_send"}
                        THEN 1 ELSE 0) <= lines'
    <3>1. Len(posted) \in Nat /\ posted' = posted /\ lines' = lines
      BY <1>0, <2>1
    <3> QED
      BY <1>0, <2>4, <3>1 DEF OrderInv
  <2>6. ASSUME NEW i \in 1 .. Len(writes')
        PROVE  /\ writes'[i].packet.n \in 1 .. Len(posted')
               /\ posted'[writes'[i].packet.n] = writes'[i].packet
               /\ writes'[i].state = "started" => last' < writes'[i].packet.n
    BY <2>1, <2>2 DEF OrderInv
  <2>7. (\A k \in 1 .. Len(posted') : posted'[k].n = k) /\ last' \in 0 .. Len(posted')
    BY <2>1, <2>3 DEF OrderInv
  <2> QED
    BY <2>5, <2>6, <2>7 DEF OrderInv
<1>4. CASE HandleWrite
  <2>1. writes' = << >> /\ UNCHANGED <<written, posted, lines, main>>
    BY <1>4, HandleWriteKeeps DEF HandleWrite, main_vars, client_vars
  <2>2. last' = last
    BY <2>1 DEF last
  <2>3. Len(writes') = 0
    BY <2>1
  <2> QED
    BY <2>1, <2>2, <2>3 DEF OrderInv
<1>5. CASE WriteCompletes
  <2>1. /\ Len(writes) = 1 /\ writes[1] \in Write /\ writes[1].state = "started"
        /\ Len(writes') = 1
        /\ writes'[1].packet = writes[1].packet /\ writes'[1].state # "started"
        /\ written' = written \/ written' = Append(written, writes[1].packet)
    BY <1>5, CompletesKeeps
  <2>2. UNCHANGED <<posted, lines, main>>
    BY <1>5 DEF WriteCompletes, main_vars, client_vars
  <2>3. /\ writes[1].packet.n \in 1 .. Len(posted)
        /\ posted[writes[1].packet.n] = writes[1].packet
    BY <2>1 DEF OrderInv
  <2>4. writes[1].packet \in Packet
    BY <2>1 DEF Write
  <2>5. last' \in 0 .. Len(posted)
    <3>1. CASE written' = written
      BY <3>1 DEF last, OrderInv
    <3>2. CASE written' = Append(written, writes[1].packet)
      <4>1. written' # << >> /\ written'[Len(written')] = writes[1].packet
        BY <1>0, <2>4, <3>2, AppendProperties
      <4>2. last' = writes[1].packet.n
        BY <4>1 DEF last
      <4> QED
        BY <2>3, <4>2
    <3> QED
      BY <2>1, <3>1, <3>2
  <2> QED
    BY <2>1, <2>2, <2>3, <2>5 DEF OrderInv
<1> QED
  BY <1>1, <1>2, <1>3, <1>4, <1>5, StepKinds

\* The flag, the replies on their way and the chats all go back to a login that
\* reached the server.
LEMMA LoginStep == TypeOK /\ QueueInv /\ LoginInv /\ [Next]_vars => LoginInv'
<1> SUFFICES ASSUME TypeOK, QueueInv, LoginInv, [Next]_vars PROVE LoginInv'
  OBVIOUS
<1> DEFINE seen == Logins(written) # {}
<1>0. /\ written \in Seq(Packet) /\ posted \in Seq(Packet)
      /\ inbound \in Seq({"REPLY_LOGIN", "NOTICE_CHAT"})
  BY DEF TypeOK
<1>1. CASE UNCHANGED <<inbound, answered, is_logged_in_, posted, written>>
           /\ (main' # "post_send" \/ UNCHANGED <<main, id>>)
  BY <1>1 DEF LoginInv, ChatNeedsLogin, Logins
<1>2. CASE is_logged_in
  <2>1. /\ UNCHANGED <<inbound, answered, is_logged_in_, posted, written>>
        /\ id' = IF is_logged_in_ THEN "REQUEST_CHAT" ELSE "REQUEST_LOGIN"
    BY <1>2 DEF is_logged_in, server_vars, client_vars
  <2> QED
    BY <2>1 DEF LoginInv, ChatNeedsLogin, Logins
<1>3. CASE PostSend
  <2> DEFINE packet == [id |-> id, n |-> Len(posted) + 1]
  <2>1. /\ UNCHANGED <<inbound, answered, is_logged_in_, written>>
        /\ main = "post_send" /\ main' = "getline"
        /\ posted' = Append(posted, packet)
    BY <1>3 DEF PostSend, server_vars
  <2>2. packet \in Packet /\ packet.id = id
    BY DEF TypeOK, Packet
  <2> HIDE DEF packet
  <2>3. /\ Len(posted') = Len(posted) + 1 /\ Len(posted) \in Nat
        /\ posted'[Len(posted) + 1] = packet
        /\ \A i \in 1 .. Len(posted) : posted'[i] = posted[i]
    BY <1>0, <2>1, <2>2
  <2>4. ASSUME NEW i \in 1 .. Len(posted'), posted'[i].id = "REQUEST_CHAT"
        PROVE  Logins(written) # {}
    <3>1. CASE i = Len(posted) + 1
      BY <2>1, <2>2, <2>3, <2>4, <3>1 DEF LoginInv
    <3>2. CASE i \in 1 .. Len(posted)
      BY <2>3, <2>4, <3>2 DEF LoginInv, ChatNeedsLogin
    <3> QED
      BY <2>3, <3>1, <3>2
  <2>5. Logins(written') = Logins(written)
    BY <2>1
  <2> QED
    BY <2>1, <2>4, <2>5 DEF LoginInv, ChatNeedsLogin
<1>4. ASSUME NEW n \in 1 .. MaxLines + MaxNotices, HandleReceive(n) PROVE LoginInv'
  <2>1. /\ UNCHANGED <<answered, posted, written, main, id>>
        /\ inbound' = SubSeq(inbound, n + 1, Len(inbound)) /\ n <= Len(inbound)
        /\ process_packet(Head(inbound)) \/ UNCHANGED is_logged_in_
    BY <1>4 DEF HandleReceive, main_vars, client_vars
  <2>2. n \in Nat \ {0} /\ Len(inbound) \in Nat /\ Head(inbound) = inbound[1]
    BY <1>0, <2>1, ClientAssumption
  <2>3. is_logged_in_' => seen
    <3>1. is_logged_in_' => (is_logged_in_ \/ inbound[1] = "REPLY_LOGIN")
      BY <2>1, <2>2 DEF process_packet
    <3>2. inbound[1] = "REPLY_LOGIN" => seen
      BY <2>1, <2>2 DEF LoginInv
    <3> QED
      BY <3>1, <3>2 DEF LoginInv
  <2>4. ASSUME NEW i \in 1 .. Len(inbound')
        PROVE  i + n \in 1 .. Len(inbound) /\ inbound'[i] = inbound[i + n]
    <3>1. Len(inbound') = Len(inbound) - n
      BY <1>0, <2>1, <2>2
    <3>2. i + n \in 1 .. Len(inbound)
      BY <2>1, <2>2, <3>1
    <3>3. inbound'[i] = inbound[n + 1 + i - 1]
      BY <1>0, <2>1, <2>2, <3>1
    <3>4. n + 1 + i - 1 = i + n
      BY <2>2, <3>1
    <3> QED
      BY <3>2, <3>3, <3>4
  <2>5. \A i \in 1 .. Len(inbound') : inbound'[i] = "REPLY_LOGIN" => seen
    BY <2>4 DEF LoginInv
  <2>6. Logins(written') = Logins(written)
    BY <2>1
  <2> QED
    BY <2>1, <2>3, <2>5, <2>6 DEF LoginInv, ChatNeedsLogin
<1>5. ASSUME NEW packet_id \in {"REPLY_LOGIN", "NOTICE_CHAT"},
             inbound' = Append(inbound, packet_id),
             packet_id = "REPLY_LOGIN" => seen,
             answered' \subseteq Logins(written),
             UNCHANGED <<is_logged_in_, posted, written, main, id>>
      PROVE  LoginInv'
  <2>1. /\ Len(inbound') = Len(inbound) + 1 /\ Len(inbound) \in Nat
        /\ inbound'[Len(inbound) + 1] = packet_id
        /\ \A i \in 1 .. Len(inbound) : inbound'[i] = inbound[i]
    BY <1>0, <1>5
  <2>2. ASSUME NEW i \in 1 .. Len(inbound'), inbound'[i] = "REPLY_LOGIN" PROVE seen
    <3>1. CASE i = Len(inbound) + 1
      BY <1>5, <2>1, <2>2, <3>1
    <3>2. CASE i \in 1 .. Len(inbound)
      BY <2>1, <2>2, <3>2 DEF LoginInv
    <3> QED
      BY <2>1, <3>1, <3>2
  <2>3. Logins(written') = Logins(written)
    BY <1>5
  <2> QED
    BY <1>5, <2>2, <2>3 DEF LoginInv, ChatNeedsLogin
<1>6. ASSUME NEW i \in 1 .. MaxLines, ServerReplies(i) PROVE LoginInv'
  <2>1. /\ i \in Logins(written)
        /\ inbound' = Append(inbound, "REPLY_LOGIN")
        /\ answered' = answered \cup {i}
        /\ UNCHANGED <<is_logged_in_, posted, written, main, id>>
    BY <1>6 DEF ServerReplies, main_vars, client_vars
  <2>2. seen /\ answered' \subseteq Logins(written)
    BY <2>1 DEF LoginInv
  <2> QED
    BY <1>5, <2>1, <2>2
<1>7. CASE ServerNotifies
  <2>1. /\ inbound' = Append(inbound, "NOTICE_CHAT")
        /\ UNCHANGED <<answered, is_logged_in_, posted, written, main, id>>
    BY <1>7 DEF ServerNotifies, main_vars, client_vars
  <2>2. answered' \subseteq Logins(written)
    BY <2>1 DEF LoginInv
  <2> QED
    BY <1>5, <2>1, <2>2
<1>8. CASE WriteCompletes
  <2>1. UNCHANGED <<inbound, answered, is_logged_in_, posted, main, id>>
    BY <1>8 DEF WriteCompletes, server_vars, main_vars, client_vars
  <2>2. /\ writes[1].packet \in Packet
        /\ written' = written \/ written' = Append(written, writes[1].packet)
    BY <1>8, CompletesKeeps DEF Write
  <2>3. Logins(written) \subseteq Logins(written')
    BY <1>0, <2>2, LoginsGrow
  <2> QED
    BY <2>1, <2>3 DEF LoginInv, ChatNeedsLogin
<1>9. CASE \/ GetLine \/ EndOfInput \/ is_connecting \/ StopService \/ CloseSocket \/ Join
           \/ HandleConnect \/ HandleWrite \/ HandleReceiveError \/ RunReturns
           \/ ConnectCompletes \/ ServerCloses \/ UNCHANGED vars
  BY <1>1, <1>9 DEF GetLine, EndOfInput, is_connecting, StopService, CloseSocket, Join,
     HandleConnect, HandleWrite, HandleReceiveError, RunReturns, ConnectCompletes,
     ServerCloses, vars, main_vars, client_vars, server_vars
<1> QED
  BY <1>2, <1>3, <1>4, <1>6, <1>7, <1>8, <1>9 DEF Next

\* io_service::run does not return under a connection: a read is under way on it.
LEMMA ServeStep == TypeOK /\ ServeInv /\ [Next]_vars => ServeInv'
<1> SUFFICES ASSUME TypeOK, ServeInv, [Next]_vars PROVE ServeInv'
  OBVIOUS
<1>1. CASE UNCHANGED <<socket, connect, reading, running>> /\ stopped' \in {stopped, TRUE}
  BY <1>1 DEF ServeInv
<1>2. CASE CloseSocket \/ HandleReceiveError
  <2>1. /\ close /\ UNCHANGED <<running, stopped>>
        /\ reading' \in {reading, FALSE}
    BY <1>2 DEF CloseSocket, HandleReceiveError, main_vars, client_vars
  <2> QED
    BY <2>1 DEF ServeInv, close
<1>3. CASE HandleConnect
  BY <1>3 DEF HandleConnect, ServeInv, main_vars, client_vars
<1>4. CASE RunReturns
  BY <1>4 DEF RunReturns, ServeInv, io_vars, main_vars
<1>5. CASE ConnectCompletes
  BY <1>5 DEF ConnectCompletes, ServeInv, main_vars, client_vars
<1>6. CASE \/ GetLine \/ EndOfInput \/ is_connecting \/ is_logged_in \/ PostSend
           \/ StopService \/ Join \/ HandleWrite
           \/ \E n \in 1 .. MaxLines + MaxNotices : HandleReceive(n)
           \/ WriteCompletes
           \/ \E i \in 1 .. MaxLines : ServerReplies(i)
           \/ ServerNotifies \/ ServerCloses \/ UNCHANGED vars
  BY <1>1, <1>6 DEF GetLine, EndOfInput, is_connecting, is_logged_in, PostSend, StopService,
     Join, HandleWrite, HandleReceive, WriteCompletes, ServerReplies, ServerNotifies,
     ServerCloses, vars, io_vars, main_vars, client_vars
<1> QED
  BY <1>2, <1>3, <1>4, <1>5, <1>6 DEF Next

\* A worker thread that has left io_service::run does not come back.
LEMMA RunEnds == [Next]_vars /\ ~running => ~running'
BY DEF Next, GetLine, EndOfInput, is_connecting, is_logged_in, PostSend, StopService,
   CloseSocket, Join, HandleConnect, HandleWrite, HandleReceive, HandleReceiveError,
   RunReturns, ConnectCompletes, WriteCompletes, ServerReplies, ServerNotifies,
   ServerCloses, vars, client_vars

\* The conjunction Inv is inductive.
LEMMA Invariance == Spec => []Inv
<1>1. Init => Inv
  <2> SUFFICES ASSUME Init PROVE Inv
    OBVIOUS
  <2>1. TypeOK
    <3>1. /\ << >> \in Seq([packet : Packet, state : {"started", "done", "failed"}])
          /\ << >> \in Seq({NULL}) /\ << >> \in Seq(Packet)
          /\ << >> \in Seq({"REPLY_LOGIN", "NOTICE_CHAT"})
      OBVIOUS
    <3>2. /\ writes = << >> /\ send_data_queue_ = << >> /\ inbound = << >>
          /\ posted = << >> /\ written = << >>
      BY DEF Init
    <3>3. /\ socket = "open" /\ connect = "pending" /\ main = "getline"
          /\ id \in Ids /\ lines \in 0 .. MaxLines /\ notices \in Nat
          /\ answered \subseteq Nat
      BY ClientAssumption DEF Init, Ids
    <3>4. /\ reading \in BOOLEAN /\ is_logged_in_ \in BOOLEAN /\ stopped \in BOOLEAN
          /\ torn \in BOOLEAN /\ running \in BOOLEAN /\ peer_closed \in BOOLEAN /\ overlapped \in BOOLEAN
      BY DEF Init
    <3> QED
      BY <3>1, <3>2, <3>3, <3>4 DEF TypeOK
  <2>2. QueueInv
    BY DEF Init, QueueInv, OneWrite
  <2>3. OrderInv
    BY DEF Init, OrderInv, last
  <2>4. LoginInv
    BY DEF Init, LoginInv, ChatNeedsLogin, Logins
  <2>5. ServeInv
    BY DEF Init, ServeInv
  <2> QED
    BY <2>1, <2>2, <2>3, <2>4, <2>5 DEF Inv
<1>2. Inv /\ [Next]_vars => Inv'
  BY TypeStep, QueueStep, OrderStep, LoginStep, ServeStep DEF Inv
<1> QED
  BY <1>1, <1>2, PTL DEF Spec

-------------------------------------------------------------------------------

\* The client's state keeps its type.
THEOREM TypeCorrect == Spec => []TypeOK
<1>1. Inv => TypeOK
  BY DEF Inv
<1> QED
  BY <1>1, Invariance, PTL

\* However the main and the worker thread interleave, one async_write is under
\* way at most, and handle_write never pops an empty queue.
THEOREM SingleWrite == Spec => []OneWrite
<1>1. Inv => OneWrite
  BY DEF Inv, QueueInv
<1> QED
  BY <1>1, Invariance, PTL

\* A client that is connected and not leaving gets stuck only by posting a line
\* before the handler of the write before it has run: its worker thread is still in
\* io_service::run, and the writes that failed before it was connected are popped.
THEOREM StuckNeedsOverlap == Spec => []StuckOnlyByOverlap
<1>1. Inv => StuckOnlyByOverlap
  <2> SUFFICES ASSUME Inv, Stuck, socket = "connected", ~stopped, ~overlapped PROVE FALSE
    BY DEF StuckOnlyByOverlap
  <2>0. running
    BY DEF Inv, ServeInv
  <2>1. send_data_queue_ \in Seq({NULL}) /\ send_data_queue_ # << >> /\ writes = << >>
    BY <2>0 DEF Stuck, Inv, TypeOK
  <2>2. Len(send_data_queue_) \in Nat \ {0} /\ Len(writes) = 0
    BY <2>1, EmptySeq, Zenon
  <2> QED
    BY <2>2 DEF Inv, QueueInv
<1> QED
  BY <1>1, Invariance, PTL

\* A chat is posted only after a login has reached the server.
THEOREM ChatAfterLogin == Spec => []ChatNeedsLogin
<1>1. Inv => ChatNeedsLogin
  BY DEF Inv, LoginInv
<1> QED
  BY <1>1, Invariance, PTL

\* Once stuck, the client never begins to send again.
THEOREM StuckStays == Spec => StuckForGood
<1> DEFINE NoneBegun == writes' # << >> =>
                           writes # << >> /\ Head(writes').packet = Head(writes).packet
<1>1. Inv /\ [Next]_vars => [Stuck => Stuck' /\ NoneBegun]_vars
  <2> SUFFICES ASSUME Inv, [Next]_vars, Stuck PROVE Stuck' /\ NoneBegun
    OBVIOUS
  <2>0. /\ TypeOK /\ QueueInv
        /\ writes = << >> \/ ~running
        /\ send_data_queue_ # << >>
        /\ send_data_queue_ \in Seq({NULL}) /\ writes \in Seq(Write)
    BY DEF Inv, Stuck, TypeOK, Write
  <2>5. ~running => ~running'
    BY RunEnds
  <2>1. CASE Elsewhere
    BY <2>0, <2>1, <2>5 DEF Elsewhere, Stuck
  <2>2. CASE PostSend
    <3> DEFINE packet == [id |-> id, n |-> Len(posted) + 1]
    <3>1. packet \in Packet
      BY <2>0 DEF TypeOK, Packet
    <3>2. post_send(packet)
      BY <2>2 DEF PostSend
    <3>3. /\ writes' = writes /\ send_data_queue_' \in Seq({NULL})
          /\ Len(send_data_queue_') = Len(send_data_queue_) + 1
      BY <2>0, <3>1, <3>2, PostSendKeeps
    <3>4. send_data_queue_' # << >>
      BY <2>0, <3>3
    <3> QED
      BY <2>0, <2>5, <3>3, <3>4 DEF Stuck
  <2>3. CASE CloseSocket \/ HandleReceiveError
    <3>1. close /\ UNCHANGED send_data_queue_
      BY <2>3 DEF CloseSocket, HandleReceiveError, client_vars
    <3>2. /\ writes' \in Seq(Write) /\ Len(writes') = Len(writes)
          /\ \A i \in 1 .. Len(writes) : writes'[i].packet = writes[i].packet
      BY <2>0, <3>1, CloseKeeps
    <3>3. writes = << >> => writes' = << >>
      BY <2>0, <3>2
    <3>4. NoneBegun
      <4>1. CASE writes = << >>
        BY <3>3, <4>1
      <4>2. CASE writes # << >>
        <5>1. /\ 1 \in 1 .. Len(writes) /\ Head(writes) = writes[1]
              /\ Head(writes') = writes'[1]
          BY <2>0, <3>2, <4>2
        <5> QED
          BY <3>2, <4>2, <5>1
      <4> QED
        BY <4>1, <4>2
    <3> QED
      BY <2>0, <2>5, <3>1, <3>3, <3>4 DEF Stuck
  <2>4. CASE WriteCompletes
    <3>1. /\ writes # << >> /\ UNCHANGED send_data_queue_
      BY <2>4 DEF WriteCompletes
    <3>2. /\ Len(writes) = 1 /\ writes' \in Seq(Write) /\ Len(writes') = 1
          /\ writes'[1].packet = writes[1].packet
      BY <2>0, <2>4, CompletesKeeps
    <3>3. Head(writes) = writes[1] /\ Head(writes') = writes'[1]
      BY <2>0, <3>2
    <3> QED
      BY <2>0, <2>5, <3>1, <3>2, <3>3 DEF Stuck
  <2>6. ~HandleWrite
    BY <2>0 DEF HandleWrite
  <2> QED
    BY <2>1, <2>2, <2>3, <2>4, <2>6, StepKinds
<1> QED
  BY <1>1, Invariance, PTL DEF Spec, StuckForGood

\* What reaches the server was posted, in that order, and nothing twice.
THEOREM ImplementsChannel == Spec => RefinesChannel
<1>1. Init => SendPath!ChannelInit
  BY DEF Init, SendPath!ChannelInit
<1>2. Inv /\ [Next]_vars => [SendPath!ChannelNext]_(SendPath!channel_vars)
  <2> SUFFICES ASSUME Inv, [Next]_vars
               PROVE  SendPath!ChannelNext \/ UNCHANGED <<posted, written, last>>
    BY DEF SendPath!channel_vars, last
  <2>0. TypeOK /\ QueueInv /\ OrderInv
    BY DEF Inv
  <2>1. CASE UNCHANGED <<posted, written>>
    BY <2>1 DEF last
  <2>2. CASE PostSend
    <3> DEFINE packet == [id |-> id, n |-> Len(posted) + 1]
    <3>1. /\ posted' = Append(posted, packet) /\ written' = written
          /\ main = "post_send"
      BY <2>2 DEF PostSend
    <3>2. packet \in [id : Ids, n : 1 .. MaxLines]
      <4>1. Len(posted) + 1 <= lines /\ lines <= MaxLines /\ Len(posted) \in Nat
        BY <2>0, <3>1, ClientAssumption DEF OrderInv, TypeOK
      <4> QED
        BY <2>0, <4>1, ClientAssumption DEF TypeOK
    <3> HIDE DEF packet
    <3> QED
      BY <3>1, <3>2 DEF SendPath!ChannelNext, SendPath!Transmit, last
  <2>3. CASE WriteCompletes
    <3>1. /\ Len(writes) = 1 /\ writes[1] \in Write /\ writes[1].state = "started"
          /\ written' = written \/ written' = Append(written, writes[1].packet)
      BY <2>0, <2>3, CompletesKeeps
    <3> DEFINE k == writes[1].packet.n
    <3>2. k \in 1 .. Len(posted) /\ posted[k] = writes[1].packet /\ last < k
      BY <2>0, <3>1 DEF OrderInv
    <3>3. posted' = posted
      BY <2>3 DEF WriteCompletes, main_vars, client_vars
    <3>4. CASE written' = Append(written, writes[1].packet)
      <4>1. writes[1].packet \in Packet /\ written \in Seq(Packet)
        BY <2>0, <3>1 DEF Write, TypeOK
      <4>2. written' # << >> /\ written'[Len(written')] = writes[1].packet
        BY <4>1, <3>4, AppendProperties
      <4>3. last' = k
        BY <4>2 DEF last
      <4>4. SendPath!Deliver(k)
        BY <3>2, <3>3, <3>4, <4>3 DEF SendPath!Deliver, last
      <4> QED
        BY <3>2, <4>4 DEF SendPath!ChannelNext
    <3> QED
      BY <2>1, <3>1, <3>3, <3>4
  <2>4. CASE Elsewhere \/ CloseSocket \/ HandleReceiveError \/ HandleWrite
    BY <2>1, <2>4 DEF Elsewhere, CloseSocket, HandleReceiveError, HandleWrite, main_vars, client_vars
  <2> QED
    BY <2>2, <2>3, <2>4, StepKinds
<1> QED
  BY <1>1, <1>2, Invariance, PTL DEF Spec, RefinesChannel, SendPath!ChannelSpec


-------------------------------------------------------------------------------
(* A user who waits for the reply.                                           *)

\* Where the main thread handles a line.
Line == {"is_connecting", "is_logged_in", "post_send"}

\* The server's packets come one at a time and whole; once a reply has been read
\* the flag is set.
AnswerInv ==
    /\ ~torn /\ Len(inbound) <= 1
    /\ (answered # {} /\ inbound # <<"REPLY_LOGIN">>) => is_logged_in_

\* A line is handled while nothing is under way, and a login is posted, and
\* written, only before any has reached the server.
LineInv ==
    /\ main \in Line => writes = << >> /\ send_data_queue_ = << >>
    /\ main \in {"is_connecting", "is_logged_in"} =>
          (Logins(written) # {} => is_logged_in_)
    /\ (main = "post_send" /\ id = "REQUEST_LOGIN") => Logins(written) = {}
    /\ \A i \in 1 .. Len(writes) :
          (writes[i].packet.id = "REQUEST_LOGIN" /\ writes[i].state = "started")
              => Logins(written) = {}

PacedInv == AnswerInv /\ LineInv /\ LoginOnce

\* The packets the server sends to a client that waits are read one by one.
LEMMA AnswerStep ==
    ASSUME Paced, TypeOK, TypeOK', AnswerInv, [Next]_vars
    PROVE  AnswerInv' /\ (is_logged_in_ => is_logged_in_')
<1>0. /\ inbound \in Seq({"REPLY_LOGIN", "NOTICE_CHAT"}) /\ Len(inbound) \in Nat
      /\ is_logged_in_ \in BOOLEAN
  BY DEF TypeOK
<1>1. ASSUME NEW n \in 1 .. MaxLines + MaxNotices, HandleReceive(n)
      PROVE  AnswerInv' /\ (is_logged_in_ => is_logged_in_')
  <2>1. /\ n \in Nat \ {0} /\ n <= Len(inbound)
        /\ inbound' = SubSeq(inbound, n + 1, Len(inbound))
        /\ torn' \in BOOLEAN /\ (torn' => n < Len(inbound))
        /\ process_packet(Head(inbound)) /\ answered' = answered
    BY <1>1, ClientAssumption DEF HandleReceive, AnswerInv
  <2>2. Len(inbound) <= 1 /\ ((answered # {} /\ inbound # <<"REPLY_LOGIN">>) => is_logged_in_)
    BY DEF AnswerInv
  <2>3. n = 1 /\ Len(inbound) = 1
    <3>1. n \in Nat \ {0} /\ n <= Len(inbound)
      BY <2>1
    <3>2. Len(inbound) <= 1 /\ Len(inbound) \in Nat
      BY <1>0, <2>2
    <3> DEFINE k == Len(inbound)
    <3>3. k \in Nat /\ k <= 1 /\ n \in Nat /\ n # 0 /\ n <= k
      BY <3>1, <3>2
    <3> HIDE DEF k
    <3>4. n = 1 /\ k = 1
      BY <3>3
    <3> QED
      BY <3>4 DEF k
  <2>4. ~torn'
    <3>1. n >= Len(inbound)
      BY <2>3
    <3>2. ~(n < Len(inbound))
      BY <2>3
    <3> QED
      BY <2>1, <3>2, Zenon
  <2>5. Len(inbound') <= 1
    <3>1. inbound' = SubSeq(inbound, 2, 1)
      BY <2>1, <2>3
    <3> QED
      BY <1>0, <3>1
  <2>6. is_logged_in_' = (is_logged_in_ \/ Head(inbound) = "REPLY_LOGIN")
    BY <2>1 DEF process_packet
  <2>7. inbound = <<"REPLY_LOGIN">> => Head(inbound) = "REPLY_LOGIN"
    OBVIOUS
  <2>8. is_logged_in_ => is_logged_in_'
    BY <2>6, Zenon
  <2>9. answered' # {} => is_logged_in_'
    BY <2>1, <2>2, <2>6, <2>7, Zenon
  <2> QED
    BY <2>4, <2>5, <2>8, <2>9, Zenon DEF AnswerInv
<1>2. ASSUME NEW i \in 1 .. MaxLines, ServerReplies(i)
      PROVE  AnswerInv' /\ (is_logged_in_ => is_logged_in_')
  <2>1. /\ inbound = << >> /\ inbound' = Append(inbound, "REPLY_LOGIN")
        /\ UNCHANGED <<torn, is_logged_in_>>
    BY <1>2 DEF ServerReplies, client_vars
  <2>2. inbound' = <<"REPLY_LOGIN">> /\ Len(inbound') = 1
    BY <2>1
  <2> QED
    BY <2>1, <2>2 DEF AnswerInv
<1>3. CASE ServerNotifies
  <2>1. /\ inbound = << >> /\ inbound' = Append(inbound, "NOTICE_CHAT")
        /\ UNCHANGED <<torn, is_logged_in_, answered>>
    BY <1>3 DEF ServerNotifies, client_vars
  <2>2. Len(inbound') = 1 /\ inbound # <<"REPLY_LOGIN">>
    BY <2>1
  <2> QED
    BY <2>1, <2>2 DEF AnswerInv
<1>4. CASE UNCHANGED <<inbound, answered, is_logged_in_, torn>>
  BY <1>4 DEF AnswerInv
<1> QED
  BY <1>1, <1>2, <1>3, <1>4
  DEF Next, GetLine, EndOfInput, is_connecting, is_logged_in, PostSend, StopService,
      CloseSocket, Join, HandleConnect, HandleWrite, HandleReceiveError, RunReturns,
      ConnectCompletes, WriteCompletes, ServerCloses, vars, main_vars, client_vars,
      server_vars

\* The steps that do not touch what is under way keep the state of the line.
LEMMA LineElsewhere ==
    ASSUME Paced, Inv, PacedInv, Elsewhere, is_logged_in_ => is_logged_in_'
    PROVE  LineInv'
<1>1. /\ UNCHANGED <<writes, send_data_queue_, written>>
      /\ Logins(written') = Logins(written)
  BY DEF Elsewhere
<1>2. CASE UNCHANGED <<main, id>>
  BY <1>1, <1>2 DEF PacedInv, LineInv
<1>3. CASE GetLine
  <2>1. /\ Settled /\ main' = "is_connecting"
    BY <1>3 DEF GetLine
  <2>2. writes = << >> /\ send_data_queue_ = << >>
    BY <2>1 DEF Settled, Inv, QueueInv, OneWrite
  <2>3. Logins(written) # {} => is_logged_in_
    BY <2>1 DEF Settled, PacedInv, AnswerInv
  <2> QED
    BY <1>1, <2>1, <2>2, <2>3 DEF LineInv
<1>4. CASE is_connecting
  <2>1. main = "is_connecting" /\ main' \in {"is_logged_in", "getline"}
    BY <1>4 DEF is_connecting
  <2> QED
    BY <1>1, <2>1 DEF PacedInv, LineInv, Line
<1>5. CASE is_logged_in
  <2>1. /\ main = "is_logged_in" /\ main' = "post_send"
        /\ id' = IF is_logged_in_ THEN "REQUEST_CHAT" ELSE "REQUEST_LOGIN"
    BY <1>5 DEF is_logged_in
  <2> QED
    BY <1>1, <2>1 DEF PacedInv, LineInv, Line
<1>6. CASE main' \notin Loop \ {"getline"}
  <2>1. main' \notin Line
    BY <1>6 DEF Loop, Line
  <2> QED
    BY <1>1, <2>1 DEF PacedInv, LineInv, Line
<1> QED
  BY <1>2, <1>3, <1>4, <1>5, <1>6 DEF Elsewhere

\* A login is the only one: posted when none has reached the server, and alone
\* under way.
LEMMA LineStep ==
    ASSUME Paced, Inv, PacedInv, [Next]_vars, is_logged_in_ => is_logged_in_'
    PROVE  LineInv' /\ LoginOnce'
<1>0. TypeOK /\ QueueInv /\ LineInv /\ LoginOnce
  BY DEF Inv, PacedInv
<1>1. CASE Elsewhere
  <2>1. LoginOnce'
    BY <1>0, <1>1 DEF Elsewhere, LoginOnce, Logins
  <2> QED
    BY <1>1, <2>1, LineElsewhere
<1>2. CASE PostSend
  <2> DEFINE packet == [id |-> id, n |-> Len(posted) + 1]
  <2>1. /\ main = "post_send" /\ main' = "getline" /\ written' = written
        /\ post_send(packet) /\ Logins(written') = Logins(written)
    BY <1>2 DEF PostSend
  <2>2. packet \in Packet /\ packet.id = id
    BY <1>0 DEF TypeOK, Packet
  <2> HIDE DEF packet
  <2>3. writes = << >> /\ send_data_queue_ = << >>
    BY <1>0, <2>1 DEF LineInv, Line
  <2>4. /\ writes' \in Seq(Write) /\ Len(writes') = 1
        /\ writes'[1].packet = packet
    <3>1. /\ writes' \in Seq(Write) /\ Len(writes') = Len(writes) + 1
          /\ writes'[Len(writes')].packet = packet
      BY <1>0, <2>1, <2>2, <2>3, PostSendKeeps
    <3>2. Len(writes) = 0
      BY <2>3
    <3>3. Len(writes') = 1
      BY <3>1, <3>2
    <3> QED
      BY <3>1, <3>3
  <2>5. \A i \in 1 .. Len(writes') : i = 1
    BY <2>4
  <2>6. writes'[1].packet.id = "REQUEST_LOGIN" => Logins(written) = {}
    BY <1>0, <2>1, <2>2, <2>4 DEF LineInv
  <2> QED
    BY <1>0, <2>1, <2>5, <2>6 DEF LineInv, LoginOnce, Line
<1>3. CASE CloseSocket \/ HandleReceiveError
  <2>1. /\ close /\ UNCHANGED <<send_data_queue_, written, id>>
        /\ main' = main \/ main' = "join"
        /\ Logins(written') = Logins(written)
    BY <1>3 DEF CloseSocket, HandleReceiveError, main_vars, client_vars
  <2>2. /\ Len(writes') = Len(writes) /\ writes \in Seq(Write) /\ writes' \in Seq(Write)
        /\ \A i \in 1 .. Len(writes) :
              /\ writes'[i].packet = writes[i].packet
              /\ writes'[i].state # "started"
    <3>1. \A i \in 1 .. Len(writes) : writes'[i].state # "started"
      BY <1>0, <2>1, CloseKeeps
    <3> QED
      BY <1>0, <2>1, <3>1, CloseKeeps DEF TypeOK, Write
  <2>3. writes = << >> => writes' = << >>
    BY <2>2
  <2> QED
    BY <1>0, <2>1, <2>2, <2>3 DEF LineInv, LoginOnce, Line
<1>4. CASE HandleWrite
  <2>1. /\ writes' = << >> /\ writes # << >> /\ UNCHANGED <<written, main, id>>
        /\ Logins(written') = Logins(written)
    BY <1>0, <1>4, HandleWriteKeeps DEF HandleWrite, main_vars
  <2> QED
    BY <1>0, <2>1 DEF LineInv, LoginOnce
<1>5. CASE WriteCompletes
  <2>1. /\ Len(writes) = 1 /\ writes[1] \in Write /\ writes[1].state = "started"
        /\ Len(writes') = 1 /\ writes'[1].state # "started"
        /\ \/ written' = written
           \/ written' = Append(written, writes[1].packet)
        /\ writes # << >> /\ main' = main
    BY <1>0, <1>5, CompletesKeeps DEF WriteCompletes, main_vars
  <2>2. main' \notin Line
    BY <1>0, <2>1 DEF LineInv
  <2>3. LineInv'
    BY <2>1, <2>2 DEF LineInv, Line
  <2>4. ASSUME written' = Append(written, writes[1].packet)
        PROVE  LoginOnce'
    <3> DEFINE packet == writes[1].packet
    <3>1. packet \in Packet /\ written \in Seq(Packet)
      BY <1>0, <2>1 DEF TypeOK, Write
    <3>2. packet.id = "REQUEST_LOGIN" => Logins(written) = {}
      BY <1>0, <2>1 DEF LineInv
    <3> HIDE DEF packet
    <3>3. /\ Len(written') = Len(written) + 1 /\ Len(written) \in Nat
          /\ written'[Len(written) + 1] = packet
          /\ \A i \in 1 .. Len(written) : written'[i] = written[i]
      BY <2>4, <3>1 DEF packet
    <3>4. ASSUME NEW i \in Logins(written')
          PROVE  i \in Logins(written) \/ (i = Len(written) + 1 /\ packet.id = "REQUEST_LOGIN")
      BY <3>3 DEF Logins
    <3> QED
      BY <1>0, <3>2, <3>4 DEF LoginOnce
  <2> QED
    BY <1>0, <2>1, <2>3, <2>4 DEF LoginOnce
<1> QED
  BY <1>1, <1>2, <1>3, <1>4, <1>5, StepKinds

\* From a user who waits for the reply one login reaches the server, although
\* the worker thread sets the flag that the main thread reads.
THEOREM WaitingUserLogsInOnce ==
    ASSUME Paced
    PROVE  Spec => []LoginOnce
<1>1. Init => PacedInv
  BY DEF Init, PacedInv, AnswerInv, LineInv, Line, LoginOnce, Logins
<1>2. Inv /\ Inv' /\ PacedInv /\ [Next]_vars => PacedInv'
  <2> SUFFICES ASSUME Inv, Inv', PacedInv, [Next]_vars PROVE PacedInv'
    OBVIOUS
  <2>1. AnswerInv' /\ (is_logged_in_ => is_logged_in_')
    BY AnswerStep DEF Inv, PacedInv
  <2> QED
    BY <2>1, LineStep DEF PacedInv
<1>3. PacedInv => LoginOnce
  BY DEF PacedInv
<1> QED
  BY <1>1, <1>2, <1>3, Invariance, PTL DEF Spec

===============================================================================
