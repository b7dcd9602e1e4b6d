------------------------------ MODULE ChatClient ------------------------------
(***************************************************************************)
(* The chat client: the main thread, which reads lines and posts packets,  *)
(* and the worker thread, which runs the io_service.  They share ChatClient*)
(* and its socket; lock_ makes each access to send_data_queue_ one step,   *)
(* and everything else may interleave between any two steps of the loop in *)
(* main.  The server is the environment: it takes what is written, answers *)
(* logins, passes on the chats of others, and may be gone at any time.     *)
(***************************************************************************)
EXTENDS Naturals, Sequences

CONSTANTS
    NULL,          \* the null shared_byte
    MaxLines,      \* bound on the lines typed
    MaxNotices,    \* bound on the chats of others that arrive
    Paced          \* the user types a line, and the server sends a packet, only
                   \* when nothing sent before is under way

ASSUME ClientAssumption ==
    /\ MaxLines \in Nat
    /\ MaxNotices \in Nat
    /\ Paced \in BOOLEAN

VARIABLES
    socket,            \* "closed"; "open": is_open(), not connected; "connected"
    connect,           \* the async_connect: "pending"; "accepted" or "refused",
                       \* its handler not having run; "done"
    reading,           \* an async_read_some is under way
    writes,            \* the async_writes under way: [packet, state]
    send_data_queue_,
    is_logged_in_,
    torn,              \* packet_buffer_ begins inside a packet
    main,              \* where the main thread is
    id,                \* the id of the packet it has built
    stopped,           \* io_service::stop has been called
    running,           \* the worker thread is in io_service::run
    lines,             \* number of lines typed
    inbound,           \* ids of the packets on their way from the server
    notices,           \* number of notices among those ever sent
    answered,          \* the logins, by position in written, that were replied to
    peer_closed,       \* the server has closed the connection, or it broke
    posted,            \* history: the packets post_send was called with
    written,           \* history: those of them that reached the server
    overlapped         \* history: one was posted while another was queued

io_vars == <<socket, connect, reading, writes>>
main_vars == <<main, id, stopped, lines, posted, overlapped>>
server_vars == <<inbound, notices, answered, peer_closed>>
client_vars == <<send_data_queue_, is_logged_in_, torn, running, written>>
vars == <<io_vars, main_vars, server_vars, client_vars>>

Ids == {"REQUEST_LOGIN", "REQUEST_CHAT"}

\* After the constructor, connect() and the start of the worker thread;
\* async_connect has opened the socket.
Init ==
    /\ socket = "open"
    /\ connect = "pending"
    /\ reading = FALSE
    /\ writes = << >>
    /\ send_data_queue_ = << >>
    /\ is_logged_in_ = FALSE
    /\ torn = FALSE
    /\ main = "getline"
    /\ id = "REQUEST_LOGIN"
    /\ stopped = FALSE
    /\ running = TRUE
    /\ lines = 0
    /\ inbound = << >>
    /\ notices = 0
    /\ answered = {}
    /\ peer_closed = FALSE
    /\ posted = << >>
    /\ written = << >>
    /\ overlapped = FALSE

\* What closing the socket does to the operations under way on it: they end,
\* those that have not completed with an error.
close ==
    /\ socket' = "closed"
    /\ connect' = IF connect = "pending" THEN "refused" ELSE connect
    /\ writes' = [i \in 1 .. Len(writes) |->
                    IF writes[i].state = "started"
                    THEN [writes[i] EXCEPT !.state = "failed"]
                    ELSE writes[i]]

-------------------------------------------------------------------------------
(* The main thread.                                                          *)

\* The positions of the login requests in a sequence of packets.
Logins(packets) == {i \in 1 .. Len(packets) : packets[i].id = "REQUEST_LOGIN"}

\* "Server Connected" was shown, nothing is queued, and the answer to a login, if
\* one was sent, has been read.
Settled ==
    /\ connect = "done" /\ socket = "connected"
    /\ send_data_queue_ = << >>
    /\ answered = Logins(written) /\ inbound = << >>

GetLine ==
    /\ main = "getline"
    /\ lines < MaxLines
    /\ Paced => Settled
    /\ lines' = lines + 1
    /\ main' = "is_connecting"
    /\ UNCHANGED <<io_vars, server_vars, id, stopped, posted, overlapped, client_vars>>

\* An empty line, or the end of the input.
EndOfInput ==
    /\ main = "getline"
    /\ main' = "stop"
    /\ UNCHANGED <<io_vars, server_vars, id, stopped, lines, posted, overlapped,
                   client_vars>>

is_connecting ==
    /\ main = "is_connecting"
    /\ main' = IF socket # "closed" THEN "is_logged_in" ELSE "getline"
    /\ UNCHANGED <<io_vars, server_vars, id, stopped, lines, posted, overlapped,
                   client_vars>>

is_logged_in ==
    /\ main = "is_logged_in"
    /\ id' = IF is_logged_in_ THEN "REQUEST_CHAT" ELSE "REQUEST_LOGIN"
    /\ main' = "post_send"
    /\ UNCHANGED <<io_vars, server_vars, stopped, lines, posted, overlapped,
                   client_vars>>

\* An async_write of packet: on a socket that is not connected it fails at once.
begun(packet) ==
    [packet |-> packet, state |-> IF socket = "connected" THEN "started" ELSE "failed"]

\* Faulty variants of post_send: two packets may be under way, or a packet is
\* written twice.
post_send_TwoWrites(packet) ==
    /\ send_data_queue_' = Append(send_data_queue_, NULL)
    /\ writes' = IF Len(send_data_queue_') < 3 THEN Append(writes, begun(packet)) ELSE writes
post_send_Repeats(packet) ==
    /\ send_data_queue_' = send_data_queue_ \o <<NULL, NULL>>
    /\ writes' = IF send_data_queue_ = << >> THEN writes \o <<begun(packet), begun(packet)>>
                                            ELSE writes

\* post_send(false, ...), under lock_.  What is pushed is send_data before data
\* is assigned to it, a null pointer.
post_send(packet) ==
    /\ send_data_queue_' = Append(send_data_queue_, NULL)
    /\ writes' = IF Len(send_data_queue_') < 2 THEN Append(writes, begun(packet)) ELSE writes

PostSend ==
    /\ main = "post_send"
    /\ LET packet == [id |-> id, n |-> Len(posted) + 1]
       IN  /\ post_send(packet)
           /\ posted' = Append(posted, packet)
    /\ overlapped' = (overlapped \/ send_data_queue_ # << >>)
    /\ main' = "getline"
    /\ UNCHANGED <<server_vars, socket, connect, reading, id, stopped, lines,
                   is_logged_in_, torn, running, written>>

StopService ==
    /\ main = "stop"
    /\ stopped' = TRUE
    /\ main' = "close"
    /\ UNCHANGED <<io_vars, server_vars, id, lines, posted, overlapped, client_vars>>

\* client.close(), which does nothing to a socket that is closed.
CloseSocket ==
    /\ main = "close"
    /\ close
    /\ main' = "join"
    /\ UNCHANGED <<server_vars, reading, id, stopped, lines, posted, overlapped,
                   client_vars>>

Join ==
    /\ main = "join"
    /\ ~running
    /\ main' = "ended"
    /\ UNCHANGED <<io_vars, server_vars, id, stopped, lines, posted, overlapped,
                   client_vars>>

-------------------------------------------------------------------------------
(* The worker thread.  Handlers that were queued before stop may still run   *)
(* after it.                                                                 *)

\* handle_connect: without an error the first read is posted; with one it is
\* only shown, and the socket stays open.
HandleConnect ==
    /\ running
    /\ connect \in {"accepted", "refused"}
    /\ connect' = "done"
    /\ reading' = (connect = "accepted")
    /\ UNCHANGED <<main_vars, server_vars, socket, writes, client_vars>>

\* Faulty variants of HandleWrite: the front is not popped, or not after an error.
HandleWrite_ErrorReturns ==
    /\ running
    /\ writes # << >>
    /\ Head(writes).state # "started"
    /\ writes' = Tail(writes)
    /\ send_data_queue_' = IF Head(writes).state = "failed" THEN send_data_queue_
                                                           ELSE Tail(send_data_queue_)
    /\ UNCHANGED <<main_vars, server_vars, socket, connect, reading,
                   is_logged_in_, torn, running, written>>
HandleWrite_NoPop ==
    /\ running
    /\ writes # << >>
    /\ Head(writes).state # "started"
    /\ writes' = Tail(writes)
    /\ UNCHANGED <<main_vars, server_vars, socket, connect, reading, client_vars>>

\* handle_write, whether the write succeeded or not: the front is popped, and
\* the next one sent unless it is null.
HandleWrite ==
    LET queue == Tail(send_data_queue_)
        resend == queue # << >> /\ Head(queue) # NULL
    IN
    /\ running
    /\ writes # << >>
    /\ Head(writes).state # "started"
    /\ send_data_queue_' = queue
    /\ writes' = IF resend
                 THEN Append(Tail(writes), [packet |-> Head(queue), state |-> "started"])
                 ELSE Tail(writes)
    /\ UNCHANGED <<main_vars, server_vars, socket, connect, reading,
                   is_logged_in_, torn, running, written>>

\* Faulty variants of process_packet: any packet logs in, or none does.
process_packet_Any(packet_id) == is_logged_in_' = TRUE
process_packet_None(packet_id) == UNCHANGED is_logged_in_

\* A reply logs in whatever success it carries; a notice is only shown.
process_packet(packet_id) ==
    is_logged_in_' = (is_logged_in_ \/ packet_id = "REPLY_LOGIN")

\* Faulty variant of HandleReceive: the packet stays in the buffer.
HandleReceive_Keeps(n) ==
    /\ running
    /\ reading
    /\ socket = "connected"
    /\ n = 1 /\ inbound # << >>
    /\ process_packet(Head(inbound))
    /\ UNCHANGED <<io_vars, main_vars, server_vars, send_data_queue_, torn, running, written>>

\* handle_receive without an error, for the reads of one packet: it is processed,
\* and the start of the next, read with its end, may be lost.  What is left of
\* that one fails the crc and takes n - 1 whole packets with it.
HandleReceive(n) ==
    /\ running
    /\ reading
    /\ socket = "connected"
    /\ n <= Len(inbound)
    /\ \/ ~torn /\ n = 1 /\ process_packet(Head(inbound))
       \/ torn /\ UNCHANGED is_logged_in_
    /\ inbound' = SubSeq(inbound, n + 1, Len(inbound))
    /\ torn' \in BOOLEAN
    /\ torn' => n < Len(inbound)
    /\ UNCHANGED <<io_vars, main_vars, notices, answered, peer_closed,
                   send_data_queue_, running, written>>

\* handle_receive with an error: close().
HandleReceiveError ==
    /\ running
    /\ reading
    /\ socket = "closed" \/ peer_closed
    /\ reading' = FALSE
    /\ close
    /\ UNCHANGED <<main_vars, server_vars, client_vars>>

\* io_service::run returns after stop, or when no operation is under way.
RunReturns ==
    /\ running
    /\ stopped \/ (connect = "done" /\ ~reading /\ writes = << >>)
    /\ running' = FALSE
    /\ UNCHANGED <<io_vars, main_vars, server_vars, send_data_queue_,
                   is_logged_in_, torn, written>>

-------------------------------------------------------------------------------
(* The server and the connection.                                            *)

\* The connect completes, one way or the other; its handler runs later.
ConnectCompletes ==
    /\ connect = "pending"
    /\ \/ connect' = "accepted" /\ socket' = "connected"
       \/ connect' = "refused" /\ UNCHANGED socket
    /\ UNCHANGED <<main_vars, server_vars, reading, writes, client_vars>>

\* A write completes; its handler runs later, and the server may answer first.
WriteCompletes ==
    /\ writes # << >>
    /\ Head(writes).state = "started"
    /\ \/ /\ written' = Append(written, Head(writes).packet)
          /\ writes' = [writes EXCEPT ![1].state = "done"]
       \/ /\ peer_closed
          /\ writes' = [writes EXCEPT ![1].state = "failed"]
          /\ UNCHANGED written
    /\ UNCHANGED <<main_vars, server_vars, socket, connect, reading,
                   send_data_queue_, is_logged_in_, torn, running>>

ServerReplies(i) ==
    /\ socket = "connected" /\ ~peer_closed
    /\ Paced => inbound = << >>
    /\ i \in Logins(written) \ answered
    /\ inbound' = Append(inbound, "REPLY_LOGIN")
    /\ answered' = answered \cup {i}
    /\ UNCHANGED <<io_vars, main_vars, notices, peer_closed, client_vars>>

\* The server sends every chat to every open connection, logged in or not.
ServerNotifies ==
    /\ socket = "connected" /\ ~peer_closed
    /\ notices < MaxNotices
    /\ Paced => inbound = << >>
    /\ inbound' = Append(inbound, "NOTICE_CHAT")
    /\ notices' = notices + 1
    /\ UNCHANGED <<io_vars, main_vars, answered, peer_closed, client_vars>>

ServerCloses ==
    /\ socket = "connected" /\ ~peer_closed
    /\ peer_closed' = TRUE
    /\ UNCHANGED <<io_vars, main_vars, inbound, notices, answered, client_vars>>

-------------------------------------------------------------------------------

Next ==
    \/ GetLine \/ EndOfInput \/ is_connecting \/ is_logged_in \/ PostSend
    \/ StopService \/ CloseSocket \/ Join
    \/ HandleConnect \/ HandleWrite
    \/ \E n \in 1 .. MaxLines + MaxNotices : HandleReceive(n)
    \/ HandleReceiveError \/ RunReturns
    \/ ConnectCompletes \/ WriteCompletes
    \/ \E i \in 1 .. MaxLines : ServerReplies(i)
    \/ ServerNotifies \/ ServerCloses

Spec == Init /\ [][Next]_vars

\* Both threads run on, an operation completes in the end, a login is answered.
\* Nobody has to type.
Fairness ==
    /\ WF_vars(is_connecting \/ is_logged_in \/ PostSend)
    /\ WF_vars(StopService \/ CloseSocket \/ Join)
    /\ WF_vars(HandleConnect)
    /\ WF_vars(HandleWrite)
    /\ WF_vars(\E n \in 1 .. MaxLines + MaxNotices : HandleReceive(n))
    /\ WF_vars(HandleReceiveError)
    /\ WF_vars(RunReturns)
    /\ WF_vars(ConnectCompletes)
    /\ WF_vars(WriteCompletes)
    /\ WF_vars(\E i \in 1 .. MaxLines : ServerReplies(i))

FairSpec == Spec /\ Fairness

-------------------------------------------------------------------------------
(* Properties.                                                               *)

Packet == [id : Ids, n : Nat]

TypeOK ==
    /\ socket \in {"closed", "open", "connected"}
    /\ connect \in {"pending", "accepted", "refused", "done"}
    /\ reading \in BOOLEAN
    /\ writes \in Seq([packet : Packet, state : {"started", "done", "failed"}])
    /\ send_data_queue_ \in Seq({NULL})
    /\ is_logged_in_ \in BOOLEAN /\ torn \in BOOLEAN
    /\ main \in {"getline", "is_connecting", "is_logged_in", "post_send", "stop",
                 "close", "join", "ended"}
    /\ id \in Ids
    /\ stopped \in BOOLEAN /\ running \in BOOLEAN
    /\ lines \in 0 .. MaxLines /\ notices \in Nat /\ answered \subseteq Nat
    /\ inbound \in Seq({"REPLY_LOGIN", "NOTICE_CHAT"})
    /\ peer_closed \in BOOLEAN
    /\ posted \in Seq(Packet)
    /\ written \in Seq(Packet)
    /\ overlapped \in BOOLEAN

\* However the threads interleave, one async_write is under way at most, and
\* handle_write never pops an empty queue.
OneWrite ==
    Len(writes) <= 1 /\ (writes # << >> => send_data_queue_ # << >>)

\* Packets are queued and no handler will take the next one: no write is under way,
\* or the worker thread has left io_service::run and the handler never runs.
Stuck == send_data_queue_ # << >> /\ (writes = << >> \/ ~running)

\* A client that is connected and not leaving gets stuck only by a line posted before
\* the handler of the write before it had run.  Writes that failed because a line was
\* typed before the connection was there leave nothing in its queue, and the worker
\* thread does not leave run under it.  After a failed connect, or the end of the
\* connection, it does leave, and the next line stays queued (client_main.cpp:34).
StuckOnlyByOverlap == Stuck /\ socket = "connected" /\ ~stopped => overlapped

\* Once stuck, no later line is ever sent: the null pointer handle_write skips
\* stays at the front, or what is there was given to a write that nobody handles
\* (chatting_client.cpp:68, :70 and :118).
StuckForGood ==
    [][Stuck => /\ Stuck'
                /\ writes' # << >> =>
                      writes # << >> /\ Head(writes').packet = Head(writes).packet]_vars

\* What reaches the server was posted, in that order, nothing twice.
SendPath == INSTANCE LossyChannel WITH
    Message <- [id : Ids, n : 1 .. MaxLines],
    sent <- posted,
    delivered <- written,
    last <- IF written = << >> THEN 0 ELSE written[Len(written)].n

RefinesChannel == SendPath!ChannelSpec

\* A chat is posted only after a login has reached the server, whatever notices
\* arrive before the reply.
ChatNeedsLogin ==
    \A i \in 1 .. Len(posted) :
        posted[i].id = "REQUEST_CHAT" => Logins(written) # {}

\* From a user who waits for the reply one login reaches the server, although the
\* threads do not agree on when the flag is set.
LoginOnce == \A i, j \in Logins(written) : i = j

\* A user who waits loses no line, and the client is in the end ready for the
\* next one, its answer read and its queue empty, unless the connection ends.
EveryLineWritten ==
    \A n \in 1 .. MaxLines :
        (Len(posted) >= n) ~>
            \/ Settled /\ \E i \in 1 .. Len(written) : written[i].n = n
            \/ peer_closed
            \/ main \notin {"getline", "is_connecting", "is_logged_in", "post_send"}

===============================================================================
