------------------------------ MODULE ChatServer ------------------------------
(***************************************************************************)
(* The chat server: chat_server and its sessions on one io_service, whose  *)
(* single thread runs one completion handler at a time.  Each handler is   *)
(* one action; an asynchronous operation that has been started and whose   *)
(* handler has not run yet is recorded in accepts, reads or writes.        *)
(*                                                                         *)
(* Connections are numbered in the order they arrive and are accepted in   *)
(* that order.  A peer may write and close before it is accepted.          *)
(***************************************************************************)
EXTENDS Reassembly, FiniteSets

CONSTANTS
    MAX_SESSION_COUNT,
    NULL,              \* the null shared_byte
    Kinds,             \* the headers [id, content_size] a peer sends
    MaxConnections,    \* bound on the connections that arrive
    MaxSends,          \* bound on the packets all peers send
    AcceptMayFail,     \* async_accept may complete with an error
    Quiet              \* a peer writes only when nothing is under way

ASSUME ServerAssumption ==
    /\ MAX_SESSION_COUNT \in Nat \ {0}
    /\ Sessions = 0 .. MAX_SESSION_COUNT - 1
    /\ Kinds \subseteq [id : {"REQUEST_LOGIN", "REQUEST_CHAT"}, content_size : Nat]
    /\ MaxConnections \in Nat
    /\ MaxSends \in Nat
    /\ AcceptMayFail \in BOOLEAN
    /\ Quiet \in BOOLEAN

VARIABLES
    is_accepting_,
    session_queue_,    \* ids of the sessions waiting to be used
    accepts,           \* sessions given to an async_accept under way
    is_open,           \* Socket().is_open() of each session
    reads,             \* number of async_read_some under way on each session
    writes,            \* the packets of the async_writes under way on each
    send_data_queue_,
    name_,             \* the text of a login, told by its packet's number; 0: none
    server,            \* "running", "crashed", or "ended": run() has returned
    arrived,           \* number of connections that have arrived so far
    accepted,          \* number of those that have been accepted
    inbound,           \* bytes each connection carries and that are not read
    closed,            \* connections closed or broken at the peer's end
    conn,              \* the connection each session serves or served last
    sends,             \* number of packets the peers have sent
    failed,            \* history: an accept has failed
    last_login,        \* history: the last login of each connection that was
                       \* processed, by its packet's number; 0: none
    owed,              \* history: <<c, n>>: connection c is to be sent what
                       \* packet n made the server say
    delivered          \* history: <<c, n>>: the write of it to c completed

pool_vars == <<is_accepting_, session_queue_, accepts, failed>>
socket_vars == <<is_open, reads, conn, accepted>>
send_vars == <<writes, send_data_queue_, name_>>
history_vars == <<last_login, owed, delivered>>
peer_vars == <<arrived, inbound, closed, sends>>
vars == <<rx_vars, pool_vars, socket_vars, send_vars, history_vars, peer_vars,
          server>>

Connections == 1 .. MaxConnections

-------------------------------------------------------------------------------

\* Faulty variant of post_accept: the id is not popped from the queue.
post_accept_NoPop(queue, pending) ==
    IF queue = << >>
    THEN is_accepting_' = FALSE /\ session_queue_' = queue /\ accepts' = pending
    ELSE /\ is_accepting_' = TRUE
         /\ session_queue_' = queue
         /\ accepts' = pending \cup {Head(queue)}

\* post_accept, where queue is session_queue_ and pending are the accepts under
\* way as its caller leaves them.
post_accept(queue, pending) ==
    IF queue = << >>
    THEN /\ is_accepting_' = FALSE
         /\ session_queue_' = queue
         /\ accepts' = pending
    ELSE /\ is_accepting_' = TRUE
         /\ session_queue_' = Tail(queue)
         /\ accepts' = pending \cup {Head(queue)}

\* After the constructor, init and start: every id was queued in order and the
\* first one is being accepted.
Init ==
    /\ RxInit
    /\ is_accepting_ = TRUE
    /\ session_queue_ = [i \in 1 .. MAX_SESSION_COUNT - 1 |-> i]
    /\ accepts = {0}
    /\ is_open = [s \in Sessions |-> FALSE]
    /\ reads = [s \in Sessions |-> 0]
    /\ writes = [s \in Sessions |-> << >>]
    /\ send_data_queue_ = [s \in Sessions |-> << >>]
    /\ name_ = [s \in Sessions |-> 0]
    /\ server = "running"
    /\ arrived = 0
    /\ accepted = 0
    /\ inbound = [c \in Connections |-> << >>]
    /\ closed = {}
    /\ conn = [s \in Sessions |-> 0]
    /\ sends = 0
    /\ failed = FALSE
    /\ last_login = [c \in Connections |-> 0]
    /\ owed = {}
    /\ delivered = {}

-------------------------------------------------------------------------------
(* The peers.                                                                *)

Connect ==
    /\ server = "running"
    /\ arrived < MaxConnections
    /\ arrived' = arrived + 1
    /\ UNCHANGED <<rx_vars, pool_vars, socket_vars, send_vars, history_vars,
                   inbound, closed, sends, server>>

\* Nothing is left to read and every write has completed.
Idle ==
    /\ \A c \in Connections : inbound[c] = << >>
    /\ \A s \in Sessions : writes[s] = << >>

PeerSend(c, kind) ==
    /\ server = "running"
    /\ c <= arrived
    /\ c \notin closed
    /\ sends < MaxSends
    /\ Quiet => Idle
    /\ LET p == [id |-> kind.id, content_size |-> kind.content_size,
                 from |-> c, n |-> sends + 1]
       IN  inbound' = [inbound EXCEPT ![c] = @ \o build_packet(p)]
    /\ sends' = sends + 1
    /\ UNCHANGED <<rx_vars, pool_vars, socket_vars, send_vars, history_vars,
                   arrived, closed, server>>

\* The peer closes its end, or the connection breaks.
PeerClose(c) ==
    /\ server = "running"
    /\ c <= arrived
    /\ c \notin closed
    /\ closed' = closed \cup {c}
    /\ UNCHANGED <<rx_vars, pool_vars, socket_vars, send_vars, history_vars,
                   arrived, inbound, sends, server>>

-------------------------------------------------------------------------------
(* Sending.                                                                  *)

\* Faulty variants of post_send: every packet is written at once, or a packet
\* written at once is queued twice.
post_send_AtOnce(targets, data) ==
    /\ send_data_queue_' =
         [s \in Sessions |-> IF s \in targets THEN Append(send_data_queue_[s], NULL)
                                              ELSE send_data_queue_[s]]
    /\ writes' = [s \in Sessions |-> IF s \in targets THEN Append(writes[s], data)
                                                      ELSE writes[s]]
post_send_Twice(targets, data) ==
    /\ send_data_queue_' =
         [s \in Sessions |-> IF s \in targets THEN send_data_queue_[s] \o <<NULL, NULL>>
                                              ELSE send_data_queue_[s]]
    /\ writes' =
         [s \in Sessions |-> IF s \in targets /\ send_data_queue_[s] = << >>
                             THEN Append(writes[s], data)
                             ELSE writes[s]]

\* post_send(false, ...) of data on each session of targets.  What is pushed is
\* send_data before data is assigned to it, a null pointer; data itself is only
\* passed to async_write, and only when the queue was empty.
post_send(targets, data) ==
    /\ send_data_queue_' =
         [s \in Sessions |-> IF s \in targets THEN Append(send_data_queue_[s], NULL)
                                              ELSE send_data_queue_[s]]
    /\ writes' =
         [s \in Sessions |-> IF s \in targets /\ send_data_queue_[s] = << >>
                             THEN Append(writes[s], data)
                             ELSE writes[s]]

\* Faulty variants of process_packet: a session that has a name keeps it, the
\* sender is left out of the broadcast, or a notice has the id of a reply.
process_packet_FirstName(s, p) ==
    \/ /\ p.id = "REQUEST_LOGIN"
       /\ name_' = [name_ EXCEPT ![s] = IF @ = 0 THEN p.n ELSE @]
       /\ post_send({s}, [id |-> "REPLY_LOGIN", name |-> 0, from |-> p.from, n |-> p.n])
    \/ /\ p.id = "REQUEST_CHAT"
       /\ post_send({i \in Sessions : is_open[i]},
                    [id |-> "NOTICE_CHAT", name |-> name_[s], from |-> p.from, n |-> p.n])
       /\ UNCHANGED name_
process_packet_NotSender(s, p) ==
    \/ /\ p.id = "REQUEST_LOGIN"
       /\ name_' = [name_ EXCEPT ![s] = p.n]
       /\ post_send({s}, [id |-> "REPLY_LOGIN", name |-> 0, from |-> p.from, n |-> p.n])
    \/ /\ p.id = "REQUEST_CHAT"
       /\ post_send({i \in Sessions : is_open[i]} \ {s},
                    [id |-> "NOTICE_CHAT", name |-> name_[s], from |-> p.from, n |-> p.n])
       /\ UNCHANGED name_

process_packet_WrongId(s, p) ==
    \/ /\ p.id = "REQUEST_LOGIN"
       /\ name_' = [name_ EXCEPT ![s] = p.n]
       /\ post_send({s}, [id |-> "REPLY_LOGIN", name |-> 0, from |-> p.from, n |-> p.n])
    \/ /\ p.id = "REQUEST_CHAT"
       /\ post_send({i \in Sessions : is_open[i]},
                    [id |-> "REPLY_LOGIN", name |-> name_[s], from |-> p.from, n |-> p.n])
       /\ UNCHANGED name_

\* chat_server::process_packet, for the ids that clients send.
process_packet(s, p) ==
    \/ /\ p.id = "REQUEST_LOGIN"
       /\ name_' = [name_ EXCEPT ![s] = p.n]
       /\ post_send({s}, [id |-> "REPLY_LOGIN", name |-> 0, from |-> p.from, n |-> p.n])
    \/ /\ p.id = "REQUEST_CHAT"
       /\ post_send({i \in Sessions : is_open[i]},
                    [id |-> "NOTICE_CHAT", name |-> name_[s], from |-> p.from, n |-> p.n])
       /\ UNCHANGED name_

-------------------------------------------------------------------------------
(* The completion handlers.                                                  *)

\* handle_accept without an error: init, post_receive, post_accept.  The
\* handlers of the writes that close_session aborted have run by then: their
\* completions were queued before the accept was posted.
HandleAccept(s) ==
    /\ server = "running"
    /\ s \in accepts
    /\ accepted < arrived
    /\ writes[s] = << >>
    /\ accepted' = accepted + 1
    /\ conn' = [conn EXCEPT ![s] = accepted + 1]
    /\ is_open' = [is_open EXCEPT ![s] = TRUE]
    /\ init(s)
    /\ reads' = [reads EXCEPT ![s] = @ + 1]
    /\ post_accept(session_queue_, accepts \ {s})
    /\ UNCHANGED <<failed, send_vars, history_vars, peer_vars, server>>

\* handle_accept with an error: it is logged, and nothing else happens.
HandleAcceptError(s) ==
    /\ server = "running"
    /\ AcceptMayFail
    /\ s \in accepts
    /\ accepts' = accepts \ {s}
    /\ failed' = TRUE
    /\ UNCHANGED <<rx_vars, is_accepting_, session_queue_, socket_vars, send_vars,
                   history_vars, peer_vars, server>>

Served == {conn[s] : s \in {i \in Sessions : is_open[i]}}

\* Whom a packet p that session s receives should reach.
Addressees(s, p) == IF p.id = "REQUEST_LOGIN" THEN {conn[s]} ELSE Served

\* handle_receive without an error, n bytes transferred.  Every path ends with
\* post_receive, so reads is as before.
HandleReceive(s, n) ==
    LET c == conn[s]
        chunk == SubSeq(inbound[c], 1, n)
    IN
    /\ server = "running"
    /\ reads[s] > 0
    /\ n <= Len(inbound[c])
    /\ inbound' = [inbound EXCEPT ![c] = SubSeq(@, n + 1, Len(@))]
    /\ \/ ShortHeader(s, chunk) /\ UNCHANGED <<send_vars, last_login, owed>>
       \/ Refused(s, chunk) /\ UNCHANGED <<send_vars, last_login, owed>>
       \/ Incomplete(s, chunk) /\ UNCHANGED <<send_vars, last_login, owed>>
       \/ LET p == header(PacketBytes(s, chunk)) IN
          /\ Complete(s, chunk)
          /\ process_packet(s, p)
          /\ last_login' = IF p.id = "REQUEST_LOGIN"
                           THEN [last_login EXCEPT ![c] = p.n] ELSE last_login
          /\ owed' = owed \cup {<<d, p.n>> : d \in Addressees(s, p)}
    /\ UNCHANGED <<pool_vars, socket_vars, delivered, arrived, closed, sends, server>>

\* Faulty variants of close_session: no accept is posted, one is posted while
\* another is under way, or the socket stays open.
close_session_NoAccept(s) ==
    /\ is_open' = [is_open EXCEPT ![s] = FALSE]
    /\ session_queue_' = Append(session_queue_, s)
    /\ UNCHANGED <<is_accepting_, accepts>>
close_session_AlwaysAccept(s) ==
    /\ is_open' = [is_open EXCEPT ![s] = FALSE]
    /\ post_accept(Append(session_queue_, s), accepts)
close_session_KeepsSocket(s) ==
    /\ UNCHANGED is_open
    /\ \/ is_accepting_ = FALSE /\ post_accept(Append(session_queue_, s), accepts)
       \/ /\ is_accepting_
          /\ session_queue_' = Append(session_queue_, s)
          /\ UNCHANGED <<is_accepting_, accepts>>

\* chat_server::close_session.
close_session(s) ==
    /\ is_open' = [is_open EXCEPT ![s] = FALSE]
    /\ \/ is_accepting_ = FALSE /\ post_accept(Append(session_queue_, s), accepts)
       \/ /\ is_accepting_
          /\ session_queue_' = Append(session_queue_, s)
          /\ UNCHANGED <<is_accepting_, accepts>>

\* handle_receive with an error: the session's object keeps all else it holds.
HandleReceiveError(s) ==
    /\ server = "running"
    /\ reads[s] > 0
    /\ conn[s] \in closed
    /\ reads' = [reads EXCEPT ![s] = @ - 1]
    /\ close_session(s)
    /\ inbound' = [inbound EXCEPT ![conn[s]] = << >>]
    /\ UNCHANGED <<rx_vars, failed, conn, accepted, send_vars, history_vars,
                   arrived, closed, sends, server>>

\* handle_write, whether the write succeeded or not: the front is popped, and
\* if the queue is not empty then, its front is sent.  The header of a null
\* packet is read on the way, which ends the program.
HandleWrite(s) ==
    LET queue == Tail(send_data_queue_[s])
        resend == queue # << >> /\ Head(queue) # NULL
    IN
    /\ server = "running"
    /\ writes[s] # << >>
    /\ send_data_queue_' = [send_data_queue_ EXCEPT ![s] = queue]
    /\ writes' = [writes EXCEPT ![s] =
                     IF resend THEN Append(Tail(@), Head(queue)) ELSE Tail(@)]
    /\ server' = IF queue # << >> /\ Head(queue) = NULL THEN "crashed" ELSE server
    /\ delivered' = IF is_open[s]
                    THEN delivered \cup {<<conn[s], Head(writes[s]).n>>}
                    ELSE delivered
    /\ UNCHANGED <<rx_vars, pool_vars, socket_vars, name_, last_login, owed, peer_vars>>

\* io_service::run returns when no asynchronous operation is under way, and
\* main ends.
RunReturns ==
    /\ server = "running"
    /\ accepts = {}
    /\ \A s \in Sessions : reads[s] = 0 /\ writes[s] = << >>
    /\ server' = "ended"
    /\ UNCHANGED <<rx_vars, pool_vars, socket_vars, send_vars, history_vars, peer_vars>>

Next ==
    \/ Connect
    \/ \E c \in Connections, kind \in Kinds : PeerSend(c, kind)
    \/ \E c \in Connections : PeerClose(c)
    \/ \E s \in Sessions : HandleAccept(s)
    \/ \E s \in Sessions : HandleAcceptError(s)
    \/ \E s \in Sessions, n \in 1 .. HeaderSize : HandleReceive(s, n)
    \/ \E s \in Sessions : HandleReceiveError(s)
    \/ \E s \in Sessions : HandleWrite(s)
    \/ RunReturns

Spec == Init /\ [][Next]_vars

\* The io_service runs every handler whose operation has completed: an accept
\* when a connection is waiting, a read when there are bytes or the peer is
\* gone, a write because peers keep reading.
Fairness ==
    \A s \in Sessions :
        /\ WF_vars(HandleAccept(s))
        /\ WF_vars(\E n \in 1 .. HeaderSize : HandleReceive(s, n))
        /\ WF_vars(HandleReceiveError(s))
        /\ WF_vars(HandleWrite(s))

FairSpec == Spec /\ Fairness

-------------------------------------------------------------------------------
(* Properties.                                                               *)

InPacket == [id : PacketIds, content_size : Nat, from : Nat, n : Nat \ {0}]
OutPacket == [id : PacketIds, name : Nat, from : Nat, n : Nat]
Byte == InPacket \X Nat

TypeOK ==
    /\ packet_buffer_ \in [Sessions -> Seq(Byte)]
    /\ packet_buffer_mark_ \in [Sessions -> Nat]
    /\ content_read_mode_ \in [Sessions -> BOOLEAN]
    /\ is_accepting_ \in BOOLEAN
    /\ session_queue_ \in Seq(Sessions)
    /\ accepts \subseteq Sessions
    /\ is_open \in [Sessions -> BOOLEAN]
    /\ reads \in [Sessions -> Nat]
    /\ writes \in [Sessions -> Seq(OutPacket)]
    /\ send_data_queue_ \in [Sessions -> Seq({NULL})]
    /\ name_ \in [Sessions -> Nat]
    /\ server \in {"running", "crashed", "ended"}
    /\ arrived \in Nat /\ accepted \in Nat /\ sends \in Nat
    /\ inbound \in [Connections -> Seq(Byte)]
    /\ closed \subseteq Connections
    /\ conn \in [Sessions -> Nat]
    /\ failed \in BOOLEAN
    /\ last_login \in [Connections -> Nat]
    /\ owed \subseteq Connections \X Nat
    /\ delivered \subseteq Connections \X Nat

Queued == {session_queue_[i] : i \in 1 .. Len(session_queue_)}
Open == {s \in Sessions : is_open[s]}

\* A session id is in one place at a time (session_queue_, the accept under way,
\* an open socket) and at most one accept is under way.
OnePlace ==
    /\ \A i, j \in 1 .. Len(session_queue_) :
          session_queue_[i] = session_queue_[j] => i = j
    /\ Queued \cap accepts = {}
    /\ Queued \cap Open = {}
    /\ accepts \cap Open = {}
    /\ \A s, t \in accepts : s = t

\* Until an accept fails no id is lost, is_accepting_ says whether an accept is
\* under way, and an accept is under way whenever an id is free.
FreeSessionListens ==
    ~failed =>
        /\ Queued \cup accepts \cup Open = Sessions
        /\ is_accepting_ <=> accepts # {}
        /\ Queued # {} => accepts # {}

\* After an accept has failed is_accepting_ stays set for good, so that
\* close_session never posts another.
FailureSticks == failed => is_accepting_ /\ accepts = {}

\* Why the pool behaves: the conjunction is inductive.
PoolInv == OnePlace /\ FreeSessionListens /\ FailureSticks

\* chat_server's sessions as a pool of slots.
Pool == INSTANCE SlotPool WITH
    Slots <- Sessions,
    free <- Queued,
    listening <- accepts,
    busy <- Open

RefinesPool == Pool!PoolSpec

\* A socket has one read under way exactly while it is open, so two handlers
\* never fill receive_buffer_ and packet_buffer_ at once.
OneReader ==
    \A s \in Sessions : reads[s] = IF is_open[s] THEN 1 ELSE 0

\* Two async_writes are never under way on one socket (their bytes could mix),
\* and handle_write never finds the queue empty; also for the writes that
\* close_session left behind.
OneWrite ==
    server # "crashed" =>
        \A s \in Sessions :
            Len(writes[s]) = IF send_data_queue_[s] = << >> THEN 0 ELSE 1

\* Positions stay where they make sense: the mark inside the buffer it is used
\* on, also when the buffer is left from an earlier connection, and an open
\* session on a connection that arrived.
InBounds ==
    /\ \A s \in Sessions :
          /\ packet_buffer_mark_[s] <= Len(packet_buffer_[s])
          /\ is_open[s] => conn[s] \in 1 .. accepted
    /\ accepted <= arrived
    /\ arrived <= MaxConnections

\* A notice that is posted carries what its sender logged in with last, also when
\* the session had another name before (process_packet reads name_ through the
\* session, and nothing resets it between connections).  Of a sender that never
\* logged in it carries no name, or the one a peer that is gone left in the
\* session; never that of a peer that is still served.
NoticeNamesSender ==
    [][\A s \in Sessions :
          Len(writes'[s]) > Len(writes[s]) =>
              LET p == writes'[s][Len(writes'[s])]
              IN  p.id = "NOTICE_CHAT" =>
                     \/ p.name = last_login[p.from]
                     \/ /\ last_login[p.from] = 0
                        /\ \E d \in Connections \ Served : p.name = last_login[d]]_vars

\* io_service::run does not return while the server could still serve: only a
\* failed accept lets it run out of work.
EndsOnlyAfterFailure == server = "ended" => failed

\* The server survives peers who wait until nothing is under way.
Survives == server # "crashed"

\* Whatever process_packet is to send reaches the connections it is for, unless
\* they close (chatting_server.cpp:82 and :102).
EverythingArrives ==
    \A c \in Connections, n \in 1 .. MaxSends :
        (<<c, n>> \in owed) ~> (<<c, n>> \in delivered \/ c \in closed)

\* A connection that waits is accepted, or every session serves a live peer.
Full == \A s \in Sessions : is_open[s] /\ conn[s] \notin closed

WaitingAccepted ==
    \A c \in Connections : (arrived >= c) ~> (accepted >= c \/ Full)

\* The session of a peer that is gone is closed in the end.
SocketReleased ==
    \A s \in Sessions :
        (is_open[s] /\ conn[s] \in closed) ~> ~is_open[s]

===============================================================================
