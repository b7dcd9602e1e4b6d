------------------------------ MODULE ChatSystem ------------------------------
(***************************************************************************)
(* One real client and the real server together.  ChatClient takes the     *)
(* place of one of the server's peers, and ChatServer that of the client's *)
(* server; the other peers stay as they are in ChatServer.                 *)
(*                                                                         *)
(* Where the two meet, one step is a step of both: what the client's write *)
(* brings to the server is what a peer sends, what an async_write of the   *)
(* server brings is put on its way to the client.  Nothing that ChatClient *)
(* assumes of its server is taken over: ClientSpec checks it.              *)
(***************************************************************************)
EXTENDS ChatServer

CONSTANTS
    MaxLines,          \* bound on the lines typed
    MaxNotices,        \* at least the chats that are sent
    ContentSize,       \* of the packets of the client
    OtherKinds,        \* the headers the other peers send
    MaxGone,           \* bound on the connections that end, the client's own
                       \* close not counted
    LastGone           \* bound on the packets sent when one of them ends

ASSUME SystemAssumption ==
    /\ MaxLines \in Nat
    /\ MaxNotices \in Nat /\ MaxSends <= MaxNotices
    /\ ContentSize \in Nat
    /\ Kinds = OtherKinds \cup [id : {"REQUEST_LOGIN", "REQUEST_CHAT"},
                                content_size : {ContentSize}]
    /\ MaxGone \in Nat
    /\ LastGone \in Nat

VARIABLES
    c_socket, c_connect, c_reading, c_writes, c_send_data_queue_, c_is_logged_in_,
    c_torn, c_main, c_id, c_stopped, c_running, c_lines, c_inbound, c_notices,
    c_answered, c_peer_closed, c_posted, c_written, c_overlapped,
    me,                \* the number of the client's connection, 0 before it has one
    sent_by_me,        \* history: the server's numbers of the packets in c_written
    incoming,          \* the packets c_inbound has the ids of
    passed,            \* sessions whose write has reached the client, its handler
                       \* not having run
    said,              \* history: the notices the server made, in order
    shown,             \* history: the notices the client showed, in order
    hurried            \* history: a packet was sent while another was under way

Client == INSTANCE ChatClient WITH
    Paced <- FALSE,
    socket <- c_socket, connect <- c_connect, reading <- c_reading,
    writes <- c_writes, send_data_queue_ <- c_send_data_queue_,
    is_logged_in_ <- c_is_logged_in_, torn <- c_torn, main <- c_main, id <- c_id,
    stopped <- c_stopped, running <- c_running, lines <- c_lines,
    inbound <- c_inbound, notices <- c_notices, answered <- c_answered,
    peer_closed <- c_peer_closed, posted <- c_posted, written <- c_written,
    overlapped <- c_overlapped

c_io_vars == <<c_socket, c_connect, c_reading, c_writes>>
c_main_vars == <<c_main, c_id, c_stopped, c_lines, c_posted, c_overlapped>>
c_other_vars == <<c_send_data_queue_, c_is_logged_in_, c_torn, c_running, c_written>>
client_vars == <<c_io_vars, c_main_vars, c_other_vars, c_inbound, c_notices, c_answered,
                 c_peer_closed>>
meeting_vars == <<me, sent_by_me, incoming, passed, said, shown, hurried>>
system_vars == <<vars, client_vars, meeting_vars>>

SystemInit ==
    /\ Init
    /\ Client!Init
    /\ me = 0
    /\ sent_by_me = << >>
    /\ incoming = << >>
    /\ passed = {}
    /\ said = << >>
    /\ shown = << >>
    /\ hurried = FALSE

-------------------------------------------------------------------------------
(* Steps of the client that the server has no part in.                       *)

\* The bound on the packets leaves one more, where every line typed and not yet
\* written has its own.
Room == sends + c_lines - Len(c_written) < MaxSends

ClientAlone ==
    /\ \/ Client!GetLine /\ Room
       \/ Client!EndOfInput \/ Client!is_connecting
       \/ Client!is_logged_in \/ Client!PostSend \/ Client!StopService \/ Client!Join
       \/ Client!HandleConnect \/ Client!HandleWrite \/ Client!RunReturns
    /\ UNCHANGED <<vars, meeting_vars>>

\* A notice is shown when it is processed, whole and in place.
ClientReceives(n) ==
    /\ Client!HandleReceive(n)
    /\ incoming' = SubSeq(incoming, Len(incoming) - Len(c_inbound') + 1, Len(incoming))
    /\ shown' = IF ~c_torn /\ incoming[1].id = "NOTICE_CHAT"
                THEN Append(shown, incoming[1])
                ELSE shown
    /\ UNCHANGED <<vars, me, sent_by_me, passed, said, hurried>>

-------------------------------------------------------------------------------
(* Steps of both.                                                            *)

\* The connection is in the server's backlog, or it cannot be made.
ClientConnects ==
    /\ Client!ConnectCompletes
    /\ \/ /\ c_connect' = "accepted"
          /\ Connect
          /\ me' = arrived + 1
       \/ c_connect' = "refused" /\ UNCHANGED <<vars, me>>
    /\ UNCHANGED <<sent_by_me, incoming, passed, said, shown, hurried>>

\* Nothing is under way between the server and anyone.
Calm == Idle /\ c_inbound = << >> /\ ~c_torn

\* What a completed write of the client sent.
ClientWrites ==
    /\ Client!WriteCompletes
    /\ \/ /\ c_written' # c_written
          /\ PeerSend(me, [id |-> Head(c_writes).packet.id, content_size |-> ContentSize])
          /\ sent_by_me' = Append(sent_by_me, sends + 1)
          /\ hurried' = (hurried \/ ~Calm)
       \/ /\ c_written' = c_written
          /\ UNCHANGED <<vars, sent_by_me, hurried>>
    /\ UNCHANGED <<me, incoming, passed, said, shown>>

\* The client closes its end: at the end of main, or when its read fails.
ClientCloses ==
    /\ Client!CloseSocket \/ Client!HandleReceiveError
    /\ \/ me # 0 /\ PeerClose(me)
       \/ /\ me = 0 \/ me \in closed \/ server # "running"
          /\ UNCHANGED vars
    /\ UNCHANGED meeting_vars

\* The bounds on the connections that end.
MayEnd == Cardinality(closed) < MaxGone /\ sends <= LastGone

\* The connection breaks at both ends, or the server is gone with its end.
ConnectionBreaks ==
    /\ Client!ServerCloses
    /\ IF server = "running"
       THEN PeerClose(me) /\ MayEnd
       ELSE UNCHANGED vars
    /\ UNCHANGED meeting_vars

\* The write under way on a session has the client at its other end, and can
\* still reach it.
Reachable(s) ==
    /\ writes[s] # << >>
    /\ is_open[s] /\ conn[s] = me
    /\ s \notin passed
    /\ c_socket = "connected" /\ ~c_peer_closed

\* The bytes of an async_write are on their way; its handler runs later.
ServerReaches(s) ==
    LET packet == Head(writes[s]) IN
    /\ server = "running"
    /\ Reachable(s)
    /\ incoming' = Append(incoming, packet)
    /\ c_inbound' = Append(c_inbound, packet.id)
    /\ c_answered' = IF packet.id = "REPLY_LOGIN"
                     THEN c_answered \cup {i \in 1 .. Len(sent_by_me) :
                                              sent_by_me[i] = packet.n}
                     ELSE c_answered
    /\ c_notices' = IF packet.id = "NOTICE_CHAT" THEN c_notices + 1 ELSE c_notices
    /\ passed' = passed \cup {s}
    /\ UNCHANGED <<vars, c_io_vars, c_main_vars, c_other_vars, c_peer_closed,
                   me, sent_by_me, said, shown, hurried>>

-------------------------------------------------------------------------------
(* Steps of the server that the client has no part in.                       *)

\* handle_write runs when the bytes have reached the client, or never will.
ServerWritten(s) ==
    /\ ~Reachable(s)
    /\ HandleWrite(s)
    /\ passed' = passed \ {s}
    /\ UNCHANGED <<client_vars, me, sent_by_me, incoming, said, shown, hurried>>

\* A chat that is processed becomes a notice, which every open session is sent.
ServerReceives(s, n) ==
    LET chunk == SubSeq(inbound[conn[s]], 1, n)
        p == header(PacketBytes(s, chunk))
    IN
    /\ HandleReceive(s, n)
    /\ said' = IF Complete(s, chunk) /\ p.id = "REQUEST_CHAT"
               THEN Append(said, [id |-> "NOTICE_CHAT", name |-> name_[s],
                                  from |-> p.from, n |-> p.n])
               ELSE said
    /\ UNCHANGED <<client_vars, me, sent_by_me, incoming, passed, shown, hurried>>

ServerAlone ==
    /\ \/ \E s \in Sessions :
             HandleAccept(s) \/ HandleAcceptError(s) \/ HandleReceiveError(s)
       \/ RunReturns
    /\ UNCHANGED <<client_vars, meeting_vars>>

OtherPeers ==
    /\ \/ Connect /\ UNCHANGED hurried
       \/ \E c \in Connections \ {me} :
             \/ /\ Room
                /\ \E kind \in OtherKinds : PeerSend(c, kind)
                /\ hurried' = (hurried \/ ~Calm)
             \/ PeerClose(c) /\ MayEnd /\ UNCHANGED hurried
    /\ UNCHANGED <<client_vars, me, sent_by_me, incoming, passed, said, shown>>

-------------------------------------------------------------------------------

SystemNext ==
    \/ ClientAlone
    \/ \E n \in 1 .. MaxLines + MaxNotices : ClientReceives(n)
    \/ ClientConnects \/ ClientWrites \/ ClientCloses \/ ConnectionBreaks
    \/ \E s \in Sessions : ServerReaches(s) \/ ServerWritten(s)
    \/ \E s \in Sessions, n \in 1 .. HeaderSize : ServerReceives(s, n)
    \/ ServerAlone
    \/ OtherPeers

SystemSpec == SystemInit /\ [][SystemNext]_system_vars

\* Each program runs on while it has something to do, and the network brings on
\* what was written.  Nobody has to type, to connect, to send or to leave.
ClientRuns ==
    /\ \/ Client!is_connecting \/ Client!is_logged_in \/ Client!PostSend
       \/ Client!HandleConnect \/ Client!HandleWrite
    /\ UNCHANGED <<vars, meeting_vars>>

SystemFairness ==
    /\ WF_system_vars(ClientRuns \/ \E n \in 1 .. Len(c_inbound) : ClientReceives(n))
    /\ WF_system_vars(ClientConnects \/ ClientWrites \/ \E s \in Sessions : ServerReaches(s))
    /\ WF_system_vars(\/ ServerAlone
                      \/ \E s \in Sessions :
                            \/ ServerWritten(s)
                            \/ \E n \in 1 .. HeaderSize : ServerReceives(s, n))

FairSystemSpec == SystemSpec /\ SystemFairness

-------------------------------------------------------------------------------
(* Properties.                                                               *)

Notice == [id : {"NOTICE_CHAT"}, name : 0 .. MaxSends, from : Connections,
           n : 1 .. MaxSends]

\* The two programs and what lies between them agree on what is under way: the
\* ids the client has coming are those of the packets the server wrote to it.
SystemTypeOK ==
    /\ TypeOK /\ Client!TypeOK
    /\ me \in 0 .. arrived
    /\ c_inbound = [i \in 1 .. Len(incoming) |-> incoming[i].id]
    /\ sent_by_me \in Seq(1 .. sends) /\ Len(sent_by_me) = Len(c_written)
    /\ passed \subseteq Sessions
    /\ said \in Seq(Notice) /\ shown \in Seq(Notice)
    /\ hurried \in BOOLEAN

\* The server does nothing ChatClient does not expect of its server: it answers a
\* login once, and nothing but a login, with a reply, and makes no other packets
\* than replies and notices (chatting_server.cpp:63-112).  What is shown of
\* ChatClient alone holds of a client of this server.
ClientSpec == Client!Spec

\* What the client shows is what the server made of the chats it received, each
\* at most once and in the order the server received them, whoever sent them.
Shows == INSTANCE LossyChannel WITH
    Message <- Notice,
    sent <- said,
    delivered <- shown,
    last <- IF shown = << >> THEN 0
            ELSE CHOOSE i \in 1 .. Len(said) : said[i] = shown[Len(shown)]

ShowsInOrder == Shows!ChannelSpec

\* A line the client sends as a chat goes out under the text of a login that the
\* client sent before it, never under no name or another's; and of the logins
\* sent before it that were answered it is the last, or a later one: a line typed
\* before the reply is a login again and takes the place of the name.  The client
\* asks its flag in the main thread, the server its session when the chat
\* arrives, and only the reply ties the two together (client_main.cpp:40-48,
\* chatting_server.cpp:79 and :98).
OwnName ==
    \A i \in 1 .. Len(said) : said[i].from = me =>
        /\ said[i].name < said[i].n
        /\ \E j \in 1 .. Len(sent_by_me) :
              sent_by_me[j] = said[i].name /\ c_written[j].id = "REQUEST_LOGIN"
        /\ \A j \in c_answered :
              sent_by_me[j] < said[i].n => sent_by_me[j] <= said[i].name

\* The chats the client posted, by their numbers, that its own screen has not shown.
Unshown ==
    {n \in 1 .. Len(c_posted) :
        /\ c_posted[n].id = "REQUEST_CHAT"
        /\ \A i \in 1 .. Len(c_written), j \in 1 .. Len(shown) :
              c_written[i].n = n => shown[j].n # sent_by_me[i]}

\* A line sent as a chat comes back to its author in the end, through both queues,
\* both reassemblies and the broadcast, and so do all: unless a line was typed
\* before the one ahead of it was written, a packet was on its way at the same
\* time as another, the client leaves or the connection ends.
EveryLineShown ==
    Unshown # {} ~>
        \/ Unshown = {}
        \/ c_overlapped \/ hurried
        \/ c_main \notin {"getline", "is_connecting", "is_logged_in", "post_send"}
        \/ c_peer_closed

===============================================================================
