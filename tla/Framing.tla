------------------------------- MODULE Framing --------------------------------
(***************************************************************************)
(* One receiver and the byte stream it reads: session::handle_receive with *)
(* the server's constants, ChatClient::handle_receive with the client's.   *)
(* The stream is what the peer's async_writes put on the connection; a     *)
(* read returns any non-empty prefix of it that fits the receive buffer.   *)
(* A server session outlives its connections, so the receiver may be       *)
(* disconnected and used again.                                            *)
(***************************************************************************)
EXTENDS Reassembly

CONSTANTS
    Receiver,        \* the session, or the client
    ReceiveMax,      \* size of receive_buffer_: sizeof(packet_header) in the
                     \* server, MAX_RECEIVE_BUFFER_LEN in the client
    Kinds,           \* the headers [id, content_size] a peer sends
    MaxPackets,      \* bound on the packets sent
    MaxConnections,  \* bound on the connections the receiver serves
    Paced            \* the peer sends only when all it sent has been read

ASSUME FramingAssumption ==
    /\ Sessions = {Receiver}
    /\ ReceiveMax \in Nat \ {0}
    /\ Kinds \subseteq [id : PacketIds, content_size : Nat]
    /\ MaxPackets \in Nat
    /\ MaxConnections \in Nat
    /\ Paced \in BOOLEAN

VARIABLES
    open,        \* the connection is up
    wire,        \* bytes written by the peer and not yet read
    sent,        \* history: the packets sent, on all connections
    processed,   \* history: what process_packet was given, as bytes
    base,        \* history: how many packets were sent on earlier connections
    connections  \* how many connections there have been

stream_vars == <<open, wire, sent, processed, base, connections>>
vars == <<rx_vars, stream_vars>>

-------------------------------------------------------------------------------

Init ==
    /\ RxInit
    /\ open = TRUE
    /\ wire = << >>
    /\ sent = << >>
    /\ processed = << >>
    /\ base = 0
    /\ connections = 1

\* The peer writes one packet; n tells packets with equal headers apart.
Send(kind) ==
    /\ open
    /\ Len(sent) < MaxPackets
    /\ Paced => wire = << >>
    /\ LET p == [id |-> kind.id, content_size |-> kind.content_size,
                 n |-> Len(sent) + 1]
       IN  /\ sent' = Append(sent, p)
           /\ wire' = wire \o build_packet(p)
    /\ UNCHANGED <<rx_vars, open, processed, base, connections>>

\* handle_receive without an error, n bytes transferred.
HandleReceive(n) ==
    LET chunk == SubSeq(wire, 1, n) IN
    /\ open
    /\ n <= Len(wire)
    /\ wire' = SubSeq(wire, n + 1, Len(wire))
    /\ \/ ShortHeader(Receiver, chunk) /\ UNCHANGED processed
       \/ Refused(Receiver, chunk) /\ UNCHANGED processed
       \/ Incomplete(Receiver, chunk) /\ UNCHANGED processed
       \/ /\ Complete(Receiver, chunk)
          /\ processed' = Append(processed, PacketBytes(Receiver, chunk))
    /\ UNCHANGED <<open, sent, base, connections>>

\* handle_receive with an error: the socket is closed, nothing else is reset,
\* and bytes that were still unread are gone.
HandleReceiveError ==
    /\ open
    /\ open' = FALSE
    /\ wire' = << >>
    /\ base' = Len(sent)
    /\ UNCHANGED <<rx_vars, sent, processed, connections>>

\* handle_accept gives the session object to the next connection.
Reuse ==
    /\ ~open
    /\ connections < MaxConnections
    /\ connections' = connections + 1
    /\ open' = TRUE
    /\ init(Receiver)
    /\ UNCHANGED <<wire, sent, processed, base>>

Next ==
    \/ \E kind \in Kinds : Send(kind)
    \/ \E n \in 1 .. ReceiveMax : HandleReceive(n)
    \/ HandleReceiveError
    \/ Reuse

Spec == Init /\ [][Next]_vars

\* A read that has bytes to return completes.
Fairness == WF_vars(\E n \in 1 .. ReceiveMax : HandleReceive(n))

FairSpec == Spec /\ Fairness

-------------------------------------------------------------------------------
(* Properties.                                                               *)

Packet == [id : PacketIds, content_size : Nat, n : Nat]
Byte == Packet \X Nat

TypeOK ==
    /\ packet_buffer_ \in [Sessions -> Seq(Byte)]
    /\ packet_buffer_mark_ \in [Sessions -> Nat]
    /\ content_read_mode_ \in [Sessions -> BOOLEAN]
    /\ open \in BOOLEAN
    /\ wire \in Seq(Byte)
    /\ sent \in Seq(Packet)
    /\ processed \in Seq(Seq(Byte))
    /\ base \in Nat
    /\ connections \in Nat

\* packet_buffer_.begin() + packet_buffer_mark_ is a position in the vector,
\* also when the buffer still holds bytes of an earlier connection.
MarkInside == packet_buffer_mark_[Receiver] <= Len(packet_buffer_[Receiver])

\* The position of a processed packet in sent.
position(bytes) == header(bytes).n

ProcessedAt(k) == \E i \in 1 .. Len(processed) : position(processed[i]) = k

\* The limit as the receiver should apply it.
Allowed(p) == ~(p.id \in LimitedIds /\ p.content_size > MaxChatLen)

\* Packets up to this position can no longer be processed: they were sent on an
\* earlier connection or lie at or before the last one processed.
horizon ==
    IF processed # << >> /\ position(processed[Len(processed)]) > base
    THEN position(processed[Len(processed)])
    ELSE base

\* The bytes the receiver still has to interpret: those before the mark and
\* those not yet read.  Bytes behind the mark are left from an earlier
\* connection and take no part.
Ahead ==
    SubSeq(packet_buffer_[Receiver], 1, packet_buffer_mark_[Receiver]) \o wire

\* From each byte of c on, the rest of its packet follows without a gap.
Contiguous(c) ==
    \A j \in 1 .. Len(c) :
        /\ c[j][2] \in 1 .. get_packet_size(c[j][1])
        /\ j + get_packet_size(c[j][1]) - c[j][2] <= Len(c)
        /\ \A k \in j .. j + get_packet_size(c[j][1]) - c[j][2] :
              c[k] = <<c[j][1], c[j][2] + k - j>>

\* The bytes of c belong to packets of all, in their order, and to none up to
\* position low.
Ordered(c, low, all) ==
    /\ \A j \in 1 .. Len(c) :
          /\ c[j][1].n \in 1 .. Len(all)
          /\ c[j][1].n > low
          /\ all[c[j][1].n] = c[j][1]
    /\ \A j \in 1 .. Len(c) : \A k \in j + 1 .. Len(c) :
          \/ c[j][1].n < c[k][1].n
          \/ c[j][1] = c[k][1] /\ c[j][2] < c[k][2]

\* Why RefinesChannel holds: while the connection is up the bytes
\* ahead are an unbroken piece of the stream, later than all that was
\* processed, and in content read mode they begin with a packet's first byte.
StreamInv ==
    /\ MarkInside
    /\ \A k \in 1 .. Len(sent) : sent[k].n = k
    /\ base <= Len(sent)
    /\ ~open => wire = << >> /\ base = Len(sent)
    /\ \A i \in 1 .. Len(processed) :
          \E k \in 1 .. Len(sent) : processed[i] = build_packet(sent[k])
    /\ open => /\ Contiguous(Ahead)
               /\ Ordered(Ahead, horizon, sent)
               /\ (content_read_mode_[Receiver] /\ Ahead # << >>) => Ahead[1][2] = 1

\* The receiver as a lossy channel (session.handle_receive against the promise
\* of LossyChannel): what is sent are the packets' bytes, what is delivered is
\* what process_packet is given.
Messages ==
    {build_packet([id |-> kind.id, content_size |-> kind.content_size, n |-> k]) :
        kind \in Kinds, k \in 1 .. MaxPackets}

Channel == INSTANCE LossyChannel WITH
    Message <- Messages,
    sent <- [k \in 1 .. Len(sent) |-> build_packet(sent[k])],
    delivered <- processed,
    last <- horizon

RefinesChannel == Channel!ChannelSpec

\* The first packet of a connection is never lost to read boundaries: once all
\* bytes are read it has been processed, if its length is allowed.
FirstArrives ==
    (open /\ wire = << >> /\ Len(sent) > base /\ Allowed(sent[base + 1]))
        => ProcessedAt(base + 1)

\* The first byte of packet k is the next one the receiver will interpret.
AtFront(k) == Ahead # << >> /\ Ahead[1] = <<sent[k], 1>>

\* A packet is lost only in a read that began before it or by a broken connection:
\* when its first byte is next, after whatever was refused or dropped before it,
\* it stays next until process_packet has it, if its length is allowed.
FrontIsProcessed ==
    [][\A k \in 1 .. Len(sent) :
          (AtFront(k) /\ Allowed(sent[k]) /\ open /\ open')
              => (AtFront(k)' \/ ProcessedAt(k)')]_vars

\* A packet over the limit reaches process_packet at most as the first packet
\* of a connection: only there can content_read_mode_ be left from before.
LimitKeptAfterFirst ==
    [][processed' # processed =>
          LET p == header(processed'[Len(processed')])
          IN  Allowed(p) \/ p.n = base + 1]_vars

\* No packet over the limit is ever processed (server_session.cpp:169-171).
LimitKept ==
    \A i \in 1 .. Len(processed) : Allowed(header(processed[i]))

\* Nothing the receiver should accept is dropped: when every byte of the
\* connection has been read, each packet of an allowed length was processed.
NothingLost ==
    (open /\ wire = << >>) =>
        \A k \in base + 1 .. Len(sent) :
            Allowed(sent[k]) => ProcessedAt(k)

\* Every packet of an allowed length is processed in the end, unless its
\* connection breaks first.
EventuallyProcessed ==
    \A k \in 1 .. MaxPackets :
        (base < k /\ k <= Len(sent) /\ Allowed(sent[k]))
            ~> (ProcessedAt(k) \/ base >= k)

===============================================================================
