# A TLA+ development of the TCP chat server and client

This directory models the chat programs of this repository in TLA+, checks the
models with TLC and proves what matters most with TLAPS. Paths such as
`server_session.cpp:62` are relative to `AsioTCPChattingServer/`,
`AsioTCPChattingClient/` and `Common/` in the repository.

    tlc -config ChatServer.cfg MCChatServer.tla      # one run
    tlapm ChatServerProofs.tla                       # the proofs of one module

`PROJECT.json` lists the components, the runs, for each property a mutation of
the code that breaks it, the lines every definition stands for, the hazards and
the theorems.

## 1. The system

Two programs speak a small binary protocol over TCP port 31400. A client sends
a login with a name, then chats; the server answers the login and sends every
chat, with the name of who wrote it, to every open connection.

| part | state | operations |
|---|---|---|
| wire protocol (`Protocol.h`, `protocol.cpp`) | one global `crc` object | `build_packet`, `calculate_crc`, `get_packet_size` |
| reassembly (`handle_receive` of `session` and of `ChatClient`) | `packet_buffer_`, `packet_buffer_mark_`, `content_read_mode_`, `receive_buffer_` | insert a chunk at the mark, check the header, process or keep, `clear_packet_buffer`, `init` |
| `chat_server` | `session_list_`, `session_queue_`, `is_accepting_` | `init`, `start`, `post_accept`, `handle_accept`, `close_session`, `process_packet` |
| `session` | socket, `send_data_queue_`, `name_`, and the reassembly state | `post_receive`, `handle_receive`, `post_send`, `handle_write`, `init`, `set_name` |
| `ChatClient` | socket, `send_data_queue_` under `lock_`, `is_logged_in_`, and the reassembly state | `connect`, `close`, `post_send`, and the three completion handlers |
| client `main` | the line being sent | read a line, ask `is_connecting` and `is_logged_in`, build, post; at the end stop, close, join |
| server `main` | – | construct, `init(100)`, `start`, `io_service::run` |
| `scoped_lock` | a `std::mutex` | lock in the constructor, unlock in the destructor |
| protobuf messages (`packet.pb.h`, `packet.pb.cc`) | of each message its has bits, the pointers to its strings, a Boolean, the unknown fields; one empty string all messages share | accessors, construct, copy, destroy, `Clear`, `MergeFrom`, `CopyFrom`, `Swap`, `ByteSize`, serialise, parse |
| protobuf runtime | – | a vendored library; its inline headers encode and decode varints, strings and tags |

How they interact. The server has one thread: `io_service::run` calls one
completion handler at a time, and each handler starts further asynchronous
operations. A session calls its server (`process_packet`, `close_session`) from
inside `handle_receive`, and the server calls back into this or other sessions
(`post_send`). Both programs parse the content of a packet into a message object
made for it, and build one from a message with `ByteSize` and `SerializeToArray`;
neither looks at whether parsing succeeded. The client has two threads that share `ChatClient`, its socket
and the global `crc`: `main` reads lines and posts packets, the worker runs the
`io_service`. Only `send_data_queue_` is protected by a lock. Client and server
share nothing but the two byte streams of a connection.

What is hard in it, and what correctness means for each part:

- **Reassembly.** A read returns any prefix of the stream that fits the buffer
  (12 bytes in the server, 10, less than a header, in the client). Chunks have
  to be joined over any number of reads, headers over the limit refused, and
  all of it must keep working when a session object is used for the next
  connection although its buffer and mode are not reset. Correct means: what is
  processed is exactly a packet that was sent on this connection, in order and
  once; nothing is lost; the limit is applied.
- **Session ids.** They move between the queue, the one accept under way and
  the open sockets, in handlers that run in any order, and accepts may fail.
  Correct means: no id is lost or in two places; while one is free the server
  listens; a waiting connection is accepted in the end.
- **Sending.** At most one `async_write` per socket, or bytes mix; packets posted
  meanwhile are queued. Correct means: every packet that is posted arrives, once
  and in order; a handler that runs late, also for a connection that was closed,
  never finds the queue empty.
- **Two threads in the client.** A line may be posted at any moment between a
  write, its completion and its handler; the login flag is read by one thread
  and set by the other; the crc object has no lock. Correct means: a chat is
  sent only after a login, one login only, one write at a time, no line lost.
- **The messages.** A string of a message is its own, or the one empty string that
  all messages of a program share; strings are kept when a message is cleared and
  change hands with `release`, `set_allocated`, `Swap`. Parsing may end anywhere.
  Correct means: one owner per string, the shared one is never written, nothing
  old shows, what is parsed is what was serialised, and `ByteSize` is its length.
- **The two programs together.** Whether a line is a login or a chat is decided by
  a flag in the client, under which name it is broadcast by the session in the
  server. Correct means: a line goes out under its author's name, is shown once
  and in the server's order, and comes back to its author.

`PROJECT.json` lists these hazards one by one with the line where each bites.

## 2. The modules

| module | models | relation to others |
|---|---|---|
| `Protocol` | packets, their bytes, `build_packet`, header validity | used by all that read bytes |
| `Reassembly` | the four outcomes of one `handle_receive` as operators | used by `Framing` and `ChatServer` |
| `LossyChannel` | abstract: messages may be lost, never damaged, doubled, reordered or carried over to another connection | implemented by `Framing` and `ChatClient` |
| `Framing` | one receiver, one byte stream, reconnects | implements `LossyChannel` |
| `SlotPool` | abstract: sessions are free, listening or busy | implemented by `ChatServer` |
| `ChatServer` | `chat_server`, its sessions, the `io_service` and the peers | uses `Reassembly`, implements `SlotPool` |
| `ChatClient` | client `main`, `ChatClient` and the worker thread | implements `LossyChannel` |
| `HeaderCrc` | threads inside `calculate_crc` | – |
| `WireFormat` | tags, varints, wire records: how contents are encoded and read | used by `PacketMessages` |
| `PacketMessages` | the objects of a generated class and the heap of their strings | – |
| `ChatSystem` | one client, the server, its other peers, and the connection between them | extends `ChatServer`, instantiates `ChatClient` and `LossyChannel` |
| `*Proofs` | theorems about the module they extend | |
| `MC*` | model values and packet kinds for TLC | |

### Protocol and Reassembly

A byte is a pair *(packet, offset)*; `build_packet` is the sequence of the bytes
of a packet, header first. A header at the front of a buffer has the right crc
exactly when the first `HeaderSize` bytes there are the first bytes of one
packet (`crc_valid`), so a header that starts in the middle of a packet, or is
put together from two, is refused. This leaves out what the values of bytes could
bring about: that the 32-bit sum collides, and that a content itself spells a header
with its crc. A receiver that looks for a header inside such a content (behind a
refused chat, or a packet whose start was dropped) would take it for one; what is
shown about framing holds of contents that do not. `content_size` is a number as the code uses it; the wrap of
`get_packet_size` at 2^32 is left out because no packet comes near it.
`calculate_crc` returns an rvalue reference to a local; it is modelled as
returning the value, which is what callers read from it in the builds the
project files describe.

The `while` loop of `handle_receive` leaves by a `break` in its first iteration
on every path. One call therefore has exactly one of four outcomes: not yet a
header (`ShortHeader`), a header that is cleared (`Refused`), a packet that is
not complete (`Incomplete`), a packet that is processed and then cleared with
whatever was read behind it (`Complete`). Both `mark += bytes` lines are
`KeepChunk`; the insertion at `begin() + mark` is `Filled`, bytes behind the
mark included.

### Framing

`wire` is what the peer has written and the receiver has not read. `Send`
writes one packet, `HandleReceive(n)` reads any `n` bytes that are there,
`HandleReceiveError` breaks the connection at any point, and `Reuse` is
`handle_accept` giving the session object to the next connection, where only
the mark is reset. The constants make it the server's receiver (12-byte
buffer, the limit applies to chats) or the client's (10-byte buffer, no limit).

### ChatServer

Every completion handler is one action, with all it calls: `HandleAccept`
(`init`, `post_receive`, `post_accept`), `HandleAcceptError`, `HandleReceive`
(reassembly, `process_packet`, the `post_send` on each target, `post_receive`),
`HandleReceiveError` (`close_session` and the `post_accept` in it),
`HandleWrite` (`pop_front` and the `post_send(true, ...)` behind it), and
`RunReturns`. `accepts`, `reads` and `writes` record the operations that have
been started and whose handler has not run. The peers are the environment:
they connect, write packets and close at any time, also before they are
accepted.

`post_send` pushes the pointer before it is assigned, so the queue holds null
pointers and only its length means anything; the model keeps the pushed value
`NULL` and lets `handle_write` end the server when it reads a header through it.
The text of a name is the number of the login packet that brought it, 0 for none: two
logins of one connection have different names, and `name_` is the last that was
processed on the session, of whichever connection.

Assumptions about asio that the actions contain: connections are accepted in
the order in which they arrive; the handlers of writes that `close_session`
aborts have run before the same session is accepted again, because they were
queued before that accept was posted (the guard `writes[s] = << >>` of
`HandleAccept`, which leaves the case of `server_session.cpp:97` on a system that
does otherwise without a property); a peer that is gone is seen by the read under way.

### ChatClient

The loop of `main` is four actions (`GetLine`, `is_connecting`, `is_logged_in`,
`PostSend`), so that the worker may run between any two of its calls; then
`StopService`, `CloseSocket` and `Join`. `post_send` and the critical section
of `handle_write` are single steps because both hold `lock_`. A write has three
stages: started, completed (`WriteCompletes`: it has reached the server, or
failed), handled (`HandleWrite`); the server may answer between the second and
the third. A write on a socket that is not connected fails at once, as
`WSASend` does on the platform of the project files. `HandleReceive(n)` covers
the reads that end in one packet being processed: with 10-byte reads the last
of them may take the start of the next packet (`torn`), what is left of that
one fails the crc and may take whole small packets with it; `Framing` has the
bytes. The server is the environment: it replies to logins, sends notices, may
close or break at any time.

`posted`, `written` and `overlapped` are history variables: the packets passed
to `post_send`, those that reached the server, and whether a packet was ever
posted while another was queued.

### HeaderCrc

`calculate_crc` step by step: `process_bytes` loads the remainder and stores it
again, `checksum` reads it, `reset` sets it. Of the remainder the model tells
apart that of nothing, that of exactly one header, and any other. The race on
it is undefined behaviour in C++; the model takes the outcomes of word-sized
loads and stores, which is what the compiler of the project files makes of them.

### WireFormat and PacketMessages

`WireFormat` writes and reads what the inline code of `coded_stream.h`,
`wire_format_lite.h` and `wire_format_lite_inl.h` does; bytes are numbers below 256
(`Bytes`), a field of a content is a `WireRecord`. `VarintSize32Fallback` is compiled
code: the number of digits. Numbers that need a fifth varint byte do not occur in the
contents of this program, so nothing is reduced modulo 2^32 and varints may have any
length.

In `PacketMessages` the state is a record: which objects are alive, their has
bits, string pointers, Boolean field and unknown fields, the heap, which of its
strings are allocated, and which the caller holds. Every generated method is an
operator from that record to the one it leaves, and the methods call each other
as in the code (`set_name` is `mutable_name` and an assignment, `CopyFrom` is
`Clear` and `MergeFrom`). The actions are the calls a program can make; a call is
made on the objects of one class, chosen in `Init`. All that the three string
classes do in the same way for a field is written once, with the field as a
parameter. `MergePartialFromCodedStream` takes one step per iteration of its
loop, with the jump from `name` to `message` in `ChatNotify` (`parse_message`) as
a label; a read that fails leaves the message as far as it got. `new` takes a
cell that is not allocated, `delete` gives it back; a call that allocates is
made only if there is one (`Room`), so running out of memory is not modelled. Groups
and fields of a wire type protoc does not know here end the parse or become unknown
fields as in `SkipField`, which is compiled code and external.

### ChatSystem

`ChatClient`, instantiated with variables of its own, takes the place of one peer
of `ChatServer`, and `ChatServer` that of the client's server. Where they
meet one step is a step of both: a write of the client that completes is
`PeerSend`, a connect is `Connect`, the close of either end is `PeerClose` and
`ServerCloses`. What an `async_write` of the server brings to the client is put
on its way by `ServerReaches`; the handler of that write runs later
(`ServerWritten`), so the client may answer first. The environment assumptions of
`ChatClient` are not taken over: that the server replies to logins only, once
each, and sends nothing else than notices is the property `ClientSpec`, the whole
specification of `ChatClient` as implemented by the composition. `OtherKinds` are the
headers the other peers send. `ChatClient` bounds the notices its server sends by
`MaxNotices`; the composition must not reach that bound, so `MaxSends <= MaxNotices` is
assumed.

## 3. The runs

State counts are distinct states. The type invariants of `Framing` and `ChatServer` are
proved (`TypeCorrect`) and not repeated here; that of `ChatServer` is checked again
inside `SystemTypeOK`.

| run | what it shows |
|---|---|
| `FramingServer` | Real sizes, a 3-byte login and a chat of 21 bytes (over the limit), three packets coalesced and split anywhere, two connections. `FirstArrives`, `StreamInv`, `LimitKeptAfterFirst`, `RefinesChannel`: packets may be lost, nothing else can happen to them; and `FrontIsProcessed`: not one that is lost was ever the next to be interpreted, unless it was over the limit or the connection broke (156,935 states). |
| `FramingPaced` | If a peer writes a packet only after the previous one has been read, and none is over the limit (one is exactly at it, one of a kind without a limit), every packet is processed (`NothingLost`, `EventuallyProcessed`), also on a session that is used again (65,172 states). |
| `FramingReuseLimit` | *Violated:* `LimitKept`. |
| `FramingCoalesced` | *Violated:* `NothingLost` without pacing. |
| `ChatServer` | Two sessions, three connections, failing accepts, peers that do anything: `OneReader`, `OneWrite`, `InBounds`, `PoolInv`, `EndsOnlyAfterFailure`, and `RefinesPool` (176,110 states). |
| `ChatServerQuiet` | Peers that write only when nothing is under way, no accept failing: the server survives (`Survives`), a notice carries the name its sender logged in with last, also on a session that had another; of a sender without a login none, or the one that a peer who is gone left in the session (`NoticeNamesSender`); everything owed arrives, waiting connections are accepted, sockets of peers that are gone are released (99,776 states). |
| `ChatServerBroadcast` | *Violated:* `EverythingArrives` when peers do not wait. |
| `ChatClient` | Four lines, one notice, connect may fail, the server may go at any time: `OneWrite`, `StuckOnlyByOverlap`, `StuckForGood`, `ChatNeedsLogin`, `RefinesChannel` (161,179 states). |
| `ChatClientPaced` | A user who waits until the client is settled: one login (`LoginOnce`), and every line is written and the client ready again (`EveryLineWritten`) (1,984 states). |
| `HeaderCrc` | Two threads, two headers: `AloneRight`, `Recovers` (12,618 states). |
| `PacketMessages` | Two objects of each class, any calls in any order, contents of other messages and of up to two wire records, whole or cut short: `OneOwner`, `EmptyStringIntact`, `NoStaleValue`, `SizesAgree`, `ParsedAsWritten`, `CutContent`, `CopyIsEqual` (180,361 states). |
| `ChatSystem` | A client that types up to three lines at a server with two sessions, and a second peer that chats and listens, each waiting until nothing is under way (`Quiet`): `SystemTypeOK`, `OwnName`, `ClientSpec`, `ShowsInOrder`, and `EveryLineShown` (413,221 states). |

### The three disagreements

- **A reused session skips the limit** (`FramingReuseLimit`). `session::init`
  resets only the mark. When a connection breaks inside a packet,
  `content_read_mode_` stays set, and the first packet of the next connection
  is processed without the check that the comment at `server_session.cpp:170`
  promises. `LimitKeptAfterFirst` shows that only the first packet of a
  connection can slip through.
- **Coalesced packets are lost** (`FramingCoalesced`). After a packet is
  processed the whole buffer is cleared, also the bytes of the next packet
  behind it (`server_session.cpp:198`), although the comment at line 141 says
  the buffer is filled "until content size".
- **The server ends on overlapping sends** (`ChatServerBroadcast`). `post_send`
  queues a null pointer (`server_session.cpp:62`), which `handle_write`
  dereferences if a second packet was posted before the first was written. The
  client has the same line but checks for null: there the queue stays blocked
  and no later line is sent (`StuckForGood`), and `StuckOnlyByOverlap` shows
  that this overlap is the only way into that state while the client is connected
  and not leaving. Without a connection there is another: after a failed connect, or
  the end of a connection, the worker thread leaves `io_service::run`, `is_open` may
  still be true, and the write of the next line fails with nobody to handle it.

One more loss follows from the code and contradicts no document: a chat over the
limit is refused when only its header has been read, its content then is taken
for headers, and packets behind it may be lost until one starts at the front of
an empty buffer. `FramingServer` has this case; `RefinesChannel` shows
that nothing but loss comes of it, `FrontIsProcessed` that the loss ends with the
first packet that starts there, and `FramingPaced` leaves it out because
`NothingLost` does not survive it.

### Bounds, and why they are enough

- *Packets and sizes.* A packet with a short and one with a long content, the
  latter at or just over the limit, reach every branch of `handle_receive`; three
  packets allow one to be lost, one to be damaged and one behind them. The
  server runs use a 2-byte header and 1-byte limit with 2-byte reads, in the
  proportion of the program's 12 and 12, since the real sizes are covered by
  `Framing`.
- *Sessions and connections.* Two sessions and three connections are the
  smallest numbers with which the pool is full while one connection waits, a
  session is used again, and a broadcast has another target than its sender.
- *Messages.* Two objects allow everything that involves another one. A field is
  set to one string, of a byte that is also a tag; contents have it, the empty string,
  and strings of 127 and of 128 bytes, where the length takes a second byte.
  Contents of two records reach every pair of
  consecutive paths through the parser, fields in the wrong order, doubled and
  unknown ones; with up to three bytes missing at the end (`MaxCut`) a cut may take a
  short record as a whole, or end inside one.
- *The system.* Three lines are a login, a second one typed before the reply, and a
  chat. All peers together send three packets, and a line is only typed if one is left
  (`Room`), so the other peer sends one before, between or behind them. The run has
  `Quiet = TRUE`: a packet is written when nothing is under way, since two close to
  each other end the server; so nothing crosses inside the server, only between
  its writes and the client's reads. Besides the client's own, when it leaves, one
  connection may end (`MaxGone`), before the first packet (`LastGone = 0`). None of the theorems about the system assumes `Quiet`
  or a bound on how many connections end or when.
- *Lines.* Four lines allow a login, a chat that overlaps, one more to observe
  that the queue is blocked, and one lost before. `MaxNotices = 1` puts a notice
  before or behind the reply.
- The bounds `MaxPackets`, `MaxConnections`, `MaxSends`, `MaxLines`, `MaxNotices`
  are guards of environment actions. The theorems hold for all their values.

Deadlock is not checked where the programs may stop: peers need not do anything
more, the server ends, the client ends. `HeaderCrc` never stops and is checked.

### Fairness

Weak fairness on the completion handlers only: `io_service::run` calls every
handler whose operation has completed, an accept when a connection waits, a
read when bytes are there or the peer is gone, a write because the other side
keeps reading. In the client also on the steps of `main` between two lines, on
the completion of operations by the operating system, and on the server's reply
to a login (`ChatServerQuiet` shows that it replies). Nothing is assumed about
users and peers: nobody has to type, connect, send, close or stay.

`ChatSystem` has three weak fairness conditions: the client's program runs on, the
server's runs on, and the network brings on what was written. Each is about a
disjunction, since one `io_service` and one thread choose among their handlers.
`EveryLineShown` names what it excepts: a line typed before the line ahead of it was
written, a packet sent while another was under way, a client that leaves and a
connection that ends.

*Paced* and *Quiet* are assumptions on the environment, not on the code. They
single out the use under which the programs work; the runs without them show
what happens otherwise.

## 4. The proofs

All theorems hold for every value of the constants allowed by the `ASSUME`s of
the modules: any number of sessions, connections, packets, packet sizes, header
and buffer sizes, lines and threads.

**`FramingProofs`** — `TypeCorrect`, `StreamUnbroken`, `ImplementsChannel`,
`FrontIsHandedOver`. The inductive invariant is `TypeOK /\ MarkInside /\
StreamInv`. That what is processed is a packet that was sent is not inductive alone: it
says nothing of the bytes not yet processed. `StreamInv` looks at `Ahead`, the bytes before the mark followed by
those on the wire, and says that they are a contiguous piece of the stream
(each packet in it runs to its end), that they lie behind everything processed,
and that in content read mode they begin with the first byte of a packet. Each
of the four outcomes drops a prefix of `Ahead` or leaves it as it is
(`BytesAhead`, `BytesRead`), both of which keep the three facts (`DropPrefix`,
`DropOrdered`); a complete packet at the front is then `build_packet` of a packet
that was sent (`FrontPacket`, `Delivery`). A reused session with a stale buffer
is covered because bytes behind the mark do not count. `FrontIsHandedOver`
adds that a packet at the front is never whole before the mark already (`FrontMark`):
it is processed by the read that completes it. The refinement maps a
processed packet to `Deliver` and a broken connection to `Break`.

**`ChatServerProofs`** — `TypeCorrect`, `PoolSound`, `SingleWrite`,
`SingleReader`, `PositionsInside`, `ImplementsPool`. The inductive invariant is
the conjunction of the five; `PoolInv` is stated so that it is inductive:
besides "one place per id" it needs that `is_accepting_` tells whether an accept
is under way (else `close_session` could start a second one) and that this
stays set after a failed accept. `SingleReader` is needed by the pool proof
(only an open session's handler calls `close_session`), `SingleWrite` holds even for
writes that a close left behind.

**`ChatClientProofs`** — `SingleWrite`, `StuckNeedsOverlap`, `StuckStays`,
`ChatAfterLogin`, `ImplementsChannel`. The invariant has four parts. `QueueInv`
ties the queue to the writes under way: one write at most, with a non-empty
queue, and equal lengths as long as no packet overlapped. `OrderInv` says that
packets are numbered as posted and a started write is behind all that reached
the server. `LoginInv` traces every sign of a login (the flag, a reply on its way,
the kind of packet `main` has decided on) back to a login that reached the server.
`ServeInv` is what keeps the worker thread in `io_service::run` while there is a
connection: its read is under way. Without it `StuckNeedsOverlap` could not exclude a
write that nobody handles.

**`HeaderCrcProofs`** — `RaceStaysLocal`, `RaceLeavesNothing`, `OneThreadRight`. The
invariant `AloneInv` states at each point of `calculate_crc` what a caller that is
alone relies on; `Recovers` gives it the initial remainder to start from.
`OneThreadRight` is the case of the server.

**`FramingProofs`**, continued — `FirstPacketArrives`, `LimitAfterFirst`,
`PacedPeerLosesNothing`. They add to the invariant where the
receiver stands in the stream: as long as the first packet of a connection is
not processed, what is ahead is the whole stream of the connection, so no read
boundary can hide it; in content read mode with something processed before on
this connection the header at the front was checked. Under `Paced`, and with no
packet over the limit (`ASSUME`s of the theorem), what is ahead always begins with
the first byte of a packet, and everything before it was processed.

**`ChatServerProofs`**, continued — `EndsWithFailure` needs that an accept is under way
or a session open unless one failed. `NoticesNameSender` needs that a
connection that has logged in and still has a session has its last name there, and that
a name left there belongs to a peer that is gone.

**`ChatServerProofs`**, continued — `QuietPeersSurvive`. With `Quiet` (an `ASSUME`) a packet is
sent when nothing is under way, so at most one is being read, and a session has at
most one write; the invariant counts, per session, what is to be read and what is
to be written.

**`ChatClientProofs`**, continued — `WaitingUserLogsInOnce`, with `Paced` as an `ASSUME`. The
invariant says that the reply of a login is unanswered, on its way, or has set
the flag, and that a paced user types nothing before it has (`AnswerInv`,
`LineInv`, `PacedInv`).

**`PacketMessagesProofs`** — `StringsHaveOneOwner`, `SharedStringStaysEmpty`,
`UnsetFieldsAreDefault`, for any number of objects, strings and fields' values. The
inductive invariant is `Good`, the three properties stated for any record of
the shape, with the has bits of a class inside its fields (else `Clear` would
miss one), and `RoomLeft`: the room for strings that parsing was begun with is
still there. What a string contains plays no part (`Shaped` fixes only the
shape), so nothing is needed of the recursive definitions of `WireFormat`. There is
one lemma for each way to update the record, one for each method, one for each
action. Not inductive alone: a string is emptied through its pointer, so
`NoStaleValue` needs `OneOwner`, and `OneOwner` needs that a dead object has no
strings.

**`WireFormatProofs`** — `SizeWritten`, `VarintRead`, `VarintCut`, for every number and
every string of bytes, and the lemmas about tags, records and sequences of records that
the next module builds on (`TagRead`, `RecordWritten`, `WrittenFirst`, `WriteJoin`).
What a recursive function computes needs induction, and the induction theorems of the
library are about predicates, which the provers here cannot instantiate. A set takes the
place of the predicate: the least element of a set of numbers comes from the
well-foundedness of `<` (`Least`), from it `StrongInduction`, `Induction` and `Ascent`,
whose hypotheses speak of a set and can be cited as they are. That a function with a
recursive definition exists at all is proved in the same way (`Recursion`,
`PrefixRecursion`), because `f[n \in Nat] == ...` is a `CHOOSE`.

**`MessageContentsProofs`** — `MessagesTyped`, `SizesAlwaysAgree`, `CopiesAreEqual`,
`ContentsAreParsed`, `CutContentsAreRefused`, for any objects, any strings and any
contents. The inductive invariant is `DataInv`: the one of `PacketMessagesProofs`,
`TypeOK`, and `ParseInv`, which says what the parser has done at each point of its loop.
`ParsedAsWritten` and `CutContent` speak only of the end of a parse and are far from
inductive. At a record (`AtRecord`) the bytes that are left are those of the records not
yet read without what is cut off (`Pending`), each field holds the last value that the
records read so far have for it (`ValuesHeld`), and the unknown fields are the other
ones, in order. At `parse_message` the tag has been taken off already, so the same is
said of the input with that byte put back. At the end there are two cases: what is
left ended behind a record (`DoneBehind`; of a whole content, the last), or inside one,
and each string is the beginning of one that was sent (`DoneRefused`). Which of the two
it is depends only on the number of bytes missing, because every record has some
(`RestShorter`). Even
`TypeOK` needs this: that the number of an unknown field is not 0 follows only from the
bytes being those of a record that was written. TLC checked `ParseInv` before it was
proved. `Holds` and `OtherRecords` state the properties in the words of the messages;
`TermsAgree` relates them to the operators of the proof, which have the class and the
content as parameters.

**`ChatSystemProofs`** — `ServerAsAlone`, `ServerAsExpected`, `SystemTyped`,
`ChatsUnderOwnName`, `ShownInOrder`. Every step of the system is a step of `ChatServer` or
changes nothing of it (`ServerAsAlone`), so what is proved of the server alone holds here;
and every step is one of `ChatClient` or changes nothing of that (`ServerAsExpected`,
which states `ClientSpec`): what `ChatClient` assumes of its server is what this server
does. The inductive invariant is `SysInv`, a conjunction of six parts.
`Inv` and `NamesInv` are those of the server. `WireInv` says that each packet can
be processed once only: a packet whose header is behind the reader is `Spent`, also when
bytes are lost or a mode is left over from another connection. `OutInv` says what kinds
of packets the server writes, `ClientInv` is the client's types, its one write, and the
count of its packets. `MeetingInv` ties the two ends together: a reply answers a login
that no other reply has answered (`ReplyInv`), each chat becomes one notice (`SaidInv`),
notices on their way are behind those already shown (`NoticeInv`), everything in the
client that stands for a login goes back to one at the server (`OwnInv`), and the
name there is that of the last login that was processed: a reply, on its way or
read, says that what is behind its login goes under it or a later one (`LoginInv`).
`OwnName` alone says nothing of the flag the client decides by, the flag nothing of the
reply that sets it, and the reply nothing of the name the server holds. Theorems cannot be cited through `INSTANCE`, so what is needed of the
client is proved about `Client!` directly. TLC checked `SysInv` before the proof.

Only model-checked: the liveness properties (`EventuallyProcessed`,
`EverythingArrives`, `WaitingAccepted`, `SocketReleased`, `EveryLineWritten`,
`EveryLineShown`), which are out of the prover's reach. Every other property of the
passing runs is stated by a theorem.

## 5. What is not modelled

- Of the generated code: the registration of descriptors when a program starts, the
  default instances, `New`, `GetMetadata` and the once-only initialisation of
  reflection. They run once, before `main`, or never in these programs.
- Of the protobuf runtime: everything but the encoding. Its headers are
  nine tenths of the lines of the repository, and descriptors, reflection,
  extensions, repeated fields, services and streams of other kinds are never
  called by these programs; what is called and is not inline is compiled code that
  is not here.
- Messages as the contents of the packets of `ChatServer`, `ChatClient` and
  `ChatSystem`: these know the kind, the sender and the number of a packet.
  `ParsedAsWritten` and `SizesAgree` are why that is enough, and `CutContent` says
  what is used of a content that is damaged. A name that contains a zero byte is
  cut there by `get_name`.
- Wrong checksums in `ChatServer`, `ChatClient` and `ChatSystem`. `HeaderCrc` shows
  that only calls of the client that overlap can be wrong; the packet is then lost, which
  `LossyChannel` allows and `EveryLineShown` takes not to happen.
- Who owns the packet an `async_write` reads. The queue does not hold it, so its
  last owner goes away in the call that starts the write, whatever else happens: there
  is no interleaving to explore, and whether the bytes are right depends only on
  whether the system takes them inside `async_write`. The models take the bytes of a
  write as they were when it was started.
- The two threads inside the client's `socket_` at once (`close` on both sides):
  each call is one step.
- Destructors, console output, `seq_number` (never used), project files.

## 6. Plan

Done, in this order: `Protocol`, `Reassembly`, `Framing`; `ChatServer`; `ChatClient`;
`HeaderCrc`; the proofs of each; `WireFormat`, `PacketMessages`; `ChatSystem`; the
loss, quiet, paced and message proofs; the proofs about the system; those about the
encoding and the contents of messages.

Next:

1. What follows from `SysInv` and no run states yet: a login is answered once at most,
   a chat becomes at most one notice.
2. `ChatServer` with the contents of messages in the place of kinds and numbers, now that
   what parsing gives back is proved.
