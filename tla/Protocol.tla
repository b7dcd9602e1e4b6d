------------------------------- MODULE Protocol -------------------------------
(***************************************************************************)
(* The wire format of Common/Protocol.h and Common/protocol.cpp.           *)
(*                                                                         *)
(* A packet is a record with at least the two header fields id and         *)
(* content_size.  A byte of the stream is a pair <<p, i>>: the i-th byte   *)
(* of packet p, the first HeaderSize bytes being its header.  This keeps   *)
(* what the receiver can tell apart (which packet a byte belongs to and    *)
(* where in it) and drops the value of the byte.                           *)
(***************************************************************************)
EXTENDS Naturals, Sequences

CONSTANT HeaderSize      \* sizeof(packet_header): 12 in the program

ASSUME HeaderSizeAssumption == HeaderSize \in Nat \ {0}

\* The packet ids of enum Packets.
PacketIds == {"REQUEST_LOGIN", "REPLY_LOGIN", "REQUEST_CHAT", "NOTICE_CHAT"}

\* packet_header::get_packet_size.  Packets made by build_packet are far
\* below 2^32, so the sum does not wrap.
get_packet_size(header) == header.content_size + HeaderSize

\* The bytes of the packet that build_packet allocates and stamps, once its
\* caller has serialised the content behind the header.
build_packet(p) == [i \in 1 .. get_packet_size(p) |-> <<p, i>>]

\* The packet whose header fields are read when a buffer is cast to
\* packet_header*: the code only does so on at least HeaderSize bytes.
header(buffer) == buffer[1][1]

\* calculate_crc() = crc_.  The crc covers the header alone; it is right when
\* the first HeaderSize bytes are one packet's header.  Two things the values of
\* bytes could bring about are left out: a collision of the 32-bit sum, and
\* content that itself spells a header with its crc, which the receiver would
\* take for one where it looks for a header inside a packet.
crc_valid(buffer) ==
    \A i \in 1 .. HeaderSize : buffer[i] = <<header(buffer), i>>

===============================================================================
