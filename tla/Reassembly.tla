------------------------------ MODULE Reassembly ------------------------------
(***************************************************************************)
(* How handle_receive turns the byte stream of a socket back into packets: *)
(* the packet buffer, its mark and the content read mode, which server     *)
(* sessions and the client keep in the same way.                           *)
(*                                                                         *)
(* The loop of handle_receive leaves by a break on every path of its first *)
(* iteration, so one call takes exactly one of four outcomes; each is an   *)
(* operator here, and the modules that own a socket add what the caller    *)
(* does with it.                                                           *)
(***************************************************************************)
EXTENDS Protocol

CONSTANTS
    Sessions,        \* the receivers, each with a packet buffer of its own
    LimitedIds,      \* ids whose content_size is limited: {"REQUEST_CHAT"} in
                     \* the server, {} in the client
    MaxChatLen       \* MAX_CHAT_MESSAGE_LEN

ASSUME MaxChatLenAssumption == MaxChatLen \in Nat

VARIABLES
    packet_buffer_,        \* std::vector<byte>: what has been copied so far
    packet_buffer_mark_,   \* where the next chunk is inserted
    content_read_mode_     \* the header at the front has been checked

rx_vars == <<packet_buffer_, packet_buffer_mark_, content_read_mode_>>

-------------------------------------------------------------------------------

\* A session object as constructed; init() sets the mark when it is accepted.
RxInit ==
    /\ packet_buffer_ = [s \in Sessions |-> << >>]
    /\ packet_buffer_mark_ = [s \in Sessions |-> 0]
    /\ content_read_mode_ = [s \in Sessions |-> FALSE]

\* Faulty variant of init: the mark is not reset either.
init_KeepsMark(s) == UNCHANGED rx_vars

\* session::init: only the mark is reset, the buffer and the mode stay as the
\* previous connection left them.
init(s) ==
    /\ packet_buffer_mark_' = [packet_buffer_mark_ EXCEPT ![s] = 0]
    /\ UNCHANGED <<packet_buffer_, content_read_mode_>>

\* Faulty variant of clear_packet_buffer: the mode is not reset.
clear_KeepsMode(s) ==
    /\ packet_buffer_mark_' = [packet_buffer_mark_ EXCEPT ![s] = 0]
    /\ packet_buffer_' = [packet_buffer_ EXCEPT ![s] = << >>]
    /\ UNCHANGED content_read_mode_

clear_packet_buffer(s) ==
    /\ content_read_mode_' = [content_read_mode_ EXCEPT ![s] = FALSE]
    /\ packet_buffer_mark_' = [packet_buffer_mark_ EXCEPT ![s] = 0]
    /\ packet_buffer_' = [packet_buffer_ EXCEPT ![s] = << >>]

\* Faulty variants of Filled: inserted at begin(), or at end().
Filled_AtBegin(s, chunk) == chunk \o packet_buffer_[s]
Filled_AtEnd(s, chunk) == packet_buffer_[s] \o chunk

\* The buffer after copy_n through the inserter at begin() + mark.
Filled(s, chunk) ==
    SubSeq(packet_buffer_[s], 1, packet_buffer_mark_[s])
        \o chunk
        \o SubSeq(packet_buffer_[s], packet_buffer_mark_[s] + 1, Len(packet_buffer_[s]))

packet_data_size(s, chunk) == packet_buffer_mark_[s] + Len(chunk)

\* Faulty variant of is_header_size_valid: off by one at the limit.
is_header_size_valid_Strict(h) == h.id \in LimitedIds => h.content_size < MaxChatLen

\* The switch on header->id_.
is_header_size_valid(h) == h.id \in LimitedIds => h.content_size <= MaxChatLen

\* The header at the front counts as checked: it was before, or it passes now.
HeaderPasses(s, chunk) ==
    \/ content_read_mode_[s]
    \/ /\ crc_valid(Filled(s, chunk))
       /\ is_header_size_valid(header(Filled(s, chunk)))

\* Faulty variants of KeepChunk: the mark counts from the end of the header, or
\* is moved by packet_data_size.
KeepChunk_ContentMark(s, chunk) ==
    /\ packet_buffer_' = [packet_buffer_ EXCEPT ![s] = Filled(s, chunk)]
    /\ packet_buffer_mark_' =
         [packet_buffer_mark_ EXCEPT ![s] = packet_data_size(s, chunk) - HeaderSize]
KeepChunk_DoubleMark(s, chunk) ==
    /\ packet_buffer_' = [packet_buffer_ EXCEPT ![s] = Filled(s, chunk)]
    /\ packet_buffer_mark_' =
         [packet_buffer_mark_ EXCEPT ![s] = @ + packet_data_size(s, chunk)]

KeepChunk(s, chunk) ==
    /\ packet_buffer_' = [packet_buffer_ EXCEPT ![s] = Filled(s, chunk)]
    /\ packet_buffer_mark_' =
         [packet_buffer_mark_ EXCEPT ![s] = packet_data_size(s, chunk)]

-------------------------------------------------------------------------------
(* The four outcomes of handle_receive without an error.                     *)

\* Not even a header yet.
ShortHeader(s, chunk) ==
    /\ packet_data_size(s, chunk) < HeaderSize
    /\ KeepChunk(s, chunk)
    /\ UNCHANGED content_read_mode_

\* Faulty variant of Refused: nothing is cleared.
Refused_NoClear(s, chunk) ==
    /\ packet_data_size(s, chunk) >= HeaderSize
    /\ ~HeaderPasses(s, chunk)
    /\ packet_buffer_' = [packet_buffer_ EXCEPT ![s] = Filled(s, chunk)]
    /\ UNCHANGED <<packet_buffer_mark_, content_read_mode_>>

\* A header whose crc is wrong or whose content is too long: everything read
\* so far is dropped.
Refused(s, chunk) ==
    /\ packet_data_size(s, chunk) >= HeaderSize
    /\ ~HeaderPasses(s, chunk)
    /\ clear_packet_buffer(s)

\* A checked header, part of the content still to come.
Incomplete(s, chunk) ==
    /\ packet_data_size(s, chunk) >= HeaderSize
    /\ HeaderPasses(s, chunk)
    /\ get_packet_size(header(Filled(s, chunk))) > packet_data_size(s, chunk)
    /\ KeepChunk(s, chunk)
    /\ content_read_mode_' = [content_read_mode_ EXCEPT ![s] = TRUE]

\* A whole packet is at the front: it goes to process_packet, and the whole
\* buffer is cleared, whatever follows the packet in it included.
Complete(s, chunk) ==
    /\ packet_data_size(s, chunk) >= HeaderSize
    /\ HeaderPasses(s, chunk)
    /\ get_packet_size(header(Filled(s, chunk))) <= packet_data_size(s, chunk)
    /\ clear_packet_buffer(s)

\* The bytes process_packet reads: the header and content_size_ bytes after it.
PacketBytes(s, chunk) ==
    SubSeq(Filled(s, chunk), 1, get_packet_size(header(Filled(s, chunk))))

===============================================================================
