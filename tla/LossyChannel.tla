----------------------------- MODULE LossyChannel -----------------------------
(***************************************************************************)
(* What the framing promises to the code behind it, and all it promises: a *)
(* channel that may lose messages, but that never delivers one that was    *)
(* not sent, nor a damaged one, nor one twice, nor two out of order, nor   *)
(* one that was sent before the connection last broke.                     *)
(***************************************************************************)
EXTENDS Naturals, Sequences

CONSTANT Message

VARIABLES
    sent,        \* every message sent so far, in order
    delivered,   \* the messages delivered so far, in order
    last         \* messages up to this position can no longer be delivered

channel_vars == <<sent, delivered, last>>

ChannelInit == sent = << >> /\ delivered = << >> /\ last = 0

Transmit(m) ==
    /\ sent' = Append(sent, m)
    /\ UNCHANGED <<delivered, last>>

\* The message at position k is delivered and those before it are given up.
Deliver(k) ==
    /\ last < k
    /\ delivered' = Append(delivered, sent[k])
    /\ last' = k
    /\ UNCHANGED sent

\* The connection breaks: what is still on its way never arrives.
Break ==
    /\ last' = Len(sent)
    /\ UNCHANGED <<sent, delivered>>

ChannelNext ==
    \/ \E m \in Message : Transmit(m)
    \/ \E k \in 1 .. Len(sent) : Deliver(k)
    \/ Break

ChannelSpec == ChannelInit /\ [][ChannelNext]_channel_vars

===============================================================================
