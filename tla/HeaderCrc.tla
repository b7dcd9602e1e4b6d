------------------------------ MODULE HeaderCrc -------------------------------
(***************************************************************************)
(* packet_header::calculate_crc and the one crc object of protocol.cpp     *)
(* that all threads of a program share without a lock: in the client the   *)
(* main thread builds packets while the worker thread checks what arrives; *)
(* the server has one thread.                                              *)
(*                                                                         *)
(* Of the remainder that crc keeps the model tells apart: that of no bytes,*)
(* that of exactly one header, and any other.  process_bytes loads it and  *)
(* stores it again; another thread may run at every point in between.      *)
(***************************************************************************)

CONSTANTS
    Threads,
    Headers,
    INITIAL,     \* the remainder after reset
    MIXED        \* the remainder of anything but one header

ASSUME RemainderAssumption == INITIAL \notin Headers /\ MIXED \notin Headers

Remainders == Headers \cup {INITIAL, MIXED}

VARIABLES
    crc,         \* the remainder of the shared object
    pc,          \* where in calculate_crc each thread is, "idle" outside it
    this,        \* the header each thread's call is for
    local,       \* the remainder process_bytes works on
    ret,         \* what checksum returned in each thread's last call
    alone        \* history: nobody else was in calculate_crc during the call

vars == <<crc, pc, this, local, ret, alone>>

Busy == {t \in Threads : pc[t] # "idle"}

\* The remainder after one more header: no two inputs share a checksum.
fed(remainder, h) == IF remainder = INITIAL THEN h ELSE MIXED

Init ==
    /\ crc = INITIAL
    /\ pc = [t \in Threads |-> "idle"]
    /\ this \in [Threads -> Headers]
    /\ local = [t \in Threads |-> INITIAL]
    /\ ret = [t \in Threads |-> INITIAL]
    /\ alone = [t \in Threads |-> FALSE]

\* build_packet or handle_receive calls calculate_crc on a header.
Call(t, h) ==
    /\ pc[t] = "idle"
    /\ pc' = [pc EXCEPT ![t] = "load"]
    /\ this' = [this EXCEPT ![t] = h]
    /\ alone' = [u \in Threads |-> u = t /\ Busy = {}]
    /\ UNCHANGED <<crc, local, ret>>

\* crc.process_bytes(&id_, ...).
Load(t) ==
    /\ pc[t] = "load"
    /\ local' = [local EXCEPT ![t] = crc]
    /\ pc' = [pc EXCEPT ![t] = "store"]
    /\ UNCHANGED <<crc, this, ret, alone>>

Store(t) ==
    /\ pc[t] = "store"
    /\ crc' = fed(local[t], this[t])
    /\ pc' = [pc EXCEPT ![t] = "checksum"]
    /\ UNCHANGED <<this, local, ret, alone>>

\* ret = crc.checksum().
Checksum(t) ==
    /\ pc[t] = "checksum"
    /\ ret' = [ret EXCEPT ![t] = crc]
    /\ pc' = [pc EXCEPT ![t] = "reset"]
    /\ UNCHANGED <<crc, this, local, alone>>

\* Faulty variant of Reset: the object is left as it is.
Reset_Keeps(t) ==
    /\ pc[t] = "reset"
    /\ pc' = [pc EXCEPT ![t] = "idle"]
    /\ UNCHANGED <<crc, this, local, ret, alone>>

\* crc.reset(), and the call returns.
Reset(t) ==
    /\ pc[t] = "reset"
    /\ crc' = INITIAL
    /\ pc' = [pc EXCEPT ![t] = "idle"]
    /\ UNCHANGED <<this, local, ret, alone>>

Next ==
    \/ \E t \in Threads, h \in Headers : Call(t, h)
    \/ \E t \in Threads : Load(t)
    \/ \E t \in Threads : Store(t)
    \/ \E t \in Threads : Checksum(t)
    \/ \E t \in Threads : Reset(t)

Spec == Init /\ [][Next]_vars

-------------------------------------------------------------------------------
(* Properties.                                                               *)

TypeOK ==
    /\ crc \in Remainders
    /\ pc \in [Threads -> {"idle", "load", "store", "checksum", "reset"}]
    /\ this \in [Threads -> Headers]
    /\ local \in [Threads -> Remainders]
    /\ ret \in [Threads -> Remainders]
    /\ alone \in [Threads -> BOOLEAN]

\* A call that no other overlaps returns the crc of its header, whatever calls
\* have raced before it: a race damages only the calls that take part in it.
AloneRight ==
    \A t \in Threads : (alone[t] /\ pc[t] = "reset") => ret[t] = this[t]

\* Races leave nothing behind: when no call is under way the object is reset,
\* whatever was lost or stored late.
Recovers == Busy = {} => crc = INITIAL

\* Why AloneRight holds: who is alone sees its own steps only.
AloneInv ==
    \A t \in Threads : alone[t] =>
        /\ Busy \subseteq {t}
        /\ pc[t] = "load" => crc = INITIAL
        /\ pc[t] = "store" => local[t] = INITIAL
        /\ pc[t] = "checksum" => crc = this[t]
        /\ pc[t] = "reset" => ret[t] = this[t]

===============================================================================
