------------------------------- MODULE SlotPool -------------------------------
(***************************************************************************)
(* What the server promises about its sessions: each is free, listening    *)
(* for one connection, or busy with one; while there is a free session one *)
(* is listening; and that ends for good when listening fails.              *)
(***************************************************************************)

CONSTANT Slots

VARIABLES free, listening, busy, failed

pool_vars == <<free, listening, busy, failed>>

PoolInit ==
    /\ \E s \in Slots : listening = {s} /\ free = Slots \ {s}
    /\ busy = {}
    /\ failed = FALSE

\* One of the sessions at hand starts to listen, if there is one.
Listen(available) ==
    \/ available = {} /\ listening' = {} /\ free' = {}
    \/ \E s \in available : listening' = {s} /\ free' = available \ {s}

Accept(s) ==
    /\ s \in listening
    /\ busy' = busy \cup {s}
    /\ Listen(free)
    /\ UNCHANGED failed

Release(s) ==
    /\ s \in busy
    /\ busy' = busy \ {s}
    /\ \/ listening = {} /\ ~failed /\ Listen(free \cup {s})
       \/ /\ listening # {} \/ failed
          /\ free' = free \cup {s}
          /\ UNCHANGED listening
    /\ UNCHANGED failed

Fail ==
    /\ listening # {}
    /\ listening' = {}
    /\ failed' = TRUE
    /\ UNCHANGED <<free, busy>>

PoolNext ==
    \/ \E s \in Slots : Accept(s) \/ Release(s)
    \/ Fail

PoolSpec == PoolInit /\ [][PoolNext]_pool_vars

===============================================================================
