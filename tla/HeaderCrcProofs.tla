-------------------------- MODULE HeaderCrcProofs ----------------------------
(***************************************************************************)
(* Proofs about HeaderCrc, for every set of threads and of headers.        *)
(***************************************************************************)
EXTENDS HeaderCrc, TLAPS

\* The inductive invariant.
Inv == TypeOK /\ AloneInv /\ Recovers

\* Every step of calculate_crc keeps what each caller relies on.
LEMMA InvStep == Inv /\ [Next]_vars => Inv'
<1> SUFFICES ASSUME Inv, [Next]_vars PROVE Inv'
  OBVIOUS
<1> USE DEF Inv, TypeOK, AloneInv, Recovers, Busy
<1>1. ASSUME NEW t \in Threads, NEW h \in Headers, Call(t, h) PROVE Inv'
  BY <1>1 DEF Call
<1>2. ASSUME NEW t \in Threads, Load(t) PROVE Inv'
  BY <1>2 DEF Load
<1>3. ASSUME NEW t \in Threads, Store(t) PROVE Inv'
  <2>1. crc' \in Remainders
    BY <1>3 DEF Store, fed, Remainders
  <2> QED
    BY <1>3, <2>1 DEF Store, fed
<1>4. ASSUME NEW t \in Threads, Checksum(t) PROVE Inv'
  BY <1>4 DEF Checksum
<1>5. ASSUME NEW t \in Threads, Reset(t) PROVE Inv'
  <2>1. INITIAL \in Remainders
    BY DEF Remainders
  <2> QED
    BY <1>5, <2>1 DEF Reset
<1>6. CASE UNCHANGED vars
  BY <1>6 DEF vars
<1> QED
  BY <1>1, <1>2, <1>3, <1>4, <1>5, <1>6 DEF Next

\* The conjunction Inv is inductive.
LEMMA Invariance == Spec => []Inv
<1>1. Init => Inv
  BY DEF Init, Inv, TypeOK, AloneInv, Recovers, Remainders, Busy
<1> QED
  BY <1>1, InvStep, PTL DEF Spec

\* A call of calculate_crc that no other call overlaps returns the crc of its
\* header, whatever raced before it.
THEOREM RaceStaysLocal == Spec => []AloneRight
<1>1. Inv => AloneRight
  BY DEF Inv, AloneInv, AloneRight
<1> QED
  BY <1>1, Invariance, PTL

\* When no call is under way the shared object is in its initial state.
THEOREM RaceLeavesNothing == Spec => []Recovers
<1>1. Inv => Recovers
  BY DEF Inv
<1> QED
  BY <1>1, Invariance, PTL

\* In a program with one thread, as the server is, every call is right.
THEOREM OneThreadRight ==
    ASSUME NEW t \in Threads, Threads = {t}
    PROVE  Spec => [](pc[t] = "reset" => ret[t] = this[t])
<1> DEFINE Single == Inv /\ (pc[t] # "idle" => alone[t])
<1>1. Init => Single
  <2>1. Init => Inv
    BY DEF Init, Inv, TypeOK, AloneInv, Recovers, Remainders, Busy
  <2> QED
    BY <2>1 DEF Init
<1>2. Single /\ [Next]_vars => Single'
  <2> SUFFICES ASSUME Single, [Next]_vars PROVE Single'
    OBVIOUS
  <2>1. Inv'
    BY InvStep
  <2>2. (pc[t] # "idle" => alone[t])'
    <3> USE DEF Inv, TypeOK
    <3>1. ASSUME NEW h \in Headers, Call(t, h) PROVE alone'[t]
      <4>1. Busy = {}
        BY <3>1 DEF Call, Busy
      <4> QED
        BY <3>1, <4>1 DEF Call
    <3>2. CASE Load(t) \/ Store(t) \/ Checksum(t) \/ Reset(t)
      <4>1. pc[t] # "idle"
        BY <3>2 DEF Load, Store, Checksum, Reset
      <4>2. alone' = alone
        BY <3>2 DEF Load, Store, Checksum, Reset
      <4> QED
        BY <4>1, <4>2
    <3>3. CASE UNCHANGED vars
      BY <3>3 DEF vars
    <3> QED
      BY <3>1, <3>2, <3>3 DEF Next
  <2> QED
    BY <2>1, <2>2
<1>3. Single => (pc[t] = "reset" => ret[t] = this[t])
  BY DEF Inv, AloneInv
<1> QED
  BY <1>1, <1>2, <1>3, PTL DEF Spec

===============================================================================
