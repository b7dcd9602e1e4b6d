------------------------- MODULE PacketMessagesProofs -------------------------
(***************************************************************************)
(* Theorems about PacketMessages: who owns the strings of the messages,    *)
(* that the empty string all of them share is never written, and that a    *)
(* field that is not set holds nothing old.                                *)
(*                                                                         *)
(* What a string contains is not part of the argument: the invariant only  *)
(* says that the heap is a function.  The first section has one lemma for  *)
(* each way a method updates the state, the second one for each method,    *)
(* the last one for the actions.                                           *)
(***************************************************************************)
EXTENDS PacketMessages, TLAPS

FieldNames == StringFields \cup {"success"}

\* The shape of the state, whatever the values V of the strings and U of the
\* sequences of unknown fields are.
States(V, U) ==
    [alive : SUBSET Objects,
     has : [Objects -> SUBSET FieldNames],
     ptr : [Objects -> [StringFields -> Cells \cup {kEmptyString}]],
     success : [Objects -> BOOLEAN],
     unknown : [Objects -> U],
     heap : [Cells \cup {kEmptyString} -> V],
     allocated : SUBSET Cells,
     held : SUBSET Cells]

Shaped(s) == \E V, U : << >> \in V /\ << >> \in U /\ s \in States(V, U)

-------------------------------------------------------------------------------
(* The ways to update the state.                                             *)

\* What a state of the shape has.
LEMMA ShapeParts ==
    ASSUME NEW s, Shaped(s)
    PROVE  /\ s.alive \subseteq Objects
           /\ s.has \in [Objects -> SUBSET FieldNames]
           /\ s.ptr \in [Objects -> [StringFields -> Cells \cup {kEmptyString}]]
           /\ s.success \in [Objects -> BOOLEAN]
           /\ DOMAIN s.heap = Cells \cup {kEmptyString}
           /\ s.allocated \subseteq Cells
           /\ s.held \subseteq Cells
<1> PICK V, U : << >> \in V /\ << >> \in U /\ s \in States(V, U)
  BY DEF Shaped
<1> QED
  BY DEF States

\* The bits of an object are assigned.
SetBits(s, o, h) == [s EXCEPT !.has[o] = h]

BitsSet(s, t, o, h) ==
    /\ Shaped(t)
    /\ \A p \in Objects : t.has[p] = IF p = o THEN h ELSE s.has[p]
    /\ t.alive = s.alive /\ t.ptr = s.ptr /\ t.success = s.success
    /\ t.heap = s.heap /\ t.allocated = s.allocated /\ t.held = s.held

LEMMA BitsUpdate ==
    ASSUME NEW s, Shaped(s), NEW o \in Objects, NEW h \in SUBSET FieldNames
    PROVE  BitsSet(s, SetBits(s, o, h), o, h)
<1> PICK V, U : << >> \in V /\ << >> \in U /\ s \in States(V, U)
  BY DEF Shaped
<1> DEFINE t == SetBits(s, o, h)
<1>1. t \in States(V, U)
  BY DEF States, SetBits
<1>2. /\ \A p \in Objects : t.has[p] = IF p = o THEN h ELSE s.has[p]
      /\ t.alive = s.alive /\ t.ptr = s.ptr /\ t.success = s.success
      /\ t.heap = s.heap /\ t.allocated = s.allocated /\ t.held = s.held
  BY DEF States, SetBits
<1> HIDE DEF t
<1> QED
  BY <1>1, <1>2 DEF Shaped, BitsSet, t

\* A string is made for a field.
Make(s, o, f, n) ==
    [s EXCEPT !.ptr[o][f] = n,
              !.heap[n] = << >>,
              !.allocated = @ \cup {n}]

Made(s, t, o, f, n) ==
    /\ Shaped(t)
    /\ \A p \in Objects, g \in StringFields :
          t.ptr[p][g] = IF p = o /\ g = f THEN n ELSE s.ptr[p][g]
    /\ \A d \in Cells \cup {kEmptyString} :
          t.heap[d] = IF d = n THEN << >> ELSE s.heap[d]
    /\ t.allocated = s.allocated \cup {n}
    /\ t.alive = s.alive /\ t.has = s.has /\ t.success = s.success
    /\ t.held = s.held

LEMMA MakeUpdate ==
    ASSUME NEW s, Shaped(s), NEW o \in Objects, NEW f \in StringFields,
           NEW n \in Cells
    PROVE  Made(s, Make(s, o, f, n), o, f, n)
<1> PICK V, U : << >> \in V /\ << >> \in U /\ s \in States(V, U)
  BY DEF Shaped
<1> DEFINE t == Make(s, o, f, n)
<1>1. t \in States(V, U)
  BY DEF States, Make
<1>2. /\ \A p \in Objects, g \in StringFields :
            t.ptr[p][g] = IF p = o /\ g = f THEN n ELSE s.ptr[p][g]
      /\ \A d \in Cells \cup {kEmptyString} :
            t.heap[d] = IF d = n THEN << >> ELSE s.heap[d]
      /\ t.allocated = s.allocated \cup {n}
      /\ t.alive = s.alive /\ t.has = s.has /\ t.success = s.success
      /\ t.held = s.held
  BY DEF States, Make
<1> HIDE DEF t
<1> QED
  BY <1>1, <1>2 DEF Shaped, Made, t

\* A string is written.
Write(s, c, value) == [s EXCEPT !.heap[c] = value]

Written(s, t, c, value) ==
    /\ Shaped(t)
    /\ \A d \in Cells \cup {kEmptyString} :
          t.heap[d] = IF d = c THEN value ELSE s.heap[d]
    /\ t.alive = s.alive /\ t.has = s.has /\ t.ptr = s.ptr
    /\ t.success = s.success /\ t.allocated = s.allocated /\ t.held = s.held

LEMMA WriteUpdate ==
    ASSUME NEW s, Shaped(s), NEW c \in Cells, NEW value
    PROVE  Written(s, Write(s, c, value), c, value)
<1> PICK V, U : << >> \in V /\ << >> \in U /\ s \in States(V, U)
  BY DEF Shaped
<1> DEFINE t == Write(s, c, value)
<1> DEFINE W == V \cup {value}
<1>0. << >> \in W /\ s \in States(W, U)
  BY DEF States
<1> HIDE DEF W
<1>w. value \in W
  BY DEF W
<1>1. t \in States(W, U)
  BY <1>0, <1>w DEF States, Write
<1>2. /\ \A d \in Cells \cup {kEmptyString} :
            t.heap[d] = IF d = c THEN value ELSE s.heap[d]
      /\ t.alive = s.alive /\ t.has = s.has /\ t.ptr = s.ptr
      /\ t.success = s.success /\ t.allocated = s.allocated /\ t.held = s.held
  BY DEF States, Write
<1> HIDE DEF t
<1> QED
  BY <1>0, <1>1, <1>2 DEF Shaped, Written, t

\* A field gets another string, and the bits and the strings held change.
Move(s, o, f, c, h, H) == [s EXCEPT !.has[o] = h, !.ptr[o][f] = c, !.held = H]

Moved(s, t, o, f, c, h, H) ==
    /\ Shaped(t)
    /\ \A p \in Objects : t.has[p] = IF p = o THEN h ELSE s.has[p]
    /\ \A p \in Objects, g \in StringFields :
          t.ptr[p][g] = IF p = o /\ g = f THEN c ELSE s.ptr[p][g]
    /\ t.held = H
    /\ t.alive = s.alive /\ t.success = s.success /\ t.heap = s.heap
    /\ t.allocated = s.allocated

LEMMA MoveUpdate ==
    ASSUME NEW s, Shaped(s), NEW o \in Objects, NEW f \in StringFields,
           NEW c \in Cells \cup {kEmptyString}, NEW h \in SUBSET FieldNames, NEW H \in SUBSET Cells
    PROVE  Moved(s, Move(s, o, f, c, h, H), o, f, c, h, H)
<1> PICK V, U : << >> \in V /\ << >> \in U /\ s \in States(V, U)
  BY DEF Shaped
<1> DEFINE t == Move(s, o, f, c, h, H)
<1>1. t \in States(V, U)
  BY DEF States, Move
<1>2. /\ \A p \in Objects : t.has[p] = IF p = o THEN h ELSE s.has[p]
      /\ \A p \in Objects, g \in StringFields :
            t.ptr[p][g] = IF p = o /\ g = f THEN c ELSE s.ptr[p][g]
      /\ t.held = H
      /\ t.alive = s.alive /\ t.success = s.success /\ t.heap = s.heap
      /\ t.allocated = s.allocated
  BY DEF States, Move
<1> HIDE DEF t
<1> QED
  BY <1>1, <1>2 DEF Shaped, Moved, t

\* A string is deleted.
Remove(s, c) == [s EXCEPT !.heap[c] = << >>, !.allocated = @ \ {c}]

Removed(s, t, c) ==
    /\ Shaped(t)
    /\ \A d \in Cells \cup {kEmptyString} :
          t.heap[d] = IF d = c THEN << >> ELSE s.heap[d]
    /\ t.allocated = s.allocated \ {c}
    /\ t.alive = s.alive /\ t.has = s.has /\ t.ptr = s.ptr
    /\ t.success = s.success /\ t.held = s.held

LEMMA DeleteUpdate ==
    ASSUME NEW s, Shaped(s), NEW c \in Cells
    PROVE  Removed(s, Remove(s, c), c)
<1> PICK V, U : << >> \in V /\ << >> \in U /\ s \in States(V, U)
  BY DEF Shaped
<1> DEFINE t == Remove(s, c)
<1>1. t \in States(V, U)
  BY DEF States, Remove
<1>2. /\ \A d \in Cells \cup {kEmptyString} :
            t.heap[d] = IF d = c THEN << >> ELSE s.heap[d]
      /\ t.allocated = s.allocated \ {c}
      /\ t.alive = s.alive /\ t.has = s.has /\ t.ptr = s.ptr
      /\ t.success = s.success /\ t.held = s.held
  BY DEF States, Remove
<1> HIDE DEF t
<1> QED
  BY <1>1, <1>2 DEF Shaped, Removed, t

\* The Boolean field is assigned, and the bits.
Succeed(s, o, b, h) == [s EXCEPT !.success[o] = b, !.has[o] = h]

Succeeded(s, t, o, b, h) ==
    /\ Shaped(t)
    /\ \A p \in Objects : t.success[p] = IF p = o THEN b ELSE s.success[p]
    /\ \A p \in Objects : t.has[p] = IF p = o THEN h ELSE s.has[p]
    /\ t.alive = s.alive /\ t.ptr = s.ptr /\ t.heap = s.heap
    /\ t.allocated = s.allocated /\ t.held = s.held

LEMMA SuccessUpdate ==
    ASSUME NEW s, Shaped(s), NEW o \in Objects, NEW b \in BOOLEAN,
           NEW h \in SUBSET FieldNames
    PROVE  Succeeded(s, Succeed(s, o, b, h), o, b, h)
<1> PICK V, U : << >> \in V /\ << >> \in U /\ s \in States(V, U)
  BY DEF Shaped
<1> DEFINE t == Succeed(s, o, b, h)
<1>1. t \in States(V, U)
  BY DEF States, Succeed
<1>2. /\ \A p \in Objects : t.success[p] = IF p = o THEN b ELSE s.success[p]
      /\ \A p \in Objects : t.has[p] = IF p = o THEN h ELSE s.has[p]
      /\ t.alive = s.alive /\ t.ptr = s.ptr /\ t.heap = s.heap
      /\ t.allocated = s.allocated /\ t.held = s.held
  BY DEF States, Succeed
<1> HIDE DEF t
<1> QED
  BY <1>1, <1>2 DEF Shaped, Succeeded, t

\* The bits and the unknown fields are cleared.
Empty(s, o) == [s EXCEPT !.has[o] = {}, !.unknown[o] = << >>]

Emptied(s, t, o) ==
    /\ Shaped(t)
    /\ \A p \in Objects : t.has[p] = IF p = o THEN {} ELSE s.has[p]
    /\ t.alive = s.alive /\ t.ptr = s.ptr /\ t.success = s.success
    /\ t.heap = s.heap /\ t.allocated = s.allocated /\ t.held = s.held

LEMMA EmptiedUpdate ==
    ASSUME NEW s, Shaped(s), NEW o \in Objects
    PROVE  Emptied(s, Empty(s, o), o)
<1> PICK V, U : << >> \in V /\ << >> \in U /\ s \in States(V, U)
  BY DEF Shaped
<1> DEFINE t == Empty(s, o)
<1>1. t \in States(V, U)
  BY DEF States, Empty
<1>2. /\ \A p \in Objects : t.has[p] = IF p = o THEN {} ELSE s.has[p]
      /\ t.alive = s.alive /\ t.ptr = s.ptr /\ t.success = s.success
      /\ t.heap = s.heap /\ t.allocated = s.allocated /\ t.held = s.held
  BY DEF States, Empty
<1> HIDE DEF t
<1> QED
  BY <1>1, <1>2 DEF Shaped, Emptied, t

\* An object is made, or is no more: A are those alive.
Blank(s, o, A) ==
    [s EXCEPT !.alive = A,
              !.has[o] = {},
              !.success[o] = FALSE,
              !.unknown[o] = << >>,
              !.ptr[o] = [f \in StringFields |-> kEmptyString]]

Blanked(s, t, o, A) ==
    /\ Shaped(t)
    /\ t.alive = A
    /\ \A p \in Objects : t.has[p] = IF p = o THEN {} ELSE s.has[p]
    /\ \A p \in Objects : t.success[p] = IF p = o THEN FALSE ELSE s.success[p]
    /\ \A p \in Objects, g \in StringFields :
          t.ptr[p][g] = IF p = o THEN kEmptyString ELSE s.ptr[p][g]
    /\ t.heap = s.heap /\ t.allocated = s.allocated /\ t.held = s.held

LEMMA BlankUpdate ==
    ASSUME NEW s, Shaped(s), NEW o \in Objects, NEW A \in SUBSET Objects
    PROVE  Blanked(s, Blank(s, o, A), o, A)
<1> PICK V, U : << >> \in V /\ << >> \in U /\ s \in States(V, U)
  BY DEF Shaped
<1> DEFINE t == Blank(s, o, A)
<1>1. t \in States(V, U)
  BY DEF States, Blank
<1>2. /\ t.alive = A
      /\ \A p \in Objects : t.has[p] = IF p = o THEN {} ELSE s.has[p]
      /\ \A p \in Objects : t.success[p] = IF p = o THEN FALSE ELSE s.success[p]
      /\ \A p \in Objects, g \in StringFields :
            t.ptr[p][g] = IF p = o THEN kEmptyString ELSE s.ptr[p][g]
      /\ t.heap = s.heap /\ t.allocated = s.allocated /\ t.held = s.held
  BY DEF States, Blank
<1> HIDE DEF t
<1> QED
  BY <1>1, <1>2 DEF Shaped, Blanked, t

\* The caller makes a string.
Keep(s, n, value) ==
    [s EXCEPT !.heap[n] = value,
              !.allocated = @ \cup {n},
              !.held = @ \cup {n}]

Kept(s, t, n, value) ==
    /\ Shaped(t)
    /\ \A d \in Cells \cup {kEmptyString} :
          t.heap[d] = IF d = n THEN value ELSE s.heap[d]
    /\ t.allocated = s.allocated \cup {n}
    /\ t.held = s.held \cup {n}
    /\ t.alive = s.alive /\ t.has = s.has /\ t.ptr = s.ptr
    /\ t.success = s.success

LEMMA HoldUpdate ==
    ASSUME NEW s, Shaped(s), NEW n \in Cells, NEW value
    PROVE  Kept(s, Keep(s, n, value), n, value)
<1> PICK V, U : << >> \in V /\ << >> \in U /\ s \in States(V, U)
  BY DEF Shaped
<1> DEFINE t == Keep(s, n, value)
<1> DEFINE W == V \cup {value}
<1>0. << >> \in W /\ s \in States(W, U)
  BY DEF States
<1> HIDE DEF W
<1>w. value \in W
  BY DEF W
<1>1. t \in States(W, U)
  BY <1>0, <1>w DEF States, Keep
<1>2. /\ \A d \in Cells \cup {kEmptyString} :
            t.heap[d] = IF d = n THEN value ELSE s.heap[d]
      /\ t.allocated = s.allocated \cup {n}
      /\ t.held = s.held \cup {n}
      /\ t.alive = s.alive /\ t.has = s.has /\ t.ptr = s.ptr
      /\ t.success = s.success
  BY DEF States, Keep
<1> HIDE DEF t
<1> QED
  BY <1>0, <1>1, <1>2 DEF Shaped, Kept, t

\* The caller holds other strings.
Hold(s, H) == [s EXCEPT !.held = H]

Held(s, t, H) ==
    /\ Shaped(t)
    /\ t.held = H
    /\ t.alive = s.alive /\ t.has = s.has /\ t.ptr = s.ptr
    /\ t.success = s.success /\ t.heap = s.heap /\ t.allocated = s.allocated

LEMMA HeldUpdate ==
    ASSUME NEW s, Shaped(s), NEW H \in SUBSET Cells
    PROVE  Held(s, Hold(s, H), H)
<1> PICK V, U : << >> \in V /\ << >> \in U /\ s \in States(V, U)
  BY DEF Shaped
<1> DEFINE t == Hold(s, H)
<1>1. t \in States(V, U)
  BY DEF States, Hold
<1>2. /\ t.held = H
      /\ t.alive = s.alive /\ t.has = s.has /\ t.ptr = s.ptr
      /\ t.success = s.success /\ t.heap = s.heap /\ t.allocated = s.allocated
  BY DEF States, Hold
<1> HIDE DEF t
<1> QED
  BY <1>1, <1>2 DEF Shaped, Held, t

\* The unknown fields of an object are assigned.
Extend(s, o, x) == [s EXCEPT !.unknown[o] = x]

Extended(s, t, o, x) ==
    /\ Shaped(t)
    /\ t.alive = s.alive /\ t.has = s.has /\ t.ptr = s.ptr
    /\ t.success = s.success /\ t.heap = s.heap /\ t.allocated = s.allocated
    /\ t.held = s.held

LEMMA UnknownUpdate ==
    ASSUME NEW s, Shaped(s), NEW o \in Objects, NEW x
    PROVE  Extended(s, Extend(s, o, x), o, x)
<1> PICK V, U : << >> \in V /\ << >> \in U /\ s \in States(V, U)
  BY DEF Shaped
<1> DEFINE t == Extend(s, o, x)
<1> DEFINE W == U \cup {x}
<1>0. << >> \in W /\ s \in States(V, W)
  BY DEF States
<1> HIDE DEF W
<1>w. x \in W
  BY DEF W
<1>1. t \in States(V, W)
  BY <1>0, <1>w DEF States, Extend
<1>2. /\ t.alive = s.alive /\ t.has = s.has /\ t.ptr = s.ptr
      /\ t.success = s.success /\ t.heap = s.heap /\ t.allocated = s.allocated
      /\ t.held = s.held
  BY DEF States, Extend
<1> HIDE DEF t
<1> QED
  BY <1>0, <1>1, <1>2 DEF Shaped, Extended, t

\* Two objects are swapped.
Exchange(s, o, p) ==
    [s EXCEPT !.has = swapped(o, p, @),
              !.ptr = swapped(o, p, @),
              !.success = swapped(o, p, @),
              !.unknown = swapped(o, p, @)]

Exchanged(s, t, o, p) ==
    /\ Shaped(t)
    /\ \A q \in Objects : t.has[q] = IF q = o THEN s.has[p]
          ELSE IF q = p THEN s.has[o] ELSE s.has[q]
    /\ \A q \in Objects : t.ptr[q] = IF q = o THEN s.ptr[p]
          ELSE IF q = p THEN s.ptr[o] ELSE s.ptr[q]
    /\ \A q \in Objects : t.success[q] = IF q = o THEN s.success[p]
          ELSE IF q = p THEN s.success[o] ELSE s.success[q]
    /\ t.alive = s.alive /\ t.heap = s.heap /\ t.allocated = s.allocated
    /\ t.held = s.held

LEMMA SwapUpdate ==
    ASSUME NEW s, Shaped(s), NEW o \in Objects, NEW p \in Objects
    PROVE  Exchanged(s, Exchange(s, o, p), o, p)
<1> PICK V, U : << >> \in V /\ << >> \in U /\ s \in States(V, U)
  BY DEF Shaped
<1> DEFINE t == Exchange(s, o, p)
<1>1. t \in States(V, U)
  BY DEF States, Exchange, swapped
<1>2. /\ \A q \in Objects : t.has[q] = IF q = o THEN s.has[p]
            ELSE IF q = p THEN s.has[o] ELSE s.has[q]
      /\ \A q \in Objects : t.ptr[q] = IF q = o THEN s.ptr[p]
            ELSE IF q = p THEN s.ptr[o] ELSE s.ptr[q]
      /\ \A q \in Objects : t.success[q] = IF q = o THEN s.success[p]
            ELSE IF q = p THEN s.success[o] ELSE s.success[q]
      /\ t.alive = s.alive /\ t.heap = s.heap /\ t.allocated = s.allocated
      /\ t.held = s.held
  BY DEF States, Exchange, swapped
<1> HIDE DEF t
<1> QED
  BY <1>1, <1>2 DEF Shaped, Exchanged, t

-------------------------------------------------------------------------------
(* The invariant.                                                            *)

\* The fields of each class.
Fields == [LoginRequest |-> {"name"}, LoginResponse |-> {"success"},
           ChatRequest |-> {"message"}, ChatNotify |-> {"name", "message"}]

\* OneOwner, of any state.
Owned(s) ==
    /\ \A c \in Cells :
          c \in s.allocated <=>
              \/ c \in s.held
              \/ \E o \in Objects, f \in StringFields : s.ptr[o][f] = c
    /\ \A o \in Objects, f \in StringFields :
          s.ptr[o][f] # kEmptyString =>
              /\ o \in s.alive /\ s.ptr[o][f] \notin s.held
              /\ \A p \in Objects, g \in StringFields :
                    s.ptr[p][g] = s.ptr[o][f] => p = o /\ g = f

\* EmptyStringIntact and NoStaleValue, of any state.
Clean(s) ==
    /\ s.heap[kEmptyString] = << >>
    /\ \A o \in Objects, f \in StringFields :
          f \notin s.has[o] => s.heap[s.ptr[o][f]] = << >>
    /\ \A o \in Objects : "success" \notin s.has[o] => ~s.success[o]

\* No bit is set of a field that is not in F.
Bits(s, F) == \A o \in Objects : s.has[o] \subseteq F

Good(s, F) == Shaped(s) /\ Owned(s) /\ Clean(s) /\ Bits(s, F)

\* Room, of any state.
Space(s, o, G) ==
    LET needing == {f \in G : s.ptr[o][f] = kEmptyString} IN
    \E c \in [needing -> Cells \ s.allocated] :
        \A f, g \in needing : c[f] = c[g] => f = g

\* What setting field f of o does to the strings: one is made if there is none.
Grown(s, t, o, f) ==
    \/ /\ s.ptr[o][f] # kEmptyString
       /\ t.ptr = s.ptr /\ t.allocated = s.allocated
    \/ /\ s.ptr[o][f] = kEmptyString
       /\ \E n \in Cells \ s.allocated :
             /\ \A p \in Objects, g \in StringFields :
                   t.ptr[p][g] = IF p = o /\ g = f THEN n ELSE s.ptr[p][g]
             /\ t.allocated = s.allocated \cup {n}

\* Where there is room for a field there is a free cell, and setting the field
\* leaves room for the others.
LEMMA SpaceLeft ==
    ASSUME NEW s, Shaped(s), NEW t, NEW o \in Objects,
           NEW G \in SUBSET StringFields, NEW f \in G,
           Space(s, o, G), Grown(s, t, o, f)
    PROVE  Space(t, o, G)
<1>0. /\ s.ptr \in [Objects -> [StringFields -> Cells \cup {kEmptyString}]]
      /\ s.allocated \subseteq Cells /\ f \in StringFields
  BY ShapeParts
<1>1. CASE t.ptr = s.ptr /\ t.allocated = s.allocated
  BY <1>1 DEF Space
<1>2. CASE s.ptr[o][f] = kEmptyString
  <2> DEFINE needing == {g \in G : s.ptr[o][g] = kEmptyString}
             rest == {g \in G : t.ptr[o][g] = kEmptyString}
  <2>1. PICK n \in Cells \ s.allocated :
           /\ \A p \in Objects, g \in StringFields :
                 t.ptr[p][g] = IF p = o /\ g = f THEN n ELSE s.ptr[p][g]
           /\ t.allocated = s.allocated \cup {n}
    BY <1>2 DEF Grown
  <2>2. PICK c \in [needing -> Cells \ s.allocated] :
           \A g, h \in needing : c[g] = c[h] => g = h
    BY DEF Space
  <2>3. \A g \in G : t.ptr[o][g] = IF g = f THEN n ELSE s.ptr[o][g]
    BY <1>0, <2>1
  <2>4. n # kEmptyString
    BY MessagesAssumption
  <2>5. rest = needing \ {f} /\ f \in needing
    BY <1>2, <2>3, <2>4
  <2> HIDE DEF needing, rest
  <2> DEFINE d == [g \in rest |-> IF c[g] = n THEN c[f] ELSE c[g]]
  <2>6. \A g \in rest : d[g] \in Cells \ t.allocated
    <3> TAKE g \in rest
    <3>1. g \in needing /\ g # f /\ c[g] # c[f]
      BY <2>2, <2>5
    <3>2. c[g] \in Cells \ s.allocated /\ c[f] \in Cells \ s.allocated
      BY <2>2, <2>5, <3>1
    <3>3. d[g] = IF c[g] = n THEN c[f] ELSE c[g]
      OBVIOUS
    <3> QED
      BY <2>1, <3>1, <3>2, <3>3
  <2>7. d \in [rest -> Cells \ t.allocated]
    BY <2>6
  <2>8. \A g, h \in rest : d[g] = d[h] => g = h
    BY <2>2, <2>5
  <2> HIDE DEF d
  <2> QED
    BY <2>7, <2>8 DEF Space, rest
<1> QED
  BY <1>1, <1>2 DEF Grown

LEMMA SpaceFree ==
    ASSUME NEW s, Shaped(s), NEW o \in Objects, NEW G, NEW f \in G,
           Space(s, o, G), s.ptr[o][f] = kEmptyString
    PROVE  \E n \in Cells : n \notin s.allocated
<1> DEFINE needing == {g \in G : s.ptr[o][g] = kEmptyString}
<1>1. PICK c \in [needing -> Cells \ s.allocated] : TRUE
  BY DEF Space
<1>2. f \in needing
  OBVIOUS
<1> QED
  BY <1>1, <1>2

\* Room for fields is room for some of them.
LEMMA SpaceLess ==
    ASSUME NEW s, NEW o, NEW G, NEW H \in SUBSET G, Space(s, o, G)
    PROVE  Space(s, o, H)
<1> DEFINE needing == {g \in G : s.ptr[o][g] = kEmptyString}
           less == {g \in H : s.ptr[o][g] = kEmptyString}
<1>1. PICK c \in [needing -> Cells \ s.allocated] :
         \A g, h \in needing : c[g] = c[h] => g = h
  BY DEF Space
<1>2. less \subseteq needing
  OBVIOUS
<1> HIDE DEF needing, less
<1> DEFINE d == [g \in less |-> c[g]]
<1>3. d \in [less -> Cells \ s.allocated] /\ \A g, h \in less : d[g] = d[h] => g = h
  BY <1>1, <1>2
<1> HIDE DEF d
<1> QED
  BY <1>3 DEF Space, less

-------------------------------------------------------------------------------
(* The accessors.                                                            *)

WithBit(s, o, f) == s.has[o] \cup {f}

\* The bit of f is set in o.
Marked(s, t, o, f) ==
    \A p \in Objects : t.has[p] = IF p = o THEN WithBit(s, o, f) ELSE s.has[p]

\* A bit is set, and nothing else changes.
MarkResult(s, t, o, f, F) ==
    /\ Good(t, F) /\ Marked(s, t, o, f)
    /\ t.alive = s.alive /\ t.ptr = s.ptr /\ t.success = s.success
    /\ t.heap = s.heap /\ t.allocated = s.allocated /\ t.held = s.held

LEMMA WithBitOK ==
    ASSUME NEW s, Shaped(s), NEW o \in Objects, NEW f \in FieldNames
    PROVE  WithBit(s, o, f) \in SUBSET FieldNames
BY ShapeParts DEF WithBit

LEMMA MarkedGood ==
    ASSUME NEW F \in SUBSET FieldNames, NEW s, Good(s, F), NEW o \in Objects,
           NEW f \in F, f \in StringFields
    PROVE  MarkResult(s, SetBits(s, o, WithBit(s, o, f)), o, f, F)
<1> DEFINE h == WithBit(s, o, f)
           t == SetBits(s, o, h)
<1>0. Shaped(s) /\ f \in FieldNames
  BY DEF Good, FieldNames
<1>1. h \in SUBSET FieldNames
  BY <1>0, WithBitOK
<1> HIDE DEF h
<1>2. BitsSet(s, t, o, h)
  BY <1>0, <1>1, BitsUpdate
<1> HIDE DEF t
<1>3. /\ Shaped(t) /\ \A p \in Objects : t.has[p] = IF p = o THEN h ELSE s.has[p]
      /\ t.alive = s.alive /\ t.ptr = s.ptr /\ t.success = s.success
      /\ t.heap = s.heap /\ t.allocated = s.allocated /\ t.held = s.held
  BY <1>2 DEF BitsSet
<1>4. Owned(t)
  BY <1>3 DEF Good, Owned
<1>5. Bits(t, F)
  BY <1>3 DEF Good, Bits, WithBit, h
<1>6. Clean(t)
  BY <1>3 DEF Good, Clean, StringFields, WithBit, h
<1>7. MarkResult(s, t, o, f, F)
  BY <1>3, <1>4, <1>5, <1>6 DEF Good, Marked, MarkResult, h
<1> QED
  BY <1>7 DEF t, h

\* A string is made for a field that has none.
LEMMA MadeGood ==
    ASSUME NEW F \in SUBSET FieldNames, NEW s, Good(s, F), NEW o \in Objects, o \in s.alive,
           NEW f \in StringFields, NEW n \in Cells, n \notin s.allocated,
           s.ptr[o][f] = kEmptyString
    PROVE  /\ Made(s, Make(s, o, f, n), o, f, n)
           /\ Good(Make(s, o, f, n), F)
<1> DEFINE t == Make(s, o, f, n)
<1>a. Shaped(s)
  BY DEF Good
<1>0. /\ n # kEmptyString
      /\ s.ptr \in [Objects -> [StringFields -> Cells \cup {kEmptyString}]]
      /\ DOMAIN s.heap = Cells \cup {kEmptyString} /\ s.held \subseteq Cells
  BY <1>a, ShapeParts, MessagesAssumption
<1>m. Made(s, t, o, f, n)
  BY <1>a, MakeUpdate
<1> HIDE DEF t
<1>1. /\ Shaped(t)
      /\ t.allocated = s.allocated \cup {n}
      /\ t.alive = s.alive /\ t.has = s.has /\ t.success = s.success
      /\ t.held = s.held
  BY <1>m DEF Made
<1>2. \A p \in Objects, g \in StringFields :
         t.ptr[p][g] = IF p = o /\ g = f THEN n ELSE s.ptr[p][g]
  BY <1>m DEF Made
<1>3. \A c \in Cells \cup {kEmptyString} : t.heap[c] = IF c = n THEN << >> ELSE s.heap[c]
  BY <1>m DEF Made
<1>4. /\ n \notin s.held
      /\ \A p \in Objects, g \in StringFields : s.ptr[p][g] # n
  BY <1>0 DEF Good, Owned
<1>5. Owned(t)
  <2>1. \A c \in Cells :
          c \in t.allocated <=>
              \/ c \in t.held
              \/ \E p \in Objects, g \in StringFields : t.ptr[p][g] = c
    <3> TAKE c \in Cells
    <3>1. CASE c = n
      BY <1>0, <1>1, <1>2, <3>1
    <3>2. CASE c # n
      <4>1. (\E p \in Objects, g \in StringFields : t.ptr[p][g] = c)
              <=> \E p \in Objects, g \in StringFields : s.ptr[p][g] = c
        BY <1>0, <1>2, <3>2, MessagesAssumption
      <4> QED
        BY <1>1, <3>2, <4>1 DEF Good, Owned
    <3> QED
      BY <3>1, <3>2
  <2>2. ASSUME NEW p \in Objects, NEW g \in StringFields, t.ptr[p][g] # kEmptyString
        PROVE  /\ p \in t.alive /\ t.ptr[p][g] \notin t.held
               /\ \A q \in Objects, h \in StringFields :
                     t.ptr[q][h] = t.ptr[p][g] => q = p /\ h = g
    BY <1>0, <1>1, <1>2, <1>4, <2>2 DEF Good, Owned
  <2> QED
    BY <2>1, <2>2 DEF Owned
<1>6. Clean(t)
  BY <1>0, <1>1, <1>2, <1>3 DEF Good, Clean
<1>7. Bits(t, F)
  BY <1>1 DEF Good, Bits
<1>8. Good(t, F)
  BY <1>1, <1>5, <1>6, <1>7 DEF Good
<1> QED
  BY <1>m, <1>8 DEF t

\* A string is written that belongs to a field that is set, or is emptied.
WriteResult(s, t, F) ==
    /\ Good(t, F)
    /\ t.alive = s.alive /\ t.has = s.has /\ t.success = s.success
    /\ t.ptr = s.ptr /\ t.allocated = s.allocated /\ t.held = s.held

LEMMA WrittenGood ==
    ASSUME NEW F \in SUBSET FieldNames, NEW s, Good(s, F), NEW o \in Objects,
           NEW f \in StringFields, s.ptr[o][f] # kEmptyString, NEW value,
           f \in s.has[o] \/ value = << >>
    PROVE  /\ WriteResult(s, Write(s, s.ptr[o][f], value), F)
           /\ Written(s, Write(s, s.ptr[o][f], value), s.ptr[o][f], value)
<1> DEFINE c == s.ptr[o][f]
           t == Write(s, c, value)
<1>a. Shaped(s)
  BY DEF Good
<1>0. s.ptr \in [Objects -> [StringFields -> Cells \cup {kEmptyString}]]
  BY <1>a, ShapeParts
<1>b. c \in Cells
  BY <1>0
<1>c. \A p \in Objects, g \in StringFields : s.ptr[p][g] = c => p = o /\ g = f
  BY DEF Good, Owned
<1> HIDE DEF c
<1>w. Written(s, t, c, value)
  BY <1>a, <1>b, WriteUpdate
<1> HIDE DEF t
<1>1. /\ Shaped(t)
      /\ t.alive = s.alive /\ t.has = s.has /\ t.success = s.success
      /\ t.ptr = s.ptr /\ t.allocated = s.allocated /\ t.held = s.held
  BY <1>w DEF Written
<1>2. \A d \in Cells \cup {kEmptyString} : t.heap[d] = IF d = c THEN value ELSE s.heap[d]
  BY <1>w DEF Written
<1>4. \A p \in Objects, g \in StringFields :
         t.heap[t.ptr[p][g]] = IF p = o /\ g = f THEN value ELSE s.heap[s.ptr[p][g]]
  BY <1>0, <1>1, <1>2, <1>c DEF c
<1>5. t.heap[kEmptyString] = << >>
  BY <1>b, <1>2, MessagesAssumption DEF Good, Clean
<1>6. Clean(t)
  BY <1>1, <1>4, <1>5 DEF Good, Clean
<1>7. Owned(t) /\ Bits(t, F)
  BY <1>1 DEF Good, Owned, Bits
<1>8. WriteResult(s, t, F)
  BY <1>1, <1>6, <1>7 DEF Good, WriteResult
<1> QED
  BY <1>8, <1>w DEF t, c

\* A field is set: to what, does not matter.
SetResult(s, t, o, f, F) ==
    /\ Good(t, F) /\ Grown(s, t, o, f) /\ Marked(s, t, o, f)
    /\ t.ptr[o][f] \in Cells
    /\ t.alive = s.alive /\ t.held = s.held

LEMMA MutableGood ==
    ASSUME NEW F \in SUBSET FieldNames, NEW s, Good(s, F), NEW o \in Objects, o \in s.alive,
           NEW f \in F, f \in StringFields,
           s.ptr[o][f] = kEmptyString => \E n \in Cells : n \notin s.allocated
    PROVE  SetResult(s, mutable(s, o, f), o, f, F)
<1> DEFINE m == SetBits(s, o, WithBit(s, o, f))
           n == new(s)
<1>0. MarkResult(s, m, o, f, F)
  BY MarkedGood
<1>1. mutable(s, o, f) =
        IF s.ptr[o][f] # kEmptyString THEN m ELSE Make(m, o, f, n)
  BY DEF mutable, SetBits, WithBit, Make
<1> HIDE DEF m
<1>2. /\ Good(m, F) /\ Marked(s, m, o, f)
      /\ m.alive = s.alive /\ m.ptr = s.ptr
      /\ m.allocated = s.allocated /\ m.held = s.held
  BY <1>0 DEF MarkResult
<1>3. s.ptr \in [Objects -> [StringFields -> Cells \cup {kEmptyString}]]
  BY ShapeParts DEF Good
<1>4. CASE s.ptr[o][f] # kEmptyString
  BY <1>1, <1>2, <1>3, <1>4 DEF Grown, SetResult
<1>5. CASE s.ptr[o][f] = kEmptyString
  <2>1. n \in Cells /\ n \notin s.allocated
    BY <1>5 DEF new
  <2> HIDE DEF n
  <2>2. Good(m, F) /\ o \in m.alive /\ m.ptr[o][f] = kEmptyString /\ n \notin m.allocated
    BY <1>2, <1>5, <2>1
  <2>3. Made(m, Make(m, o, f, n), o, f, n) /\ Good(Make(m, o, f, n), F)
    BY <2>1, <2>2, MadeGood
  <2> DEFINE t == Make(m, o, f, n)
  <2> HIDE DEF t
  <2>4. /\ Good(t, F)
        /\ \A p \in Objects, g \in StringFields :
              t.ptr[p][g] = IF p = o /\ g = f THEN n ELSE m.ptr[p][g]
        /\ t.allocated = m.allocated \cup {n}
        /\ t.alive = m.alive /\ t.has = m.has /\ t.held = m.held
    BY <2>3 DEF t, Made
  <2>5. SetResult(s, t, o, f, F)
    BY <1>2, <1>5, <2>1, <2>4 DEF Grown, Marked, SetResult
  <2> QED
    BY <1>1, <1>5, <2>5 DEF t
<1> QED
  BY <1>4, <1>5

LEMMA SetGood ==
    ASSUME NEW F \in SUBSET FieldNames, NEW s, Good(s, F), NEW o \in Objects, o \in s.alive,
           NEW f \in F, f \in StringFields, NEW value,
           s.ptr[o][f] = kEmptyString => \E n \in Cells : n \notin s.allocated
    PROVE  SetResult(s, set(s, o, f, value), o, f, F)
<1> DEFINE m == mutable(s, o, f)
<1>1. SetResult(s, m, o, f, F)
  BY MutableGood
<1>2. set(s, o, f, value) = Write(m, m.ptr[o][f], value)
  BY DEF set, Write
<1> HIDE DEF m
<1>3. Good(m, F) /\ m.ptr[o][f] # kEmptyString /\ f \in m.has[o]
  BY <1>1, MessagesAssumption DEF SetResult, Marked, WithBit
<1>4. WriteResult(m, Write(m, m.ptr[o][f], value), F)
  BY <1>3, WrittenGood
<1>5. WriteResult(m, set(s, o, f, value), F)
  BY <1>2, <1>4
<1> QED
  BY <1>1, <1>5 DEF WriteResult, SetResult, Grown, Marked

WithoutBit(s, o, f) == s.has[o] \ {f}

LEMMA ClearGood ==
    ASSUME NEW F \in SUBSET FieldNames, NEW s, Good(s, F), NEW o \in Objects,
           NEW f \in StringFields
    PROVE  Good(clear(s, o, f), F)
<1> DEFINE h == WithoutBit(s, o, f)
           m == SetBits(s, o, h)
           c == m.ptr[o][f]
<1>a. Shaped(s)
  BY DEF Good
<1>b. s.ptr \in [Objects -> [StringFields -> Cells \cup {kEmptyString}]]
  BY <1>a, ShapeParts
<1>c. h \in SUBSET FieldNames
  BY <1>a, ShapeParts DEF WithoutBit
<1>d. clear(s, o, f) = IF c = kEmptyString THEN m ELSE Write(m, c, << >>)
  BY DEF clear, SetBits, WithoutBit, Write
<1> HIDE DEF h
<1>0. BitsSet(s, m, o, h)
  BY <1>a, <1>c, BitsUpdate
<1> HIDE DEF m
<1>1. /\ Shaped(m) /\ \A p \in Objects : m.has[p] = IF p = o THEN h ELSE s.has[p]
      /\ m.alive = s.alive /\ m.ptr = s.ptr /\ m.success = s.success
      /\ m.heap = s.heap /\ m.allocated = s.allocated /\ m.held = s.held
  BY <1>0 DEF BitsSet
<1>2. Bits(m, F) /\ Owned(m)
  BY <1>1 DEF Good, Bits, Owned, WithoutBit, h
<1>3. \A p \in Objects : "success" \notin m.has[p] => ~m.success[p]
  BY <1>1 DEF Good, Clean, StringFields, WithoutBit, h
<1>4. \A p \in Objects, g \in StringFields :
         g \notin m.has[p] => (p = o /\ g = f) \/ m.heap[m.ptr[p][g]] = << >>
  BY <1>1 DEF Good, Clean, WithoutBit, h
<1>5. m.heap[kEmptyString] = << >> /\ c \in Cells \cup {kEmptyString}
  BY <1>1, <1>b DEF Good, Clean
<1>6. CASE c = kEmptyString
  <2>1. Clean(m)
    BY <1>3, <1>4, <1>5, <1>6 DEF Clean
  <2> QED
    BY <1>1, <1>2, <1>6, <1>d, <2>1 DEF Good
<1>7. CASE c # kEmptyString
  <2> HIDE DEF c
  <2>1. c \in Cells
    BY <1>5, <1>7
  <2>2. Written(m, Write(m, c, << >>), c, << >>)
    BY <1>1, <2>1, WriteUpdate
  <2> DEFINE t == Write(m, c, << >>)
  <2> HIDE DEF t
  <2>3. /\ Shaped(t)
        /\ \A d \in Cells \cup {kEmptyString} :
              t.heap[d] = IF d = c THEN << >> ELSE m.heap[d]
        /\ t.alive = m.alive /\ t.has = m.has /\ t.ptr = m.ptr
        /\ t.success = m.success /\ t.allocated = m.allocated /\ t.held = m.held
    BY <2>2 DEF t, Written
  <2>4. Bits(t, F) /\ Owned(t)
    BY <1>2, <2>3 DEF Bits, Owned
  <2>5. \A p \in Objects, g \in StringFields : g \notin t.has[p] => t.heap[t.ptr[p][g]] = << >>
    <3> SUFFICES ASSUME NEW p \in Objects, NEW g \in StringFields, g \notin t.has[p]
                 PROVE  t.heap[t.ptr[p][g]] = << >>
      OBVIOUS
    <3>1. t.ptr[p][g] \in Cells \cup {kEmptyString} /\ t.ptr[p][g] = m.ptr[p][g]
      BY <1>1, <1>b, <2>3
    <3>2. CASE p = o /\ g = f
      BY <2>3, <3>1, <3>2 DEF c
    <3>3. CASE ~(p = o /\ g = f)
      BY <1>4, <2>3, <3>1, <3>3
    <3> QED
      BY <3>2, <3>3
  <2>6. Clean(t)
    BY <1>3, <1>5, <1>7, <2>3, <2>5 DEF Clean
  <2> QED
    BY <1>7, <1>d, <2>3, <2>4, <2>6 DEF Good, t
<1> QED
  BY <1>6, <1>7

\* The strings the caller holds after it was given the one field f has.
Given(s, o, f) ==
    IF s.ptr[o][f] = kEmptyString THEN s.held ELSE s.held \cup {s.ptr[o][f]}

LEMMA ReleaseGood ==
    ASSUME NEW F \in SUBSET FieldNames, NEW s, Good(s, F), NEW o \in Objects,
           NEW f \in StringFields
    PROVE  Good(release(s, o, f), F)
<1> DEFINE h == WithoutBit(s, o, f)
           H == Given(s, o, f)
           t == Move(s, o, f, kEmptyString, h, H)
<1>a. Shaped(s)
  BY DEF Good
<1>b. /\ s.ptr \in [Objects -> [StringFields -> Cells \cup {kEmptyString}]]
      /\ s.held \subseteq Cells
  BY <1>a, ShapeParts
<1>c. h \in SUBSET FieldNames
  BY <1>a, ShapeParts DEF WithoutBit
<1>d. H \in SUBSET Cells
  BY <1>b DEF Given
<1>e. release(s, o, f) = t
  BY DEF release, Move, WithoutBit, Given
<1> HIDE DEF h, H
<1>0. Moved(s, t, o, f, kEmptyString, h, H)
  <2>1. kEmptyString \in Cells \cup {kEmptyString}
    OBVIOUS
  <2> QED
    BY <1>a, <1>c, <1>d, <2>1, MoveUpdate
<1> HIDE DEF t
<1>1. /\ Shaped(t)
      /\ \A p \in Objects : t.has[p] = IF p = o THEN h ELSE s.has[p]
      /\ t.held = H
      /\ t.alive = s.alive /\ t.success = s.success /\ t.heap = s.heap
      /\ t.allocated = s.allocated
  BY <1>0 DEF Moved
<1>2. \A p \in Objects, g \in StringFields :
            t.ptr[p][g] = IF p = o /\ g = f THEN kEmptyString ELSE s.ptr[p][g]
  BY <1>0 DEF Moved
<1>3. Bits(t, F)
  BY <1>1 DEF Good, Bits, WithoutBit, h
<1>4. Clean(t)
  <2>1. \A p \in Objects : "success" \notin t.has[p] => ~t.success[p]
    BY <1>1 DEF Good, Clean, StringFields, WithoutBit, h
  <2>2. t.heap[kEmptyString] = << >>
    BY <1>1 DEF Good, Clean
  <2>3. \A p \in Objects, g \in StringFields : g \notin t.has[p] => t.heap[t.ptr[p][g]] = << >>
    BY <1>1, <1>2, <2>2 DEF Good, Clean, WithoutBit, h
  <2> QED
    BY <2>1, <2>2, <2>3 DEF Clean
<1>5. Owned(t)
  <2>1. \A c \in Cells :
          c \in t.allocated <=>
              \/ c \in t.held
              \/ \E p \in Objects, g \in StringFields : t.ptr[p][g] = c
    <3> TAKE c \in Cells
    <3>0. c # kEmptyString
      BY MessagesAssumption
    <3>1. CASE c = s.ptr[o][f]
      BY <1>1, <3>0, <3>1 DEF Good, Owned, Given, H
    <3>2. CASE c # s.ptr[o][f]
      <4>1. (\E p \in Objects, g \in StringFields : t.ptr[p][g] = c)
              <=> \E p \in Objects, g \in StringFields : s.ptr[p][g] = c
        BY <1>2, <3>0, <3>2
      <4>2. c \in t.held <=> c \in s.held
        BY <1>1, <3>2 DEF Given, H
      <4> QED
        BY <1>1, <4>1, <4>2 DEF Good, Owned
    <3> QED
      BY <3>1, <3>2
  <2>2. ASSUME NEW p \in Objects, NEW g \in StringFields, t.ptr[p][g] # kEmptyString
        PROVE  /\ p \in t.alive /\ t.ptr[p][g] \notin t.held
               /\ \A q \in Objects, e \in StringFields :
                     t.ptr[q][e] = t.ptr[p][g] => q = p /\ e = g
    <3>1. ~(p = o /\ g = f) /\ t.ptr[p][g] = s.ptr[p][g]
      BY <1>2, <2>2
    <3>2. /\ p \in s.alive /\ s.ptr[p][g] \notin s.held
          /\ \A q \in Objects, e \in StringFields :
                s.ptr[q][e] = s.ptr[p][g] => q = p /\ e = g
      BY <2>2, <3>1 DEF Good, Owned
    <3>3. s.ptr[p][g] \notin H
      BY <3>1, <3>2 DEF Given, H
    <3> QED
      BY <1>1, <1>2, <2>2, <3>1, <3>2, <3>3
  <2> QED
    BY <2>1, <2>2 DEF Owned
<1> QED
  BY <1>1, <1>3, <1>4, <1>5, <1>e DEF Good

\* What delete does to the state: c is a string or the shared one.
Deleted(s, t, c) ==
    /\ Shaped(t)
    /\ t.heap[kEmptyString] = s.heap[kEmptyString]
    /\ \A d \in Cells : t.heap[d] = IF d = c THEN << >> ELSE s.heap[d]
    /\ t.allocated = s.allocated \ {c}
    /\ t.alive = s.alive /\ t.has = s.has /\ t.ptr = s.ptr
    /\ t.success = s.success /\ t.held = s.held

LEMMA DeleteDone ==
    ASSUME NEW s, Shaped(s), NEW c \in Cells \cup {kEmptyString}
    PROVE  Deleted(s, delete(s, c), c)
<1>1. CASE c = kEmptyString
  <2>1. delete(s, c) = s /\ kEmptyString \notin s.allocated
    BY <1>1, MessagesAssumption, ShapeParts DEF delete
  <2> QED
    BY <1>1, <2>1, MessagesAssumption DEF Deleted
<1>2. CASE c # kEmptyString
  <2>1. delete(s, c) = Remove(s, c) /\ c \in Cells
    BY <1>2 DEF delete, Remove
  <2>2. Removed(s, Remove(s, c), c)
    BY <2>1, DeleteUpdate
  <2> DEFINE t == delete(s, c)
  <2>3. Removed(s, t, c)
    BY <2>1, <2>2
  <2> HIDE DEF t
  <2>4. Deleted(s, t, c)
    BY <1>2, <2>1, <2>3, MessagesAssumption DEF Deleted, Removed
  <2> QED
    BY <2>4 DEF t
<1> QED
  BY <1>1, <1>2

\* A field whose string was deleted gets another one that the caller holds, or none.
LEMMA ReplacedGood ==
    ASSUME NEW F \in SUBSET FieldNames, NEW s, Good(s, F), NEW o \in Objects,
           NEW f \in StringFields, NEW m, Deleted(s, m, s.ptr[o][f]),
           NEW c \in Cells \cup {kEmptyString}, NEW h \in SUBSET FieldNames,
           NEW H \in SUBSET Cells, h \subseteq F, s.has[o] \ {f} \subseteq h,
           f \in h \/ c = kEmptyString, o \in s.alive,
           c # kEmptyString => c \in s.held, H = s.held \ {c}
    PROVE  Good(Move(m, o, f, c, h, H), F)
<1> DEFINE t == Move(m, o, f, c, h, H)
           old == s.ptr[o][f]
<1>a. Shaped(s)
  BY DEF Good
<1>b. /\ s.ptr \in [Objects -> [StringFields -> Cells \cup {kEmptyString}]]
      /\ s.held \subseteq Cells /\ s.allocated \subseteq Cells
  BY <1>a, ShapeParts
<1>c. old \in Cells \cup {kEmptyString}
  BY <1>b
<1>d. \A p \in Objects, g \in StringFields :
         old # kEmptyString /\ s.ptr[p][g] = old => p = o /\ g = f
  BY DEF Good, Owned
<1>e. old \notin s.held
  BY <1>b, MessagesAssumption DEF Good, Owned
<1> HIDE DEF old
<1>0. /\ Shaped(m)
      /\ m.heap[kEmptyString] = s.heap[kEmptyString]
      /\ \A d \in Cells : m.heap[d] = IF d = old THEN << >> ELSE s.heap[d]
      /\ m.allocated = s.allocated \ {old}
      /\ m.alive = s.alive /\ m.has = s.has /\ m.ptr = s.ptr
      /\ m.success = s.success /\ m.held = s.held
  BY DEF Deleted, old
<1>1. Moved(m, t, o, f, c, h, H)
  BY <1>0, MoveUpdate
<1> HIDE DEF t
<1>2. /\ Shaped(t)
      /\ \A p \in Objects : t.has[p] = IF p = o THEN h ELSE s.has[p]
      /\ t.held = H
      /\ t.alive = s.alive /\ t.success = s.success
      /\ t.allocated = s.allocated \ {old}
  BY <1>0, <1>1 DEF Moved
<1>3. \A p \in Objects, g \in StringFields :
         t.ptr[p][g] = IF p = o /\ g = f THEN c ELSE s.ptr[p][g]
  BY <1>0, <1>1 DEF Moved
<1>4. /\ t.heap[kEmptyString] = << >>
      /\ \A d \in Cells : t.heap[d] = IF d = old THEN << >> ELSE s.heap[d]
  BY <1>0, <1>1 DEF Moved, Good, Clean
<1>5. Bits(t, F)
  BY <1>2 DEF Good, Bits
<1>6. Clean(t)
  <2>1. \A p \in Objects : "success" \notin t.has[p] => ~t.success[p]
    BY <1>2 DEF Good, Clean, StringFields
  <2>2. ASSUME NEW p \in Objects, NEW g \in StringFields, g \notin t.has[p]
        PROVE  t.heap[t.ptr[p][g]] = << >>
    <3>1. CASE p = o /\ g = f
      BY <1>2, <1>3, <1>4, <2>2, <3>1
    <3>2. CASE ~(p = o /\ g = f)
      <4>1. g \notin s.has[p] /\ t.ptr[p][g] = s.ptr[p][g]
        BY <1>2, <1>3, <2>2, <3>2
      <4>2. s.heap[s.ptr[p][g]] = << >> /\ s.ptr[p][g] \in Cells \cup {kEmptyString}
        BY <1>b, <4>1 DEF Good, Clean
      <4> QED
        BY <1>4, <4>1, <4>2
    <3> QED
      BY <3>1, <3>2
  <2> QED
    BY <1>4, <2>1, <2>2 DEF Clean
<1>7. Owned(t)
  <2>1. \A d \in Cells :
          d \in t.allocated <=>
              \/ d \in t.held
              \/ \E p \in Objects, g \in StringFields : t.ptr[p][g] = d
    <3> TAKE d \in Cells
    <3>0. d # kEmptyString
      BY MessagesAssumption
    <3>s. d \in s.allocated <=>
              \/ d \in s.held
              \/ \E p \in Objects, g \in StringFields : s.ptr[p][g] = d
      BY DEF Good, Owned
    <3>1. CASE d = c
      <4>1. d \in s.held /\ d # old /\ d \in s.allocated
        BY <1>e, <3>0, <3>1, <3>s
      <4>2. t.ptr[o][f] = d
        BY <1>3, <3>1
      <4> QED
        BY <1>2, <4>1, <4>2
    <3>2. CASE d = old
      <4>1. c # d
        BY <1>e, <3>0, <3>2
      <4>2. d \notin t.allocated /\ d \notin t.held
        BY <1>2, <1>e, <3>2
      <4>3. \A p \in Objects, g \in StringFields : t.ptr[p][g] # d
        BY <1>3, <1>d, <3>0, <3>2, <4>1
      <4> QED
        BY <4>2, <4>3
    <3>3. CASE d # c /\ d # old
      <4>1. (\E p \in Objects, g \in StringFields : t.ptr[p][g] = d)
              <=> \E p \in Objects, g \in StringFields : s.ptr[p][g] = d
        BY <1>3, <3>3 DEF old
      <4>2. (d \in t.held <=> d \in s.held) /\ (d \in t.allocated <=> d \in s.allocated)
        BY <1>2, <3>3
      <4> QED
        BY <3>s, <4>1, <4>2
    <3> QED
      BY <3>1, <3>2, <3>3
  <2>2. ASSUME NEW p \in Objects, NEW g \in StringFields, t.ptr[p][g] # kEmptyString
        PROVE  /\ p \in t.alive /\ t.ptr[p][g] \notin t.held
               /\ \A q \in Objects, e \in StringFields :
                     t.ptr[q][e] = t.ptr[p][g] => q = p /\ e = g
    <3>s. \A q \in Objects, e \in StringFields :
             s.ptr[q][e] # kEmptyString =>
               /\ q \in s.alive /\ s.ptr[q][e] \notin s.held
               /\ \A q1 \in Objects, e1 \in StringFields :
                     s.ptr[q1][e1] = s.ptr[q][e] => q1 = q /\ e1 = e
      BY DEF Good, Owned
    <3>1. CASE p = o /\ g = f
      <4>1. t.ptr[p][g] = c /\ c \in s.held
        BY <1>3, <2>2, <3>1
      <4>2. \A q \in Objects, e \in StringFields : s.ptr[q][e] # c
        BY <2>2, <3>s, <4>1
      <4> QED
        BY <1>2, <1>3, <3>1, <4>1, <4>2
    <3>2. CASE ~(p = o /\ g = f)
      <4>1. t.ptr[p][g] = s.ptr[p][g]
        BY <1>3, <3>2
      <4>2. /\ p \in s.alive /\ s.ptr[p][g] \notin s.held
            /\ \A q \in Objects, e \in StringFields :
                  s.ptr[q][e] = s.ptr[p][g] => q = p /\ e = g
        BY <2>2, <3>s, <4>1
      <4>3. s.ptr[p][g] # c
        BY <2>2, <4>1, <4>2
      <4> QED
        BY <1>2, <1>3, <4>1, <4>2, <4>3
    <3> QED
      BY <3>1, <3>2
  <2> QED
    BY <2>1, <2>2 DEF Owned
<1>8. Good(t, F)
  BY <1>2, <1>5, <1>6, <1>7 DEF Good
<1> QED
  BY <1>8 DEF t

LEMMA SetAllocatedGood ==
    ASSUME NEW F \in SUBSET FieldNames, NEW s, Good(s, F), NEW o \in Objects, o \in s.alive,
           NEW f \in F, f \in StringFields, NEW c \in s.held \cup {NULL}
    PROVE  Good(set_allocated(s, o, f, c), F)
<1> DEFINE old == s.ptr[o][f]
           m == delete(s, old)
<1>a. Shaped(s)
  BY DEF Good
<1>b. /\ s.ptr \in [Objects -> [StringFields -> Cells \cup {kEmptyString}]]
      /\ s.held \subseteq Cells
  BY <1>a, ShapeParts
<1>c. old \in Cells \cup {kEmptyString}
  BY <1>b
<1>1. Deleted(s, m, old)
  BY <1>a, <1>c, DeleteDone
<1>2. set_allocated(s, o, f, c) =
        IF c # NULL THEN [m EXCEPT !.has[o] = @ \cup {f}, !.ptr[o][f] = c, !.held = @ \ {c}]
                    ELSE [m EXCEPT !.has[o] = @ \ {f}, !.ptr[o][f] = kEmptyString]
  BY DEF set_allocated
<1> HIDE DEF m
<1>3. m.has = s.has /\ m.held = s.held /\ Shaped(m)
  BY <1>1 DEF Deleted
<1>4. WithBit(s, o, f) \in SUBSET FieldNames /\ WithoutBit(s, o, f) \in SUBSET FieldNames
  BY <1>a, ShapeParts DEF WithBit, WithoutBit
<1>5. /\ WithBit(s, o, f) \subseteq F /\ WithoutBit(s, o, f) \subseteq F
      /\ s.has[o] \ {f} \subseteq WithBit(s, o, f) /\ f \in WithBit(s, o, f)
      /\ s.has[o] \ {f} \subseteq WithoutBit(s, o, f)
  BY DEF Good, Bits, WithBit, WithoutBit
<1>6. CASE c # NULL
  <2> DEFINE H == s.held \ {c}
  <2>1. set_allocated(s, o, f, c) = Move(m, o, f, c, WithBit(s, o, f), H)
    BY <1>2, <1>3, <1>6 DEF Move, WithBit
  <2>2. c \in Cells \cup {kEmptyString} /\ H \in SUBSET Cells /\ H = s.held \ {c} /\ c \in s.held
    BY <1>6, <1>b
  <2> HIDE DEF H
  <2>3. Good(Move(m, o, f, c, WithBit(s, o, f), H), F)
    BY <1>1, <1>4, <1>5, <2>2, ReplacedGood
  <2> QED
    BY <2>1, <2>3
<1>7. CASE c = NULL
  <2> DEFINE t == Move(m, o, f, kEmptyString, WithoutBit(s, o, f), s.held)
  <2>1. set_allocated(s, o, f, c) =
           [m EXCEPT !.has[o] = WithoutBit(s, o, f), !.ptr[o][f] = kEmptyString]
    BY <1>2, <1>3, <1>7 DEF WithoutBit
  <2>2. [m EXCEPT !.has[o] = WithoutBit(s, o, f), !.ptr[o][f] = kEmptyString] = t
    <3>1. PICK V, U : << >> \in V /\ << >> \in U /\ m \in States(V, U)
      BY <1>3 DEF Shaped
    <3> QED
      BY <1>3, <3>1 DEF Move, States
  <2>3. kEmptyString \in Cells \cup {kEmptyString} /\ s.held \in SUBSET Cells
    BY <1>b
  <2>4. s.held = s.held \ {kEmptyString}
    BY <1>b, MessagesAssumption
  <2>5. Good(t, F)
    BY <1>1, <1>4, <1>5, <2>3, <2>4, ReplacedGood
  <2> QED
    BY <2>1, <2>2, <2>5
<1> QED
  BY <1>6, <1>7

LEMMA SuccessGood ==
    ASSUME NEW F \in SUBSET FieldNames, NEW s, Good(s, F), NEW o \in Objects,
           "success" \in F, NEW b \in BOOLEAN
    PROVE  /\ Good(set_success(s, o, b), F) /\ set_success(s, o, b).alive = s.alive
           /\ Good(clear_success(s, o), F)
<1>a. Shaped(s)
  BY DEF Good
<1>1. ASSUME NEW v \in BOOLEAN, NEW h \in SUBSET FieldNames, h \subseteq F,
             "success" \in h \/ ~v, s.has[o] \ {"success"} \subseteq h
      PROVE  Good(Succeed(s, o, v, h), F) /\ Succeed(s, o, v, h).alive = s.alive
  <2> DEFINE t == Succeed(s, o, v, h)
  <2>1. Succeeded(s, t, o, v, h)
    BY <1>a, SuccessUpdate
  <2> HIDE DEF t
  <2>2. /\ Shaped(t)
        /\ \A p \in Objects : t.success[p] = IF p = o THEN v ELSE s.success[p]
        /\ \A p \in Objects : t.has[p] = IF p = o THEN h ELSE s.has[p]
        /\ t.alive = s.alive /\ t.ptr = s.ptr /\ t.heap = s.heap
        /\ t.allocated = s.allocated /\ t.held = s.held
    BY <2>1 DEF Succeeded
  <2>3. Owned(t)
    BY <2>2 DEF Good, Owned
  <2>4. Bits(t, F)
    BY <1>1, <2>2 DEF Good, Bits
  <2>5. Clean(t)
    BY <1>1, <2>2 DEF Good, Clean, StringFields
  <2> QED
    BY <2>2, <2>3, <2>4, <2>5 DEF Good, t
<1>2. /\ WithBit(s, o, "success") \in SUBSET FieldNames
      /\ WithoutBit(s, o, "success") \in SUBSET FieldNames
      /\ WithBit(s, o, "success") \subseteq F /\ WithoutBit(s, o, "success") \subseteq F
      /\ "success" \in WithBit(s, o, "success")
      /\ s.has[o] \ {"success"} \subseteq WithBit(s, o, "success")
      /\ s.has[o] \ {"success"} \subseteq WithoutBit(s, o, "success")
  BY <1>a, ShapeParts DEF WithBit, WithoutBit, Good, Bits
<1>3. /\ Good(Succeed(s, o, b, WithBit(s, o, "success")), F)
      /\ Succeed(s, o, b, WithBit(s, o, "success")).alive = s.alive
  BY <1>1, <1>2
<1>4. Good(Succeed(s, o, FALSE, WithoutBit(s, o, "success")), F)
  <2>1. FALSE \in BOOLEAN /\ ~FALSE
    OBVIOUS
  <2> QED
    BY <1>1, <1>2, <2>1
<1>5. set_success(s, o, b) = Succeed(s, o, b, WithBit(s, o, "success"))
  BY DEF set_success, Succeed, WithBit
<1>6. clear_success(s, o) = Succeed(s, o, FALSE, WithoutBit(s, o, "success"))
  BY DEF clear_success, Succeed, WithoutBit
<1> QED
  BY <1>3, <1>4, <1>5, <1>6

-------------------------------------------------------------------------------
(* Making and destroying a message.                                          *)

\* An object that is not alive has no strings.
LEMMA NoStrings ==
    ASSUME NEW s, Owned(s), NEW o \in Objects, o \notin s.alive, NEW f \in StringFields
    PROVE  s.ptr[o][f] = kEmptyString
BY DEF Owned

\* Nothing about the strings changes.
SameStrings(s, t) ==
    /\ t.heap = s.heap /\ t.allocated = s.allocated /\ t.held = s.held
    /\ \A p \in Objects, g \in StringFields : t.ptr[p][g] = s.ptr[p][g]

LEMMA ConstructGood ==
    ASSUME NEW F \in SUBSET FieldNames, NEW s, Good(s, F), NEW o \in Objects,
           o \notin s.alive
    PROVE  /\ Good(SharedCtor(s, o), F) /\ SameStrings(s, SharedCtor(s, o))
           /\ SharedCtor(s, o).alive = s.alive \cup {o}
           /\ \A p \in Objects : p # o => SharedCtor(s, o).has[p] = s.has[p]
<1> DEFINE A == s.alive \cup {o}
           t == Blank(s, o, A)
<1>a. Shaped(s)
  BY DEF Good
<1>b. A \in SUBSET Objects
  BY <1>a, ShapeParts
<1>c. SharedCtor(s, o) = t
  BY DEF SharedCtor, Blank
<1> HIDE DEF A
<1>0. Blanked(s, t, o, A)
  BY <1>a, <1>b, BlankUpdate
<1> HIDE DEF t
<1>1. /\ Shaped(t) /\ t.alive = A
      /\ \A p \in Objects : t.has[p] = IF p = o THEN {} ELSE s.has[p]
      /\ \A p \in Objects : t.success[p] = IF p = o THEN FALSE ELSE s.success[p]
      /\ t.heap = s.heap /\ t.allocated = s.allocated /\ t.held = s.held
  BY <1>0 DEF Blanked
<1>2. \A p \in Objects, g \in StringFields : t.ptr[p][g] = s.ptr[p][g]
  BY <1>0, NoStrings DEF Blanked, Good
<1>3. Bits(t, F)
  BY <1>1 DEF Good, Bits
<1>4. Owned(t)
  <2>1. \A c \in Cells :
          (\E p \in Objects, g \in StringFields : t.ptr[p][g] = c)
             <=> \E p \in Objects, g \in StringFields : s.ptr[p][g] = c
    BY <1>2
  <2>2. \A c \in Cells :
          c \in t.allocated <=>
              \/ c \in t.held
              \/ \E p \in Objects, g \in StringFields : t.ptr[p][g] = c
    BY <1>1, <2>1 DEF Good, Owned
  <2>3. ASSUME NEW p \in Objects, NEW g \in StringFields, t.ptr[p][g] # kEmptyString
        PROVE  /\ p \in t.alive /\ t.ptr[p][g] \notin t.held
               /\ \A q \in Objects, e \in StringFields :
                     t.ptr[q][e] = t.ptr[p][g] => q = p /\ e = g
    BY <1>1, <1>2, <2>3 DEF Good, Owned, A
  <2> QED
    BY <2>2, <2>3 DEF Owned
<1>5. Clean(t)
  <2>1. \A p \in Objects : "success" \notin t.has[p] => ~t.success[p]
    BY <1>1 DEF Good, Clean
  <2>2. ASSUME NEW p \in Objects, NEW g \in StringFields, g \notin t.has[p]
        PROVE  t.heap[t.ptr[p][g]] = << >>
    <3>1. CASE p = o
      BY <1>1, <1>2, <3>1, NoStrings DEF Good, Clean
    <3>2. CASE p # o
      BY <1>1, <1>2, <2>2, <3>2 DEF Good, Clean
    <3> QED
      BY <3>1, <3>2
  <2> QED
    BY <1>1, <2>1, <2>2 DEF Good, Clean
<1>6. Good(t, F) /\ SameStrings(s, t)
  BY <1>1, <1>2, <1>3, <1>4, <1>5 DEF Good, SameStrings
<1> QED
  BY <1>1, <1>6, <1>c DEF A

LEMMA DestroyGood ==
    ASSUME NEW F \in SUBSET FieldNames, NEW s, Good(s, F), NEW o \in Objects
    PROVE  Good(destroyed(s, o), F)
<1> DEFINE a == s.ptr[o]["name"]
           b == s.ptr[o]["message"]
           d == delete(s, a)
           m == delete(d, b)
           A == s.alive \ {o}
           t == Blank(m, o, A)
<1>a. Shaped(s)
  BY DEF Good
<1>b. /\ s.ptr \in [Objects -> [StringFields -> Cells \cup {kEmptyString}]]
      /\ s.held \subseteq Cells /\ s.allocated \subseteq Cells
      /\ A \in SUBSET Objects
  BY <1>a, ShapeParts
<1>c. a \in Cells \cup {kEmptyString} /\ b \in Cells \cup {kEmptyString}
  BY <1>b DEF StringFields
<1>d. \A p \in Objects, g \in StringFields :
         s.ptr[p][g] # kEmptyString /\ s.ptr[p][g] \in {a, b} => p = o
  BY DEF Good, Owned, StringFields
<1>e. a \notin s.held /\ b \notin s.held
  BY <1>b, MessagesAssumption DEF Good, Owned, StringFields
<1>f. \A g \in StringFields : s.ptr[o][g] \in {a, b}
  BY DEF StringFields
<1> HIDE DEF a, b
<1>g. Deleted(s, d, a)
  BY <1>a, <1>c, DeleteDone
<1> HIDE DEF d
<1>h. Shaped(d)
  BY <1>g DEF Deleted
<1>i. Deleted(d, m, b)
  BY <1>c, <1>h, DeleteDone
<1>j. m.alive = s.alive
  BY <1>g, <1>i DEF Deleted
<1>k. destroyed(s, o) = t
  <2>1. destroyed(s, o) =
          [m EXCEPT !.alive = @ \ {o}, !.has[o] = {}, !.success[o] = FALSE,
                    !.unknown[o] = << >>, !.ptr[o] = [f \in StringFields |-> kEmptyString]]
    BY DEF destroyed, d, a, b
  <2> HIDE DEF m
  <2> QED
    BY <1>j, <2>1 DEF Blank
<1> HIDE DEF m, A
<1>0. /\ Shaped(m)
      /\ m.heap[kEmptyString] = << >>
      /\ \A c \in Cells : m.heap[c] = IF c \in {a, b} THEN << >> ELSE s.heap[c]
      /\ m.allocated = s.allocated \ {a, b}
      /\ m.has = s.has /\ m.ptr = s.ptr
      /\ m.success = s.success /\ m.held = s.held
  BY <1>g, <1>i DEF Deleted, Good, Clean
<1>1. Blanked(m, t, o, A)
  BY <1>0, <1>b, BlankUpdate
<1> HIDE DEF t
<1>2. /\ Shaped(t) /\ t.alive = A
      /\ \A p \in Objects : t.has[p] = IF p = o THEN {} ELSE s.has[p]
      /\ \A p \in Objects : t.success[p] = IF p = o THEN FALSE ELSE s.success[p]
      /\ t.heap = m.heap /\ t.allocated = s.allocated \ {a, b} /\ t.held = s.held
  BY <1>0, <1>1 DEF Blanked
<1>3. \A p \in Objects, g \in StringFields :
         t.ptr[p][g] = IF p = o THEN kEmptyString ELSE s.ptr[p][g]
  BY <1>0, <1>1 DEF Blanked
<1>4. Bits(t, F)
  BY <1>2 DEF Good, Bits
<1>5. Clean(t)
  <2>1. \A p \in Objects : "success" \notin t.has[p] => ~t.success[p]
    BY <1>2 DEF Good, Clean
  <2>2. ASSUME NEW p \in Objects, NEW g \in StringFields, g \notin t.has[p]
        PROVE  t.heap[t.ptr[p][g]] = << >>
    <3>1. CASE p = o
      BY <1>0, <1>2, <1>3, <3>1
    <3>2. CASE p # o
      <4>1. t.ptr[p][g] = s.ptr[p][g] /\ s.heap[s.ptr[p][g]] = << >>
        BY <1>2, <1>3, <2>2, <3>2 DEF Good, Clean
      <4>2. s.ptr[p][g] \in Cells \cup {kEmptyString}
        BY <1>b
      <4> QED
        BY <1>0, <1>2, <4>1, <4>2
    <3> QED
      BY <3>1, <3>2
  <2> QED
    BY <1>0, <1>2, <2>1, <2>2 DEF Clean
<1>6. Owned(t)
  <2>s. \A p \in Objects, g \in StringFields :
           s.ptr[p][g] # kEmptyString =>
             /\ p \in s.alive /\ s.ptr[p][g] \notin s.held
             /\ \A q \in Objects, e \in StringFields :
                   s.ptr[q][e] = s.ptr[p][g] => q = p /\ e = g
    BY DEF Good, Owned
  <2>1. \A c \in Cells :
          c \in t.allocated <=>
              \/ c \in t.held
              \/ \E p \in Objects, g \in StringFields : t.ptr[p][g] = c
    <3> TAKE c \in Cells
    <3>0. c # kEmptyString
      BY MessagesAssumption
    <3>s. c \in s.allocated <=>
              \/ c \in s.held
              \/ \E p \in Objects, g \in StringFields : s.ptr[p][g] = c
      BY DEF Good, Owned
    <3>1. CASE c \in {a, b}
      <4>1. c \notin t.allocated /\ c \notin t.held
        BY <1>2, <1>e, <3>1
      <4>2. \A p \in Objects, g \in StringFields : t.ptr[p][g] # c
        BY <1>3, <1>d, <3>0, <3>1
      <4> QED
        BY <4>1, <4>2
    <3>2. CASE c \notin {a, b}
      <4>1. (\E p \in Objects, g \in StringFields : t.ptr[p][g] = c)
              <=> \E p \in Objects, g \in StringFields : s.ptr[p][g] = c
        BY <1>3, <1>f, <3>0, <3>2
      <4> QED
        BY <1>2, <3>2, <3>s, <4>1
    <3> QED
      BY <3>1, <3>2
  <2>2. ASSUME NEW p \in Objects, NEW g \in StringFields, t.ptr[p][g] # kEmptyString
        PROVE  /\ p \in t.alive /\ t.ptr[p][g] \notin t.held
               /\ \A q \in Objects, e \in StringFields :
                     t.ptr[q][e] = t.ptr[p][g] => q = p /\ e = g
    <3>1. p # o /\ t.ptr[p][g] = s.ptr[p][g]
      BY <1>3, <2>2
    <3> QED
      BY <1>2, <1>3, <2>2, <2>s, <3>1 DEF A
  <2> QED
    BY <2>1, <2>2 DEF Owned
<1>7. Good(t, F)
  BY <1>2, <1>4, <1>5, <1>6 DEF Good
<1> QED
  BY <1>7, <1>k

-------------------------------------------------------------------------------
(* Clear.                                                                    *)

\* What Clear leaves as it is.
ClearResult(s, t, o, F) ==
    /\ Good(t, F)
    /\ \A p \in Objects : p # o => t.has[p] = s.has[p]
    /\ t.alive = s.alive /\ t.ptr = s.ptr
    /\ t.allocated = s.allocated /\ t.held = s.held

\* The strings of o are empty, and its Boolean field is false.
Cleared(s, o) ==
    /\ \A f \in StringFields : s.heap[s.ptr[o][f]] = << >>
    /\ ~s.success[o]

LEMMA ResetGood ==
    ASSUME NEW F \in SUBSET FieldNames, NEW s, Good(s, F), NEW o \in Objects,
           Cleared(s, o)
    PROVE  ClearResult(s, reset(s, o), o, F)
<1> DEFINE t == reset(s, o)
<1>a. Shaped(s)
  BY DEF Good
<1>0. Emptied(s, t, o)
  <2>1. t = Empty(s, o)
    BY DEF reset, Empty
  <2> QED
    BY <1>a, <2>1, EmptiedUpdate
<1> HIDE DEF t
<1>1. /\ Shaped(t)
      /\ \A p \in Objects : t.has[p] = IF p = o THEN {} ELSE s.has[p]
      /\ t.alive = s.alive /\ t.ptr = s.ptr /\ t.success = s.success
      /\ t.heap = s.heap /\ t.allocated = s.allocated /\ t.held = s.held
  BY <1>0 DEF Emptied
<1>2. Owned(t) /\ Bits(t, F)
  BY <1>1 DEF Good, Owned, Bits
<1>3. Clean(t)
  BY <1>1 DEF Good, Clean, Cleared
<1> QED
  BY <1>1, <1>2, <1>3 DEF Good, ClearResult, t

\* The string of field f of o is empty now, and no string is filled.
EmptyResult(s, t, o, f, F) ==
    /\ WriteResult(s, t, F)
    /\ t.heap[t.ptr[o][f]] = << >>
    /\ \A g \in StringFields : s.heap[s.ptr[o][g]] = << >> => t.heap[t.ptr[o][g]] = << >>

LEMMA EmptiedGood ==
    ASSUME NEW F \in SUBSET FieldNames, NEW s, Good(s, F), NEW o \in Objects,
           NEW f \in StringFields
    PROVE  EmptyResult(s, emptied(s, o, f), o, f, F)
<1>b. s.ptr \in [Objects -> [StringFields -> Cells \cup {kEmptyString}]]
  BY ShapeParts DEF Good
<1>1. CASE f \in s.has[o] /\ s.ptr[o][f] # kEmptyString
  <2> DEFINE t == Write(s, s.ptr[o][f], << >>)
  <2>1. emptied(s, o, f) = t
    BY <1>1 DEF emptied, Write
  <2>2. WriteResult(s, t, F) /\ Written(s, t, s.ptr[o][f], << >>)
    BY <1>1, WrittenGood
  <2> HIDE DEF t
  <2>3. \A g \in StringFields :
           t.heap[t.ptr[o][g]] = IF s.ptr[o][g] = s.ptr[o][f] THEN << >> ELSE s.heap[s.ptr[o][g]]
    BY <2>2, <1>b DEF Written
  <2> QED
    BY <2>1, <2>2, <2>3 DEF EmptyResult
<1>2. CASE ~(f \in s.has[o] /\ s.ptr[o][f] # kEmptyString)
  <2>1. emptied(s, o, f) = s
    BY <1>2 DEF emptied
  <2>2. s.heap[s.ptr[o][f]] = << >>
    BY <1>2 DEF Good, Clean
  <2> QED
    BY <2>1, <2>2 DEF EmptyResult, WriteResult
<1> QED
  BY <1>1, <1>2

\* A field that is not of the class is never set.
LEMMA NotOfClass ==
    ASSUME NEW F \in SUBSET FieldNames, NEW s, Good(s, F), NEW o \in Objects
    PROVE  /\ \A f \in StringFields : f \notin F => s.heap[s.ptr[o][f]] = << >>
           /\ "success" \notin F => ~s.success[o]
BY DEF Good, Clean, Bits

\* The two classes with one string field.
LEMMA OneStringClear ==
    ASSUME NEW f \in StringFields, NEW s, Good(s, {f}), NEW o \in Objects
    PROVE  ClearResult(s, reset(emptied(s, o, f), o), o, {f})
<1> DEFINE F == {f}
           m == emptied(s, o, f)
<1>0. F \in SUBSET FieldNames /\ Good(s, F)
  BY DEF FieldNames, StringFields
<1>s. \A g \in StringFields : g = f \/ g \notin F
  OBVIOUS
<1>t. "success" \notin F
  BY DEF StringFields
<1> HIDE DEF F
<1>1. EmptyResult(s, m, o, f, F)
  BY <1>0, EmptiedGood
<1> HIDE DEF m
<1>2. WriteResult(s, m, F) /\ Good(m, F)
  BY <1>1 DEF EmptyResult, WriteResult
<1>3. Cleared(m, o)
  BY <1>0, <1>1, <1>2, <1>s, <1>t, NotOfClass DEF EmptyResult, Cleared
<1>4. ClearResult(m, reset(m, o), o, F)
  BY <1>0, <1>2, <1>3, ResetGood
<1>5. ClearResult(s, reset(m, o), o, F)
  BY <1>2, <1>4 DEF ClearResult, WriteResult
<1> QED
  BY <1>5 DEF F, m

LEMMA ChatNotifyClear ==
    ASSUME NEW s, Good(s, {"name", "message"}), NEW o \in Objects
    PROVE  ClearResult(s, ChatNotify_Clear(s, o), o, {"name", "message"})
<1> DEFINE F == {"name", "message"}
           l == emptied(s, o, "name")
           m == emptied(l, o, "message")
<1>0. /\ F \in SUBSET FieldNames /\ Good(s, F)
      /\ "message" \in StringFields /\ "name" \in StringFields
  BY DEF FieldNames, StringFields
<1>c. ChatNotify_Clear(s, o) = reset(m, o)
  BY DEF ChatNotify_Clear
<1>s. "success" \notin F
  OBVIOUS
<1> HIDE DEF F
<1>1. EmptyResult(s, l, o, "name", F)
  BY <1>0, EmptiedGood
<1> HIDE DEF l
<1>2. WriteResult(s, l, F) /\ Good(l, F)
  BY <1>1 DEF EmptyResult, WriteResult
<1>3. EmptyResult(l, m, o, "message", F)
  BY <1>0, <1>2, EmptiedGood
<1> HIDE DEF m
<1>4. WriteResult(l, m, F) /\ Good(m, F)
  BY <1>3 DEF EmptyResult, WriteResult
<1>5. Cleared(m, o)
  <2>1. m.heap[m.ptr[o]["name"]] = << >> /\ m.heap[m.ptr[o]["message"]] = << >>
    BY <1>0, <1>1, <1>3 DEF EmptyResult
  <2>2. ~m.success[o]
    BY <1>0, <1>4, <1>s, NotOfClass
  <2> QED
    BY <2>1, <2>2 DEF Cleared, StringFields
<1>6. ClearResult(m, reset(m, o), o, F)
  BY <1>0, <1>4, <1>5, ResetGood
<1>7. ClearResult(s, reset(m, o), o, F)
  BY <1>2, <1>4, <1>6 DEF ClearResult, WriteResult
<1> QED
  BY <1>7, <1>c DEF F

LEMMA LoginResponseClear ==
    ASSUME NEW s, Good(s, {"success"}), NEW o \in Objects
    PROVE  ClearResult(s, LoginResponse_Clear(s, o), o, {"success"})
<1> DEFINE F == {"success"}
           m == IF s.has[o] # {} THEN [s EXCEPT !.success[o] = FALSE] ELSE s
<1>0. /\ F \in SUBSET FieldNames /\ Good(s, F)
      /\ "message" \notin F /\ "name" \notin F
  BY DEF FieldNames
<1>c. LoginResponse_Clear(s, o) = reset(m, o)
  BY DEF LoginResponse_Clear
<1>a. Shaped(s)
  BY DEF Good
<1> HIDE DEF F
<1>1. /\ Shaped(m) /\ ~m.success[o]
      /\ \A p \in Objects : p # o => m.success[p] = s.success[p]
      /\ m.alive = s.alive /\ m.ptr = s.ptr /\ m.has = s.has
      /\ m.heap = s.heap /\ m.allocated = s.allocated /\ m.held = s.held
  <2>1. CASE s.has[o] = {}
    <3>1. "success" \notin s.has[o]
      BY <2>1
    <3>2. ~s.success[o]
      BY <1>0, <3>1 DEF Good, Clean
    <3>3. m = s
      BY <2>1
    <3> HIDE DEF m
    <3> QED
      BY <1>a, <3>2, <3>3
  <2>2. CASE s.has[o] # {}
    <3>1. PICK V, U : << >> \in V /\ << >> \in U /\ s \in States(V, U)
      BY <1>a DEF Shaped
    <3>2. m = [s EXCEPT !.success[o] = FALSE]
      BY <2>2
    <3> HIDE DEF m
    <3>3. m \in States(V, U)
      BY <3>1, <3>2 DEF States
    <3>4. /\ ~m.success[o]
          /\ \A p \in Objects : p # o => m.success[p] = s.success[p]
          /\ m.alive = s.alive /\ m.ptr = s.ptr /\ m.has = s.has
          /\ m.heap = s.heap /\ m.allocated = s.allocated /\ m.held = s.held
      BY <3>1, <3>2 DEF States
    <3> QED
      BY <3>1, <3>3, <3>4 DEF Shaped
  <2> QED
    BY <2>1, <2>2
<1> HIDE DEF m
<1>2. Owned(m) /\ Bits(m, F)
  BY <1>0, <1>1 DEF Good, Owned, Bits
<1>3. Clean(m)
  BY <1>0, <1>1 DEF Good, Clean
<1>4. Good(m, F)
  BY <1>1, <1>2, <1>3 DEF Good
<1>5. Cleared(m, o)
  BY <1>0, <1>1, <1>4, NotOfClass DEF Cleared, StringFields
<1>6. ClearResult(m, reset(m, o), o, F)
  BY <1>0, <1>4, <1>5, ResetGood
<1>7. ClearResult(s, reset(m, o), o, F)
  BY <1>1, <1>6 DEF ClearResult
<1> QED
  BY <1>7, <1>c DEF F

-------------------------------------------------------------------------------
(* MergeFrom.                                                                *)

LEMMA ExtendGood ==
    ASSUME NEW F \in SUBSET FieldNames, NEW s, Good(s, F), NEW o \in Objects, NEW x
    PROVE  /\ Good(Extend(s, o, x), F)
           /\ Extend(s, o, x).alive = s.alive /\ Extend(s, o, x).ptr = s.ptr
           /\ Extend(s, o, x).allocated = s.allocated
<1> DEFINE t == Extend(s, o, x)
<1>1. Extended(s, t, o, x)
  BY UnknownUpdate DEF Good
<1> HIDE DEF t
<1>2. /\ Shaped(t)
      /\ t.alive = s.alive /\ t.has = s.has /\ t.ptr = s.ptr
      /\ t.success = s.success /\ t.heap = s.heap /\ t.allocated = s.allocated
      /\ t.held = s.held
  BY <1>1 DEF Extended
<1>3. Owned(t) /\ Clean(t) /\ Bits(t, F)
  BY <1>2 DEF Good, Owned, Clean, Bits
<1> QED
  BY <1>2, <1>3 DEF Good, t

\* The strings there must be room for when MergeFrom is called.
Needed(s, from) == s.has[from] \cap StringFields

CopyResult(s, t, o, from, F) ==
    /\ Good(t, F) /\ Space(t, o, Needed(t, from))
    /\ t.has[from] = s.has[from] /\ t.alive = s.alive

LEMMA CopiedGood ==
    ASSUME NEW F \in SUBSET FieldNames, NEW s, Good(s, F), NEW o \in Objects, o \in s.alive,
           NEW from \in Objects, from # o, NEW f \in F, f \in StringFields,
           Space(s, o, Needed(s, from))
    PROVE  CopyResult(s, copied(s, o, from, f), o, from, F)
<1> DEFINE value == string(s, from, f)
           t == set(s, o, f, value)
           G == Needed(s, from)
<1>1. CASE f \in s.has[from]
  <2>1. copied(s, o, from, f) = t
    BY <1>1 DEF copied
  <2>2. Shaped(s) /\ f \in G /\ G \in SUBSET StringFields
    BY <1>1 DEF Good, Needed
  <2> HIDE DEF value, G
  <2>3. s.ptr[o][f] = kEmptyString => \E n \in Cells : n \notin s.allocated
    BY <2>2, SpaceFree DEF G
  <2>4. SetResult(s, t, o, f, F)
    BY <2>3, SetGood
  <2> HIDE DEF t
  <2>5. Good(t, F) /\ Grown(s, t, o, f) /\ t.has[from] = s.has[from] /\ t.alive = s.alive
    BY <2>4 DEF SetResult, Marked
  <2>6. Space(t, o, G)
    BY <2>2, <2>5, SpaceLeft DEF G
  <2>7. Needed(t, from) = G
    BY <2>5 DEF Needed, G
  <2> QED
    BY <2>1, <2>5, <2>6, <2>7 DEF CopyResult
<1>2. CASE f \notin s.has[from]
  BY <1>2 DEF copied, CopyResult
<1> QED
  BY <1>1, <1>2

\* The length of the unknown fields does not matter, nor what they are.
LEMMA MergedGood ==
    ASSUME NEW F \in SUBSET FieldNames, NEW s, Good(s, F), NEW o \in Objects, NEW from
    PROVE  Good(merged(s, o, from), F)
<1>1. merged(s, o, from) = Extend(s, o, s.unknown[o] \o s.unknown[from])
  BY DEF merged, Extend
<1> QED
  BY <1>1, ExtendGood

\* The two classes with one string field.
LEMMA OneStringMerge ==
    ASSUME NEW f \in StringFields, NEW s, Good(s, {f}), NEW o \in Objects, o \in s.alive,
           NEW from \in Objects, from # o, Space(s, o, Needed(s, from))
    PROVE  Good(merged(copied(s, o, from, f), o, from), {f})
<1> DEFINE F == {f}
           m == copied(s, o, from, f)
<1>0. F \in SUBSET FieldNames /\ Good(s, F) /\ f \in F
  BY DEF FieldNames
<1> HIDE DEF F
<1>1. CopyResult(s, m, o, from, F)
  BY <1>0, CopiedGood
<1> HIDE DEF m
<1>2. Good(merged(m, o, from), F)
  BY <1>0, <1>1, MergedGood DEF CopyResult
<1> QED
  BY <1>2 DEF F, m

LEMMA ChatNotifyMerge ==
    ASSUME NEW s, Good(s, {"name", "message"}), NEW o \in Objects, o \in s.alive,
           NEW from \in Objects, from # o, Space(s, o, Needed(s, from))
    PROVE  Good(ChatNotify_MergeFrom(s, o, from), {"name", "message"})
<1> DEFINE F == {"name", "message"}
           l == copied(s, o, from, "name")
           m == copied(l, o, from, "message")
<1>0. /\ F \in SUBSET FieldNames /\ Good(s, F)
      /\ "name" \in F /\ "name" \in StringFields
      /\ "message" \in F /\ "message" \in StringFields
  BY DEF FieldNames, StringFields
<1>c. ChatNotify_MergeFrom(s, o, from) = merged(m, o, from)
  BY DEF ChatNotify_MergeFrom
<1> HIDE DEF F
<1>1. CopyResult(s, l, o, from, F)
  BY <1>0, CopiedGood
<1> HIDE DEF l
<1>2. Good(l, F) /\ o \in l.alive /\ Space(l, o, Needed(l, from))
  BY <1>1 DEF CopyResult
<1>3. Good(m, F)
  BY <1>0, <1>2, CopiedGood DEF CopyResult
<1> HIDE DEF m
<1>4. Good(merged(m, o, from), F)
  BY <1>0, <1>3, MergedGood
<1> QED
  BY <1>4, <1>c DEF F

LEMMA LoginResponseMerge ==
    ASSUME NEW s, Good(s, {"success"}), NEW o \in Objects, NEW from \in Objects
    PROVE  Good(LoginResponse_MergeFrom(s, o, from), {"success"})
<1> DEFINE F == {"success"}
           m == IF "success" \in s.has[from] THEN set_success(s, o, s.success[from]) ELSE s
<1>0. F \in SUBSET FieldNames /\ Good(s, F) /\ "success" \in F /\ s.success[from] \in BOOLEAN
  BY ShapeParts DEF FieldNames, Good
<1>c. LoginResponse_MergeFrom(s, o, from) = merged(m, o, from)
  BY DEF LoginResponse_MergeFrom
<1> HIDE DEF F
<1>1. Good(m, F)
  BY <1>0, SuccessGood
<1> HIDE DEF m
<1>2. Good(merged(m, o, from), F)
  BY <1>0, <1>1, MergedGood
<1> QED
  BY <1>2, <1>c DEF F

-------------------------------------------------------------------------------
(* The strings of the caller, and Swap.                                      *)

LEMMA NewStringGood ==
    ASSUME NEW F \in SUBSET FieldNames, NEW s, Good(s, F), NEW n \in Cells,
           n \notin s.allocated, NEW value
    PROVE  Good(Keep(s, n, value), F)
<1> DEFINE t == Keep(s, n, value)
<1>0. /\ Shaped(s) /\ n # kEmptyString
  BY MessagesAssumption DEF Good
<1>b. /\ s.ptr \in [Objects -> [StringFields -> Cells \cup {kEmptyString}]]
  BY <1>0, ShapeParts
<1>k. Kept(s, t, n, value)
  BY <1>0, HoldUpdate
<1> HIDE DEF t
<1>1. /\ Shaped(t)
      /\ \A d \in Cells \cup {kEmptyString} :
            t.heap[d] = IF d = n THEN value ELSE s.heap[d]
      /\ t.allocated = s.allocated \cup {n}
      /\ t.held = s.held \cup {n}
      /\ t.alive = s.alive /\ t.has = s.has /\ t.ptr = s.ptr
      /\ t.success = s.success
  BY <1>k DEF Kept
<1>2. \A p \in Objects, g \in StringFields : s.ptr[p][g] # n
  BY DEF Good, Owned
<1>3. Owned(t)
  BY <1>1, <1>2 DEF Good, Owned
<1>4. Clean(t)
  BY <1>0, <1>1, <1>2, <1>b DEF Good, Clean
<1>5. Bits(t, F)
  BY <1>1 DEF Good, Bits
<1> QED
  BY <1>1, <1>3, <1>4, <1>5 DEF Good, t

LEMMA DeleteStringGood ==
    ASSUME NEW F \in SUBSET FieldNames, NEW s, Good(s, F), NEW c \in s.held
    PROVE  Good([delete(s, c) EXCEPT !.held = @ \ {c}], F)
<1> DEFINE m == delete(s, c)
           H == s.held \ {c}
           t == Hold(m, H)
<1>a. Shaped(s)
  BY DEF Good
<1>b. /\ s.ptr \in [Objects -> [StringFields -> Cells \cup {kEmptyString}]]
      /\ s.held \subseteq Cells
  BY <1>a, ShapeParts
<1>c. c \in Cells /\ c \in Cells \cup {kEmptyString} /\ H \in SUBSET Cells
  BY <1>b
<1>1. Deleted(s, m, c)
  BY <1>a, <1>c, DeleteDone
<1> HIDE DEF m, H
<1>2. /\ Shaped(m)
      /\ m.heap[kEmptyString] = s.heap[kEmptyString]
      /\ \A d \in Cells : m.heap[d] = IF d = c THEN << >> ELSE s.heap[d]
      /\ m.allocated = s.allocated \ {c}
      /\ m.alive = s.alive /\ m.has = s.has /\ m.ptr = s.ptr
      /\ m.success = s.success /\ m.held = s.held
  BY <1>1 DEF Deleted
<1>3. [m EXCEPT !.held = @ \ {c}] = t
  BY <1>2 DEF Hold, H
<1>4. Held(m, t, H)
  BY <1>2, <1>c, HeldUpdate
<1> HIDE DEF t
<1>5. /\ Shaped(t) /\ t.held = H
      /\ t.alive = s.alive /\ t.has = s.has /\ t.ptr = s.ptr
      /\ t.success = s.success /\ t.heap = m.heap /\ t.allocated = s.allocated \ {c}
  BY <1>2, <1>4 DEF Held
<1>6. \A p \in Objects, g \in StringFields : s.ptr[p][g] # c
  BY <1>c, MessagesAssumption DEF Good, Owned
<1>7. Owned(t)
  BY <1>5, <1>6 DEF Good, Owned, H
<1>8. Clean(t)
  BY <1>2, <1>5, <1>b DEF Good, Clean
<1>9. Bits(t, F)
  BY <1>5 DEF Good, Bits
<1>10. Good(t, F)
  BY <1>5, <1>7, <1>8, <1>9 DEF Good
<1> QED
  BY <1>10, <1>3 DEF m

LEMMA SwapGood ==
    ASSUME NEW F \in SUBSET FieldNames, NEW s, Good(s, F), NEW o \in Objects,
           NEW p \in Objects, o # p, o \in s.alive, p \in s.alive
    PROVE  Good(Exchange(s, o, p), F)
<1> DEFINE t == Exchange(s, o, p)
           other(q) == IF q = o THEN p ELSE IF q = p THEN o ELSE q
<1>0. Exchanged(s, t, o, p)
  BY SwapUpdate DEF Good
<1> HIDE DEF t
<1>1. /\ Shaped(t)
      /\ t.alive = s.alive /\ t.heap = s.heap /\ t.allocated = s.allocated
      /\ t.held = s.held
  BY <1>0 DEF Exchanged
<1>2. \A q \in Objects :
         /\ t.has[q] = s.has[other(q)] /\ t.ptr[q] = s.ptr[other(q)]
         /\ t.success[q] = s.success[other(q)]
  BY <1>0 DEF Exchanged
<1>3. \A q \in Objects :
         /\ other(q) \in Objects /\ other(other(q)) = q
         /\ q \in s.alive <=> other(q) \in s.alive
  OBVIOUS
<1>i. \A q, r \in Objects : other(q) = other(r) => q = r
  BY <1>3
<1> HIDE DEF other
<1>4. Owned(t)
  <2>s. \A q \in Objects, g \in StringFields :
           s.ptr[q][g] # kEmptyString =>
             /\ q \in s.alive /\ s.ptr[q][g] \notin s.held
             /\ \A r \in Objects, e \in StringFields :
                   s.ptr[r][e] = s.ptr[q][g] => r = q /\ e = g
    BY DEF Good, Owned
  <2>1. \A c \in Cells :
           (\E q \in Objects, g \in StringFields : t.ptr[q][g] = c)
              <=> \E q \in Objects, g \in StringFields : s.ptr[q][g] = c
    <3> TAKE c \in Cells
    <3>1. ASSUME NEW q \in Objects, NEW g \in StringFields, t.ptr[q][g] = c
          PROVE  \E r \in Objects, e \in StringFields : s.ptr[r][e] = c
      <4>1. other(q) \in Objects /\ s.ptr[other(q)][g] = c
        BY <1>2, <1>3, <3>1
      <4> QED
        BY <4>1
    <3>2. ASSUME NEW q \in Objects, NEW g \in StringFields, s.ptr[q][g] = c
          PROVE  \E r \in Objects, e \in StringFields : t.ptr[r][e] = c
      <4>1. other(q) \in Objects /\ t.ptr[other(q)][g] = c
        BY <1>2, <1>3, <3>2
      <4> QED
        BY <4>1
    <3> QED
      BY <3>1, <3>2
  <2>2. \A c \in Cells :
          c \in t.allocated <=>
              \/ c \in t.held
              \/ \E q \in Objects, g \in StringFields : t.ptr[q][g] = c
    BY <1>1, <2>1 DEF Good, Owned
  <2>3. ASSUME NEW q \in Objects, NEW g \in StringFields, t.ptr[q][g] # kEmptyString
        PROVE  /\ q \in t.alive /\ t.ptr[q][g] \notin t.held
               /\ \A r \in Objects, e \in StringFields :
                     t.ptr[r][e] = t.ptr[q][g] => r = q /\ e = g
    <3>1. other(q) \in Objects /\ t.ptr[q][g] = s.ptr[other(q)][g]
      BY <1>2, <1>3
    <3>2. /\ other(q) \in s.alive /\ s.ptr[other(q)][g] \notin s.held
          /\ \A r \in Objects, e \in StringFields :
                s.ptr[r][e] = s.ptr[other(q)][g] => r = other(q) /\ e = g
      BY <2>3, <2>s, <3>1
    <3>3. ASSUME NEW r \in Objects, NEW e \in StringFields, t.ptr[r][e] = t.ptr[q][g]
          PROVE  r = q /\ e = g
      <4>1. other(r) \in Objects /\ s.ptr[other(r)][e] = s.ptr[other(q)][g]
        BY <1>2, <1>3, <3>1, <3>3
      <4>2. other(r) = other(q) /\ e = g
        BY <3>2, <4>1
      <4> QED
        BY <1>i, <4>2
    <3> QED
      BY <1>1, <1>3, <3>1, <3>2, <3>3
  <2> QED
    BY <2>2, <2>3 DEF Owned
<1>5. Clean(t)
  BY <1>1, <1>2, <1>3 DEF Good, Clean
<1>6. Bits(t, F)
  BY <1>2, <1>3 DEF Good, Bits
<1> QED
  BY <1>1, <1>4, <1>5, <1>6 DEF Good, t

-------------------------------------------------------------------------------
(* The calls through Message.                                                *)

LEMMA SpaceSame ==
    ASSUME NEW s, NEW t, NEW o, NEW G, Space(s, o, G), t.allocated = s.allocated,
           \A g \in G : t.ptr[o][g] = s.ptr[o][g]
    PROVE  Space(t, o, G)
<1>1. {g \in G : t.ptr[o][g] = kEmptyString} = {g \in G : s.ptr[o][g] = kEmptyString}
  OBVIOUS
<1> QED
  BY <1>1 DEF Space

LEMMA FieldsOfClass ==
    ASSUME class \in Classes
    PROVE  /\ Fields[class] \in SUBSET FieldNames
           /\ {x.field : x \in SchemaFields} = Fields[class]
<1>1. Fields[class] \in SUBSET FieldNames
  BY DEF Classes, Fields, FieldNames, StringFields
<1>2. ASSUME NEW f, NEW number, NEW type, Schema[class] = <<Field(f, number, type)>>
      PROVE  {x.field : x \in SchemaFields} = {f}
  <2>1. Len(Schema[class]) = 1 /\ Schema[class][1].field = f
    BY <1>2 DEF Field
  <2> HIDE DEF Schema
  <2>2. 1 .. Len(Schema[class]) = {1}
    BY <2>1
  <2>3. SchemaFields = {Schema[class][1]}
    BY <2>2 DEF SchemaFields
  <2> QED
    BY <2>1, <2>3
<1>3. CASE class = "ChatNotify"
  <2>1. /\ Len(Schema[class]) = 2
        /\ Schema[class][1].field = "name" /\ Schema[class][2].field = "message"
    BY <1>3 DEF Schema, Field
  <2>2. 1 .. Len(Schema[class]) = {1, 2}
    BY <2>1
  <2>3. SchemaFields = {Schema[class][1], Schema[class][2]}
    BY <2>2 DEF SchemaFields
  <2>4. {x.field : x \in SchemaFields} = {"name", "message"}
    BY <2>1, <2>3
  <2> QED
    BY <1>1, <1>3, <2>4 DEF Fields
<1>4. CASE class = "LoginRequest"
  <2>1. Schema[class] = <<Field("name", 1, LENGTH_DELIMITED)>>
    BY <1>4 DEF Schema
  <2> QED
    BY <1>1, <1>2, <1>4, <2>1 DEF Fields
<1>5. CASE class = "LoginResponse"
  <2>1. Schema[class] = <<Field("success", 2, VARINT)>>
    BY <1>5 DEF Schema
  <2> QED
    BY <1>1, <1>2, <1>5, <2>1 DEF Fields
<1>6. CASE class = "ChatRequest"
  <2>1. Schema[class] = <<Field("message", 3, LENGTH_DELIMITED)>>
    BY <1>6 DEF Schema
  <2> QED
    BY <1>1, <1>2, <1>6, <2>1 DEF Fields
<1> QED
  BY <1>1, <1>3, <1>4, <1>5, <1>6 DEF Classes

LEMMA ClassClear ==
    ASSUME class \in Classes, NEW s, Good(s, Fields[class]), NEW o \in Objects
    PROVE  ClearResult(s, Clear(s, o), o, Fields[class])
<1>1. CASE class = "LoginRequest"
  <2>1. Clear(s, o) = reset(emptied(s, o, "name"), o) /\ Fields[class] = {"name"}
    BY <1>1 DEF Clear, LoginRequest_Clear, Fields
  <2> QED
    BY <2>1, OneStringClear DEF StringFields
<1>2. CASE class = "LoginResponse"
  <2>1. Clear(s, o) = LoginResponse_Clear(s, o) /\ Fields[class] = {"success"}
    BY <1>2 DEF Clear, Fields
  <2> QED
    BY <2>1, LoginResponseClear
<1>3. CASE class = "ChatRequest"
  <2>1. Clear(s, o) = reset(emptied(s, o, "message"), o) /\ Fields[class] = {"message"}
    BY <1>3 DEF Clear, ChatRequest_Clear, Fields
  <2> QED
    BY <2>1, OneStringClear DEF StringFields
<1>4. CASE class = "ChatNotify"
  <2>1. Clear(s, o) = ChatNotify_Clear(s, o) /\ Fields[class] = {"name", "message"}
    BY <1>4 DEF Clear, Fields
  <2> QED
    BY <2>1, ChatNotifyClear
<1> QED
  BY <1>1, <1>2, <1>3, <1>4 DEF Classes

LEMMA ClassMerge ==
    ASSUME class \in Classes, NEW s, Good(s, Fields[class]), NEW o \in Objects,
           o \in s.alive, NEW from \in Objects, from # o, Space(s, o, Needed(s, from))
    PROVE  Good(MergeFrom(s, o, from), Fields[class])
<1>1. CASE class = "LoginRequest"
  <2>1. /\ MergeFrom(s, o, from) = merged(copied(s, o, from, "name"), o, from)
        /\ Fields[class] = {"name"}
    BY <1>1 DEF MergeFrom, LoginRequest_MergeFrom, Fields
  <2> QED
    BY <2>1, OneStringMerge DEF StringFields
<1>2. CASE class = "LoginResponse"
  <2>1. MergeFrom(s, o, from) = LoginResponse_MergeFrom(s, o, from) /\ Fields[class] = {"success"}
    BY <1>2 DEF MergeFrom, Fields
  <2> QED
    BY <2>1, LoginResponseMerge
<1>3. CASE class = "ChatRequest"
  <2>1. /\ MergeFrom(s, o, from) = merged(copied(s, o, from, "message"), o, from)
        /\ Fields[class] = {"message"}
    BY <1>3 DEF MergeFrom, ChatRequest_MergeFrom, Fields
  <2> QED
    BY <2>1, OneStringMerge DEF StringFields
<1>4. CASE class = "ChatNotify"
  <2>1. /\ MergeFrom(s, o, from) = ChatNotify_MergeFrom(s, o, from)
        /\ Fields[class] = {"name", "message"}
    BY <1>4 DEF MergeFrom, Fields
  <2> QED
    BY <2>1, ChatNotifyMerge
<1> QED
  BY <1>1, <1>2, <1>3, <1>4 DEF Classes

-------------------------------------------------------------------------------
(* The actions.                                                              *)

StringsOfClass == Fields[class] \cap StringFields

\* While a content is parsed there is room for the strings that are not made yet.
RoomLeft ==
    at \in {"ReadTag", "parse_message"} =>
        /\ target \in Objects /\ target \in state.alive
        /\ Space(state, target, StringsOfClass)

\* The inductive invariant.
IInv ==
    /\ class \in Classes
    /\ Good(state, Fields[class])
    /\ RoomLeft

LEMMA IInvInit == Init => IInv
<1> SUFFICES ASSUME Init PROVE IInv
  OBVIOUS
<1>1. state \in States({<< >>}, {<< >>})
  BY DEF Init, States
<1>2. Shaped(state)
  BY <1>1 DEF Shaped
<1>3. Owned(state)
  BY MessagesAssumption DEF Init, Owned
<1>4. Clean(state)
  BY DEF Init, Clean
<1>5. Bits(state, Fields[class])
  BY DEF Init, Bits
<1> QED
  BY <1>2, <1>3, <1>4, <1>5 DEF Init, IInv, Good, RoomLeft

\* What the actions are proved from.
LEMMA AtCall ==
    ASSUME IInv
    PROVE  /\ class \in Classes /\ Fields[class] \in SUBSET FieldNames
           /\ Good(state, Fields[class]) /\ state.alive \subseteq Objects
BY FieldsOfClass, ShapeParts DEF IInv, Good

\* A call that leaves a good state preserves the invariant.
LEMMA CallGood ==
    ASSUME IInv, NEW t, Good(t, Fields[class]), Call(t)
    PROVE  IInv'
<1>1. class' = class /\ at' = "idle" /\ state' = t
  BY DEF Call, parse_vars
<1> QED
  BY <1>1 DEF IInv, RoomLeft

LEMMA RoomIsSpace ==
    ASSUME NEW o, NEW G, Room(o, G)
    PROVE  Space(state, o, G)
BY DEF Room, Space

LEMMA RoomForOne ==
    ASSUME NEW o \in Objects, NEW f, Shaped(state), Room(o, {f})
    PROVE  state.ptr[o][f] = kEmptyString => \E n \in Cells : n \notin state.allocated
<1> DEFINE G == {f}
<1>1. Space(state, o, G) /\ f \in G
  BY RoomIsSpace
<1> HIDE DEF G
<1> QED
  BY <1>1, SpaceFree

LEMMA StepConstruct == ASSUME IInv, NEW o \in Objects, Construct(o) PROVE IInv'
<1>1. Good(SharedCtor(state, o), Fields[class])
  BY AtCall, ConstructGood DEF Construct
<1> QED
  BY <1>1, CallGood DEF Construct

LEMMA StepCopyConstruct ==
    ASSUME IInv, NEW o \in Objects, NEW from \in Objects, CopyConstruct(o, from)
    PROVE  IInv'
<1> DEFINE m == SharedCtor(state, o)
<1>0. /\ o \notin state.alive /\ from # o
      /\ Space(state, o, Needed(state, from))
      /\ Call(MergeFrom(m, o, from))
  BY RoomIsSpace DEF CopyConstruct, Needed
<1>1. /\ Good(m, Fields[class]) /\ SameStrings(state, m)
      /\ m.alive = state.alive \cup {o}
      /\ \A p \in Objects : p # o => m.has[p] = state.has[p]
  <2>1. Fields[class] \in SUBSET FieldNames /\ Good(state, Fields[class]) /\ o \notin state.alive
    BY <1>0, AtCall
  <2>2. /\ Good(SharedCtor(state, o), Fields[class]) /\ SameStrings(state, SharedCtor(state, o))
        /\ SharedCtor(state, o).alive = state.alive \cup {o}
        /\ \A p \in Objects : p # o => SharedCtor(state, o).has[p] = state.has[p]
    BY <2>1, ConstructGood
  <2> QED
    BY <2>2
<1> HIDE DEF m
<1>2. Needed(m, from) = Needed(state, from) /\ Needed(state, from) \subseteq StringFields
  BY <1>0, <1>1 DEF Needed
<1>3. Space(m, o, Needed(m, from))
  BY <1>0, <1>1, <1>2, SpaceSame DEF SameStrings
<1>4. Good(MergeFrom(m, o, from), Fields[class])
  <2>1. o \in m.alive /\ class \in Classes
    BY <1>1, AtCall
  <2> QED
    BY <1>0, <1>1, <1>3, <2>1, ClassMerge
<1> QED
  BY <1>0, <1>4, CallGood

LEMMA StepDestroy == ASSUME IInv, NEW o \in Objects, Destroy(o) PROVE IInv'
<1>1. Good(destroyed(state, o), Fields[class])
  BY AtCall, DestroyGood
<1> QED
  BY <1>1, CallGood DEF Destroy

LEMMA StepNewString == ASSUME IInv, NEW value, NewString(value) PROVE IInv'
<1> DEFINE n == new(state)
           t == Keep(state, n, value)
<1>0. \E c \in Cells : c \notin state.allocated
  BY AtCall, ShapeParts DEF NewString, Good
<1>1. n \in Cells /\ n \notin state.allocated
  BY <1>0 DEF new
<1>2. Call(t)
  BY DEF NewString, Keep
<1> HIDE DEF n
<1>3. Good(t, Fields[class])
  BY <1>1, AtCall, NewStringGood
<1> QED
  BY <1>2, <1>3, CallGood

LEMMA StepDeleteString == ASSUME IInv, NEW c, DeleteString(c) PROVE IInv'
<1>1. Good([delete(state, c) EXCEPT !.held = @ \ {c}], Fields[class])
  BY AtCall, DeleteStringGood DEF DeleteString
<1> QED
  BY <1>1, CallGood DEF DeleteString

LEMMA StepString ==
    ASSUME IInv, NEW o \in Objects, NEW f \in Fields[class], f \in StringFields,
           StringCall(o, f)
    PROVE  IInv'
<1>0. /\ class \in Classes /\ Fields[class] \in SUBSET FieldNames
      /\ Good(state, Fields[class]) /\ o \in state.alive /\ Shaped(state)
  BY AtCall DEF StringCall, Good
<1>1. CASE Room(o, {f}) /\ \E value \in Strings : Call(set(state, o, f, value))
  <2>1. PICK value \in Strings : Call(set(state, o, f, value))
    BY <1>1
  <2>2. state.ptr[o][f] = kEmptyString => \E n \in Cells : n \notin state.allocated
    BY <1>0, <1>1, RoomForOne
  <2>3. SetResult(state, set(state, o, f, value), o, f, Fields[class])
    BY <1>0, <2>2, SetGood
  <2>4. Good(set(state, o, f, value), Fields[class])
    BY <2>3 DEF SetResult
  <2> QED
    BY <2>1, <2>4, CallGood
<1>2. CASE Room(o, {f}) /\ Call(mutable(state, o, f))
  <2>2. state.ptr[o][f] = kEmptyString => \E n \in Cells : n \notin state.allocated
    BY <1>0, <1>2, RoomForOne
  <2>3. SetResult(state, mutable(state, o, f), o, f, Fields[class])
    BY <1>0, <2>2, MutableGood
  <2>4. Good(mutable(state, o, f), Fields[class])
    BY <2>3 DEF SetResult
  <2> QED
    BY <1>2, <2>4, CallGood
<1>3. CASE Call(clear(state, o, f))
  <2>1. Good(clear(state, o, f), Fields[class])
    BY <1>0, ClearGood
  <2> QED
    BY <1>3, <2>1, CallGood
<1>4. CASE Call(release(state, o, f))
  <2>1. Good(release(state, o, f), Fields[class])
    BY <1>0, ReleaseGood
  <2> QED
    BY <1>4, <2>1, CallGood
<1>5. CASE \E c \in state.held \cup {NULL} : Call(set_allocated(state, o, f, c))
  <2>1. PICK c \in state.held \cup {NULL} : Call(set_allocated(state, o, f, c))
    BY <1>5
  <2>2. Good(set_allocated(state, o, f, c), Fields[class])
    BY <1>0, SetAllocatedGood
  <2> QED
    BY <2>1, <2>2, CallGood
<1> QED
  BY <1>1, <1>2, <1>3, <1>4, <1>5 DEF StringCall

LEMMA StepAccessor ==
    ASSUME IInv, NEW o \in Objects,
           \/ LoginRequest_name(o) \/ ChatRequest_message(o)
           \/ ChatNotify_name(o) \/ ChatNotify_message(o)
    PROVE  IInv'
<1>1. PICK f \in StringFields : f \in Fields[class] /\ StringCall(o, f)
  BY DEF LoginRequest_name, ChatRequest_message, ChatNotify_name, ChatNotify_message,
         Fields, StringFields
<1> QED
  BY <1>1, StepString

LEMMA StepSuccess == ASSUME IInv, NEW o \in Objects, LoginResponse_success(o) PROVE IInv'
<1>0. "success" \in Fields[class]
  BY DEF LoginResponse_success, Fields
<1>1. CASE \E value \in BOOLEAN : Call(set_success(state, o, value))
  <2>1. PICK value \in BOOLEAN : Call(set_success(state, o, value))
    BY <1>1
  <2>2. Good(set_success(state, o, value), Fields[class])
    BY <1>0, AtCall, SuccessGood
  <2> QED
    BY <2>1, <2>2, CallGood
<1>2. CASE Call(clear_success(state, o))
  <2>1. Good(clear_success(state, o), Fields[class])
    <3>1. TRUE \in BOOLEAN
      OBVIOUS
    <3> QED
      BY <1>0, <3>1, AtCall, SuccessGood
  <2> QED
    BY <1>2, <2>1, CallGood
<1> QED
  BY <1>1, <1>2 DEF LoginResponse_success

LEMMA StepUnknown == ASSUME IInv, NEW o \in Objects, UnknownCall(o) PROVE IInv'
<1> DEFINE x == Append(state.unknown[o], [number |-> 7, type |-> VARINT, value |-> 1])
<1>1. Call(Extend(state, o, x))
  BY DEF UnknownCall, Extend
<1> HIDE DEF x
<1>2. Good(Extend(state, o, x), Fields[class])
  BY AtCall, ExtendGood
<1> QED
  BY <1>1, <1>2, CallGood

LEMMA StepClear == ASSUME IInv, NEW o \in Objects, ClearCall(o) PROVE IInv'
<1>1. ClearResult(state, Clear(state, o), o, Fields[class])
  BY AtCall, ClassClear
<1>2. Good(Clear(state, o), Fields[class])
  BY <1>1 DEF ClearResult
<1> QED
  BY <1>2, CallGood DEF ClearCall

LEMMA StepMerge ==
    ASSUME IInv, NEW o \in Objects, NEW from \in Objects, MergeCall(o, from)
    PROVE  IInv'
<1>1. o # from /\ o \in state.alive /\ Space(state, o, Needed(state, from))
  BY RoomIsSpace DEF MergeCall, Needed
<1>2. Good(MergeFrom(state, o, from), Fields[class])
  BY <1>1, AtCall, ClassMerge
<1> QED
  BY <1>2, CallGood DEF MergeCall

LEMMA StepCopy ==
    ASSUME IInv, NEW o \in Objects, NEW from \in Objects, CopyCall(o, from)
    PROVE  IInv'
<1> DEFINE m == Clear(state, o)
<1>0. /\ o # from /\ o \in state.alive /\ Space(state, o, Needed(state, from))
      /\ Call(MergeFrom(m, o, from))
  BY RoomIsSpace DEF CopyCall, CopyFrom, Needed
<1>1. ClearResult(state, m, o, Fields[class])
  BY AtCall, ClassClear
<1> HIDE DEF m
<1>2. /\ Good(m, Fields[class]) /\ m.has[from] = state.has[from]
      /\ m.alive = state.alive /\ m.ptr = state.ptr /\ m.allocated = state.allocated
  BY <1>0, <1>1 DEF ClearResult
<1>n. Needed(m, from) = Needed(state, from)
  BY <1>2 DEF Needed
<1>3. Space(m, o, Needed(m, from))
  <2>1. \A g \in Needed(state, from) : m.ptr[o][g] = state.ptr[o][g]
    BY <1>2
  <2>2. Space(state, o, Needed(state, from)) /\ m.allocated = state.allocated
    BY <1>0, <1>2
  <2>3. Space(m, o, Needed(state, from))
    BY <2>1, <2>2, SpaceSame
  <2> QED
    BY <2>3, <1>n
<1>4. Good(MergeFrom(m, o, from), Fields[class])
  BY <1>0, <1>2, <1>3, AtCall, ClassMerge
<1> QED
  BY <1>0, <1>4, CallGood

LEMMA StepSwap ==
    ASSUME IInv, NEW o \in Objects, NEW p \in Objects, SwapCall(o, p)
    PROVE  IInv'
<1>1. o # p /\ o \in state.alive /\ p \in state.alive /\ Call(Exchange(state, o, p))
  BY DEF SwapCall, Exchange
<1>2. Good(Exchange(state, o, p), Fields[class])
  BY <1>1, AtCall, SwapGood
<1> QED
  BY <1>1, <1>2, CallGood

-------------------------------------------------------------------------------
(* Parsing.                                                                  *)

\* What a step of the parser does to the state.
ParseStep(t) ==
    /\ Good(t, Fields[class])
    /\ t.alive = state.alive
    /\ Space(t, target, StringsOfClass)

LEMMA ParserGood ==
    ASSUME IInv, ParseStep(state'), class' = class, target' = target,
           target \in Objects /\ target \in state.alive
    PROVE  IInv'
BY DEF IInv, RoomLeft, ParseStep, StringsOfClass

LEMMA ParseString ==
    ASSUME IInv, at \in {"ReadTag", "parse_message"}, NEW f \in Fields[class],
           f \in StringFields, NEW value
    PROVE  ParseStep(set(state, target, f, value)) /\ ParseStep(mutable(state, target, f))
<1> DEFINE G == StringsOfClass
<1>0. /\ Fields[class] \in SUBSET FieldNames /\ Good(state, Fields[class]) /\ Shaped(state)
      /\ target \in Objects /\ target \in state.alive
      /\ Space(state, target, G) /\ f \in G /\ G \in SUBSET StringFields
  BY AtCall DEF IInv, RoomLeft, StringsOfClass, Good
<1> HIDE DEF G
<1>1. state.ptr[target][f] = kEmptyString => \E n \in Cells : n \notin state.allocated
  BY <1>0, SpaceFree
<1>2. ASSUME NEW t, SetResult(state, t, target, f, Fields[class])
      PROVE  ParseStep(t)
  <2>1. Good(t, Fields[class]) /\ Grown(state, t, target, f) /\ t.alive = state.alive
    BY <1>2 DEF SetResult
  <2>2. Space(t, target, G)
    BY <1>0, <2>1, SpaceLeft
  <2> QED
    BY <2>1, <2>2 DEF ParseStep, G
<1>3. SetResult(state, set(state, target, f, value), target, f, Fields[class])
  BY <1>0, <1>1, SetGood
<1>4. SetResult(state, mutable(state, target, f), target, f, Fields[class])
  BY <1>0, <1>1, MutableGood
<1> QED
  BY <1>2, <1>3, <1>4

LEMMA ParseNothing ==
    ASSUME IInv, at \in {"ReadTag", "parse_message"}
    PROVE  ParseStep(state)
BY DEF IInv, RoomLeft, ParseStep

LEMMA ParseUnknown ==
    ASSUME IInv, at \in {"ReadTag", "parse_message"}, NEW x
    PROVE  ParseStep(Extend(state, target, x))
<1>0. /\ Fields[class] \in SUBSET FieldNames /\ Good(state, Fields[class])
      /\ target \in Objects /\ Space(state, target, StringsOfClass)
  BY AtCall DEF IInv, RoomLeft
<1> DEFINE t == Extend(state, target, x)
<1>1. /\ Good(t, Fields[class]) /\ t.alive = state.alive /\ t.ptr = state.ptr
      /\ t.allocated = state.allocated
  BY <1>0, ExtendGood
<1> HIDE DEF t
<1>2. Space(t, target, StringsOfClass)
  <2>1. \A g \in StringsOfClass : t.ptr[target][g] = state.ptr[target][g]
    BY <1>1
  <2> QED
    BY <1>0, <1>1, <2>1, SpaceSame
<1> QED
  BY <1>1, <1>2 DEF ParseStep, t

LEMMA ParseUninterpreted ==
    ASSUME IInv, at \in {"ReadTag", "parse_message"}, HandleUninterpreted
    PROVE  ParseStep(state')
<1>1. CASE UNCHANGED state
  <2>1. ParseStep(state)
    BY ParseNothing
  <2> QED
    BY <1>1, <2>1 DEF ParseStep
<1>2. ASSUME NEW number, NEW type, NEW value, AddUnknown(number, type, value)
      PROVE  ParseStep(state')
  <2> DEFINE x == Append(state.unknown[target],
                         [number |-> number, type |-> type, value |-> value])
  <2>1. state' = Extend(state, target, x)
    BY <1>2 DEF AddUnknown, Extend
  <2> HIDE DEF x
  <2>2. ParseStep(Extend(state, target, x))
    BY ParseUnknown
  <2> QED
    BY <2>1, <2>2
<1> QED
  BY <1>1, <1>2 DEF HandleUninterpreted, SkipField

LEMMA ParseNoTag ==
    ASSUME IInv, at \in {"ReadTag", "parse_message"}, NoTag
    PROVE  ParseStep(state')
<1>1. ParseStep(state) /\ state' = state
  BY ParseNothing DEF NoTag
<1> QED
  BY <1>1

LEMMA ParseReadString ==
    ASSUME IInv, at \in {"ReadTag", "parse_message"}, NEW f \in Fields[class],
           f \in StringFields, NEW bytes, ReadString(f, bytes) \/ ReadStringFails(f, bytes)
    PROVE  ParseStep(state')
<1>1. ParseStep(mutable(state, target, f))
  BY ParseString
<1>2. ASSUME NEW value, state' = set(state, target, f, value)
      PROVE  ParseStep(state')
  <2>1. ParseStep(set(state, target, f, value))
    BY ParseString
  <2> QED
    BY <1>2, <2>1
<1>3. CASE state' = mutable(state, target, f)
  BY <1>1, <1>3
<1> QED
  BY <1>2, <1>3 DEF ReadString, ReadStringFails

LEMMA ParseOneString ==
    ASSUME IInv, at = "ReadTag", NEW f \in Fields[class], f \in StringFields,
           NEW number, OneString(f, number)
    PROVE  ParseStep(state')
<1>1. CASE NoTag
  BY <1>1, ParseNoTag
<1>2. CASE HandleUninterpreted
  BY <1>2, ParseUninterpreted
<1>3. CASE ReadString(f, body) \/ ReadStringFails(f, body)
  BY <1>3, ParseReadString
<1> QED
  BY <1>1, <1>2, <1>3 DEF OneString

LEMMA ParseLoginResponse ==
    ASSUME IInv, LoginResponse_MergePartialFromCodedStream
    PROVE  ParseStep(state')
<1>0. at \in {"ReadTag", "parse_message"} /\ class = "LoginResponse"
  BY DEF LoginResponse_MergePartialFromCodedStream
<1>1. CASE NoTag
  BY <1>0, <1>1, ParseNoTag
<1>2. CASE HandleUninterpreted
  BY <1>0, <1>2, ParseUninterpreted
<1>3. CASE state' = set_success(state, target, VarintValue(body) # 0)
  <2> DEFINE b == VarintValue(body) # 0
  <2>1. b \in BOOLEAN /\ "success" \in Fields[class]
    BY <1>0 DEF Fields
  <2>2. Fields[class] \in SUBSET FieldNames /\ Good(state, Fields[class]) /\ target \in Objects
    BY <1>0, AtCall DEF IInv, RoomLeft
  <2> HIDE DEF b
  <2>3. /\ Good(set_success(state, target, b), Fields[class])
        /\ set_success(state, target, b).alive = state.alive
    BY <2>1, <2>2, SuccessGood
  <2>4. StringsOfClass = {}
    BY <1>0 DEF StringsOfClass, Fields, StringFields
  <2>5. ASSUME NEW t PROVE Space(t, target, {})
    <3>1. {f \in {} : t.ptr[target][f] = kEmptyString} = {}
      OBVIOUS
    <3>2. [f \in {} |-> {}] \in [{} -> Cells \ t.allocated]
      OBVIOUS
    <3> QED
      BY <3>1, <3>2 DEF Space
  <2>6. ParseStep(set_success(state, target, b))
    BY <2>3, <2>4, <2>5 DEF ParseStep
  <2> QED
    BY <1>3, <2>6 DEF b
<1>4. CASE UNCHANGED state
  <2>1. ParseStep(state) /\ state' = state
    BY <1>0, <1>4, ParseNothing
  <2> QED
    BY <2>1
<1> QED
  BY <1>1, <1>2, <1>3, <1>4 DEF LoginResponse_MergePartialFromCodedStream

LEMMA ParseChatNotify ==
    ASSUME IInv, ChatNotify_MergePartialFromCodedStream
    PROVE  ParseStep(state')
<1>0. /\ at \in {"ReadTag", "parse_message"}
      /\ "name" \in Fields[class] /\ "message" \in Fields[class]
      /\ "name" \in StringFields /\ "message" \in StringFields
  BY DEF ChatNotify_MergePartialFromCodedStream, Fields, StringFields
<1>1. CASE NoTag
  BY <1>0, <1>1, ParseNoTag
<1>2. CASE HandleUninterpreted
  BY <1>0, <1>2, ParseUninterpreted
<1>3. CASE ReadString("name", body) \/ ReadStringFails("name", body)
  BY <1>0, <1>3, ParseReadString
<1>4. ASSUME NEW bytes, ReadMessage(bytes) PROVE ParseStep(state')
  <2>1. ReadString("message", bytes) \/ ReadStringFails("message", bytes)
    BY <1>4 DEF ReadMessage
  <2> QED
    BY <1>0, <2>1, ParseReadString
<1> QED
  BY <1>1, <1>2, <1>3, <1>4 DEF ChatNotify_MergePartialFromCodedStream

\* What the parser is called with, and what each of its steps does.
LEMMA ParseKeeps ==
    ASSUME IInv, MergePartialFromCodedStream
    PROVE  /\ class' = class /\ target' = target /\ source' = source /\ cut' = cut
           /\ at \in {"ReadTag", "parse_message"}
           /\ target \in Objects /\ target \in state.alive
           /\ ParseStep(state')
<1>0. /\ class' = class /\ target' = target /\ source' = source /\ cut' = cut
      /\ at \in {"ReadTag", "parse_message"}
  BY DEF MergePartialFromCodedStream, LoginRequest_MergePartialFromCodedStream,
         LoginResponse_MergePartialFromCodedStream,
         ChatRequest_MergePartialFromCodedStream, ChatNotify_MergePartialFromCodedStream
<1>a. target \in Objects /\ target \in state.alive
  BY <1>0 DEF IInv, RoomLeft
<1>1. CASE LoginRequest_MergePartialFromCodedStream
  <2>1. /\ at = "ReadTag" /\ OneString("name", 1)
        /\ "name" \in Fields[class] /\ "name" \in StringFields
    BY <1>1 DEF LoginRequest_MergePartialFromCodedStream, Fields, StringFields
  <2>2. ParseStep(state')
    BY <2>1, ParseOneString
  <2> QED
    BY <1>0, <1>a, <2>2
<1>2. CASE ChatRequest_MergePartialFromCodedStream
  <2>1. /\ at = "ReadTag" /\ OneString("message", 3)
        /\ "message" \in Fields[class] /\ "message" \in StringFields
    BY <1>2 DEF ChatRequest_MergePartialFromCodedStream, Fields, StringFields
  <2>2. ParseStep(state')
    BY <2>1, ParseOneString
  <2> QED
    BY <1>0, <1>a, <2>2
<1>3. CASE LoginResponse_MergePartialFromCodedStream
  BY <1>0, <1>a, <1>3, ParseLoginResponse
<1>4. CASE ChatNotify_MergePartialFromCodedStream
  BY <1>0, <1>a, <1>4, ParseChatNotify
<1> QED
  BY <1>1, <1>2, <1>3, <1>4 DEF MergePartialFromCodedStream

LEMMA StepParse == ASSUME IInv, MergePartialFromCodedStream PROVE IInv'
BY ParseKeeps, ParserGood

LEMMA StepParseBegins ==
    ASSUME IInv, NEW o \in Objects, ParseCall(o)
    PROVE  IInv'
<1>1. /\ o \in state.alive
      /\ Room(o, {x.field : x \in SchemaFields} \cap StringFields)
      /\ state' = Clear(state, o) /\ target' = o /\ class' = class
  BY DEF ParseCall, ParseFromArray
<1>2. class \in Classes /\ {x.field : x \in SchemaFields} = Fields[class]
  BY AtCall, FieldsOfClass
<1>3. Space(state, o, StringsOfClass)
  BY <1>1, <1>2, RoomIsSpace DEF StringsOfClass
<1>4. ClearResult(state, Clear(state, o), o, Fields[class])
  BY AtCall, ClassClear
<1>5. ClearResult(state, state', o, Fields[class])
  BY <1>1, <1>4
<1>6. /\ Good(state', Fields[class]) /\ o \in state'.alive
      /\ state'.ptr = state.ptr /\ state'.allocated = state.allocated
  BY <1>1, <1>5 DEF ClearResult
<1>7. Space(state', o, StringsOfClass)
  BY <1>3, <1>6, SpaceSame
<1> QED
  BY <1>1, <1>2, <1>6, <1>7 DEF IInv, RoomLeft, StringsOfClass

LEMMA StepParseReturns == ASSUME IInv, ParseReturns PROVE IInv'
<1>1. class' = class /\ at' = "idle"
  BY DEF ParseReturns
<1>2. Good(state', Fields[class])
  <2>1. CASE state.alive = {target}
    <3>1. target \in Objects /\ state' = destroyed(state, target)
      BY <2>1, AtCall DEF ParseReturns
    <3>2. Good(destroyed(state, target), Fields[class])
      BY <3>1, AtCall, DestroyGood
    <3> QED
      BY <3>1, <3>2
  <2>2. CASE state.alive # {target}
    BY <2>2 DEF ParseReturns, IInv
  <2> QED
    BY <2>1, <2>2
<1> QED
  BY <1>1, <1>2 DEF IInv, RoomLeft

LEMMA IInvNext == IInv /\ [Next]_vars => IInv'
<1> SUFFICES ASSUME IInv, [Next]_vars PROVE IInv'
  OBVIOUS
<1>1. ASSUME NEW o \in Objects,
             Construct(o) \/ Destroy(o) \/ ClearCall(o) \/ ParseCall(o) \/ UnknownCall(o)
      PROVE  IInv'
  BY <1>1, StepConstruct, StepDestroy, StepClear, StepParseBegins, StepUnknown
<1>2. ASSUME NEW o \in Objects, NEW p \in Objects,
             CopyConstruct(o, p) \/ MergeCall(o, p) \/ CopyCall(o, p) \/ SwapCall(o, p)
      PROVE  IInv'
  BY <1>2, StepCopyConstruct, StepMerge, StepCopy, StepSwap
<1>3. ASSUME NEW value, NewString(value) PROVE IInv'
  BY <1>3, StepNewString
<1>4. ASSUME NEW c, DeleteString(c) PROVE IInv'
  BY <1>4, StepDeleteString
<1>5. ASSUME NEW o \in Objects,
             \/ LoginRequest_name(o) \/ LoginResponse_success(o)
             \/ ChatRequest_message(o) \/ ChatNotify_name(o) \/ ChatNotify_message(o)
      PROVE  IInv'
  BY <1>5, StepAccessor, StepSuccess
<1>6. CASE MergePartialFromCodedStream
  BY <1>6, StepParse
<1>7. CASE ParseReturns
  BY <1>7, StepParseReturns
<1>8. CASE UNCHANGED vars
  BY <1>8 DEF vars, parse_vars, IInv, RoomLeft, StringsOfClass
<1> QED
  BY <1>1, <1>2, <1>3, <1>4, <1>5, <1>6, <1>7, <1>8 DEF Next

\* The strings, their owners and the bits agree, whatever calls were made.
THEOREM Invariance == Spec => []IInv
BY IInvInit, IInvNext, PTL DEF Spec

\* Whatever calls a program makes of the messages, a string has one owner, and no
\* call leaks one or deletes one that is in use.
THEOREM StringsHaveOneOwner == Spec => []OneOwner
<1>1. IInv => OneOwner
  BY DEF IInv, Good, Owned, OneOwner
<1> QED
  BY <1>1, Invariance, PTL

\* The empty string all unset fields share is never written.
THEOREM SharedStringStaysEmpty == Spec => []EmptyStringIntact
<1>1. IInv => EmptyStringIntact
  BY DEF IInv, Good, Clean, EmptyStringIntact
<1> QED
  BY <1>1, Invariance, PTL

\* A field that is not set has its default value, also when parsing failed.
THEOREM UnsetFieldsAreDefault == Spec => []NoStaleValue
<1>1. IInv => NoStaleValue
  BY ShapeParts DEF IInv, Good, Clean, NoStaleValue, string
<1> QED
  BY <1>1, Invariance, PTL

=============================================================================
