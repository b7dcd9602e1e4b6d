-------------------------- MODULE WireFormatProofs ---------------------------
(***************************************************************************)
(* Proofs about WireFormat, for every number, string of bytes and sequence *)
(* of wire records: what is written is read back, and what is cut short is *)
(* not.  What a recursive function computes is proved by induction over    *)
(* sets of numbers, from the least number principle of the library.        *)
(***************************************************************************)
EXTENDS WireFormat, SequenceTheorems, WellFoundedInduction, TLAPS

-------------------------------------------------------------------------------
(* Induction on the natural numbers, and functions defined by it.  Sets take *)
(* the place of predicates, so that the facts can be cited.                  *)

Below == {ss \in Nat \X Nat : ss[1] < ss[2]}

\* A set of natural numbers has a least element.
LEMMA Least ==
    ASSUME NEW S \in SUBSET Nat, S # {}
    PROVE  \E n \in S : \A m \in S : n <= m
<1>1. IsWellFoundedOn(Below, Nat)
  BY NatLessThanWellFounded DEF OpToRel, Below
<1>2. PICK n \in S : \A m \in S : <<m, n>> \notin Below
  BY <1>1, WFMin
<1>3. \A m \in S : ~(m < n)
  BY <1>2 DEF Below
<1> QED
  BY <1>3

\* Induction from all smaller numbers.
LEMMA StrongInduction ==
    ASSUME NEW S, \A n \in Nat : (\A m \in 0 .. n - 1 : m \in S) => n \in S
    PROVE  Nat \subseteq S
<1> SUFFICES ASSUME ~(Nat \subseteq S) PROVE FALSE
  OBVIOUS
<1>1. PICK n \in Nat \ S : \A m \in Nat \ S : n <= m
  BY Least
<1>2. \A m \in 0 .. n - 1 : m \in S
  BY <1>1
<1> QED
  BY <1>1, <1>2

\* Induction from the number before.
LEMMA Induction ==
    ASSUME NEW S, 0 \in S, \A n \in Nat : n \in S => n + 1 \in S
    PROVE  Nat \subseteq S
<1>1. ASSUME NEW n \in Nat, \A m \in 0 .. n - 1 : m \in S
      PROVE  n \in S
  <2>1. CASE n = 0
    BY <2>1
  <2>2. CASE n # 0
    <3>1. n - 1 \in Nat /\ n - 1 \in 0 .. n - 1 /\ (n - 1) + 1 = n
      BY <2>2
    <3> QED
      BY <1>1, <3>1
  <2> QED
    BY <2>1, <2>2
<1> QED
  BY <1>1, StrongInduction

\* Up to a number.
LEMMA Ascent ==
    ASSUME NEW n \in Nat, NEW S, 0 \in S, \A i \in 1 .. n : i - 1 \in S => i \in S
    PROVE  0 .. n \subseteq S
<1> DEFINE T == {i \in Nat : i <= n => i \in S}
<1>1. 0 \in T
  OBVIOUS
<1>2. ASSUME NEW i \in Nat, i \in T PROVE i + 1 \in T
  <2>1. CASE i + 1 <= n
    <3>1. i \in S /\ i + 1 \in 1 .. n /\ (i + 1) - 1 = i
      BY <1>2, <2>1
    <3> QED
      BY <3>1
  <2>2. CASE ~(i + 1 <= n)
    BY <2>2
  <2> QED
    BY <2>1, <2>2
<1>3. Nat \subseteq T
  <2> HIDE DEF T
  <2> QED
    BY <1>1, <1>2, Induction
<1> QED
  BY <1>3

\* g is defined on D as the recursion says: at the numbers of stop it is base, at
\* the others step, of its value at an earlier number.
Recurs(g, D, stop, base, earlier, step) ==
    g = [v \in D |-> IF v \in stop THEN base[v] ELSE step[<<v, g[earlier[v]]>>]]

\* A function that recurs to a smaller argument exists.
LEMMA Recursion ==
    ASSUME NEW T, NEW stop, NEW base \in [Nat -> T],
           NEW earlier \in [Nat -> Nat], NEW step \in [Nat \X T -> T],
           \A v \in Nat \ stop : earlier[v] < v
    PROVE  \E g \in [Nat -> T] : Recurs(g, Nat, stop, base, earlier, step)
<1> DEFINE Upto(g, n) == g \in [0 .. n -> T] /\ Recurs(g, 0 .. n, stop, base, earlier, step)
           S == {n \in Nat : \E g : Upto(g, n)}
           f(n) == CHOOSE g : Upto(g, n)
           r == [n \in Nat |-> f(n)[n]]
           Agree(g, a, h, b) == \A v \in Nat : v <= a /\ v <= b => g[v] = h[v]
<1>0. ASSUME NEW a \in Nat, NEW b \in Nat, NEW g, NEW h, Upto(g, a), Upto(h, b)
      PROVE  Agree(g, a, h, b)
  <2> HIDE DEF S, f, r
  <2> DEFINE A == {v \in Nat : v <= a /\ v <= b => g[v] = h[v]}
  <2>1. ASSUME NEW v \in Nat, \A m \in 0 .. v - 1 : m \in A
        PROVE  v \in A
    <3> SUFFICES ASSUME v <= a, v <= b PROVE g[v] = h[v]
      OBVIOUS
    <3>0. v \in 0 .. a /\ v \in 0 .. b
      OBVIOUS
    <3>1. /\ g[v] = IF v \in stop THEN base[v] ELSE step[<<v, g[earlier[v]]>>]
          /\ h[v] = IF v \in stop THEN base[v] ELSE step[<<v, h[earlier[v]]>>]
      <4> HIDE DEF A
      <4> QED
        BY <3>0, <1>0 DEF Recurs
    <3>2. CASE v \notin stop
      <4>1. earlier[v] \in 0 .. v - 1
        BY <3>2
      <4>2. earlier[v] \in A /\ earlier[v] \in Nat /\ earlier[v] <= a /\ earlier[v] <= b
        <5>1. earlier[v] \in A
          BY <2>1, <4>1
        <5>2. \A e \in 0 .. v - 1 : e \in Nat /\ e <= a /\ e <= b
          OBVIOUS
        <5> HIDE DEF A
        <5> QED
          BY <5>1, <5>2, <4>1
      <4>3. g[earlier[v]] = h[earlier[v]]
        BY <4>2
      <4> QED
        BY <3>1, <4>3
    <3> QED
      BY <3>1, <3>2
  <2>2. Nat \subseteq A
    <3> HIDE DEF A
    <3> QED
      BY <2>1, StrongInduction
  <2> QED
    BY <2>2
<1>1. ASSUME NEW n \in Nat, \A m \in 0 .. n - 1 : m \in S
      PROVE  n \in S
  <2>1. \A m \in 0 .. n - 1 : Upto(f(m), m)
    BY <1>1
  <2> HIDE DEF f
  <2> DEFINE g == [v \in 0 .. n |-> IF v \in stop THEN base[v]
                                    ELSE step[<<v, f(earlier[v])[earlier[v]]>>]]
  <2>2. \A v \in 0 .. n : v \notin stop => earlier[v] \in 0 .. n - 1
    OBVIOUS
  <2>3. \A v \in 0 .. n : v \notin stop => f(earlier[v])[earlier[v]] \in T
    BY <2>1, <2>2
  <2>4. g \in [0 .. n -> T]
    BY <2>3
  <2>5. ASSUME NEW v \in 0 .. n - 1
        PROVE  g[v] = f(v)[v]
    <3>0. Recurs(f(v), 0 .. v, stop, base, earlier, step) /\ v \in 0 .. v
      BY <2>1
    <3>1. f(v)[v] = IF v \in stop THEN base[v] ELSE step[<<v, f(v)[earlier[v]]>>]
      BY <3>0, Zenon DEF Recurs
    <3>2. CASE v \notin stop
      <4>1. earlier[v] \in 0 .. v - 1 /\ earlier[v] \in Nat /\ v \in Nat
        BY <3>2
      <4>2. Upto(f(v), v) /\ Upto(f(earlier[v]), earlier[v])
        BY <2>1, <4>1
      <4>3. Agree(f(v), v, f(earlier[v]), earlier[v])
        <5> HIDE DEF Upto, Agree, S, g, r
        <5> QED
          BY <4>1, <4>2, <1>0
      <4>4. f(v)[earlier[v]] = f(earlier[v])[earlier[v]]
        BY <4>1, <4>3
      <4> QED
        BY <3>1, <3>2, <4>4
    <3> QED
      BY <3>1, <3>2
  <2>6. g = [v \in 0 .. n |-> IF v \in stop THEN base[v] ELSE step[<<v, g[earlier[v]]>>]]
    BY <2>2, <2>5
  <2> HIDE DEF g
  <2>7. Upto(g, n)
    BY <2>4, <2>6 DEF Recurs
  <2> QED
    BY <2>7
<1>2. Nat \subseteq S
  <2> HIDE DEF S
  <2> QED
    BY <1>1, StrongInduction
<1>3. \A n \in Nat : Upto(f(n), n)
  BY <1>2
<1> HIDE DEF f
<1>4. r \in [Nat -> T]
  BY <1>3
<1>5. ASSUME NEW v \in Nat
      PROVE  r[v] = IF v \in stop THEN base[v] ELSE step[<<v, r[earlier[v]]>>]
  <2>0. Recurs(f(v), 0 .. v, stop, base, earlier, step) /\ v \in 0 .. v /\ r[v] = f(v)[v]
    BY <1>3
  <2>1. r[v] = IF v \in stop THEN base[v] ELSE step[<<v, f(v)[earlier[v]]>>]
    BY <2>0, Zenon DEF Recurs
  <2>2. CASE v \notin stop
    <3>1. earlier[v] \in Nat /\ earlier[v] <= v
      BY <2>2
    <3>2. Upto(f(v), v) /\ Upto(f(earlier[v]), earlier[v])
      BY <1>3, <3>1
    <3>3. Agree(f(v), v, f(earlier[v]), earlier[v])
      <4> HIDE DEF Upto, Agree, S, r
      <4> QED
        BY <3>1, <3>2, <1>0
    <3>4. f(v)[earlier[v]] = f(earlier[v])[earlier[v]]
      BY <3>1, <3>3
    <3> QED
      BY <2>1, <2>2, <3>1, <3>4
  <2> QED
    BY <2>1, <2>2
<1> HIDE DEF r
<1>6. Recurs(r, Nat, stop, base, earlier, step)
  <2>1. r = [v \in Nat |-> r[v]]
    BY <1>4
  <2> QED
    BY <1>5, <2>1 DEF Recurs
<1> QED
  BY <1>4, <1>6

\* A function that is defined by recursion over 1 .. n.
Steps(n, T) == [(1 .. n) \X T -> T]

Follows(g, n, base, step) ==
    g = [i \in 0 .. n |-> IF i = 0 THEN base ELSE step[<<i, g[i - 1]>>]]

\* So does one that recurs to the index before.
LEMMA PrefixRecursion ==
    ASSUME NEW T, NEW n \in Nat, NEW base \in T, NEW step \in Steps(n, T)
    PROVE  \E g \in [0 .. n -> T] : Follows(g, n, base, step)
<1> DEFINE stop == {0} \cup {v \in Nat : v > n}
           b == [v \in Nat |-> base]
           earlier == [v \in Nat |-> IF v = 0 THEN 0 ELSE v - 1]
           st == [p \in Nat \X T |-> IF p[1] \in 1 .. n THEN step[p] ELSE base]
<1>1. b \in [Nat -> T] /\ earlier \in [Nat -> Nat] /\ st \in [Nat \X T -> T]
  <2>1. ASSUME NEW p \in Nat \X T PROVE st[p] \in T
    <3>1. p[1] \in 1 .. n => p \in (1 .. n) \X T
      OBVIOUS
    <3> QED
      BY <3>1 DEF Steps
  <2> QED
    BY <2>1
<1>2. \A v \in Nat \ stop : earlier[v] < v
  OBVIOUS
<1>3. \A v \in Nat : b[v] = base /\ (v \notin stop => v \in 1 .. n /\ earlier[v] = v - 1)
  OBVIOUS
<1>4. \A v \in 1 .. n, t \in T : st[<<v, t>>] = step[<<v, t>>]
  OBVIOUS
<1>5. \A v \in 0 .. n : v \in stop <=> v = 0
  OBVIOUS
<1> HIDE DEF stop, b, earlier, st
<1>6. PICK h \in [Nat -> T] : Recurs(h, Nat, stop, b, earlier, st)
  BY <1>1, <1>2, Recursion
<1>7. \A v \in Nat : h[v] = IF v \in stop THEN b[v] ELSE st[<<v, h[earlier[v]]>>]
  BY <1>6 DEF Recurs
<1> DEFINE g == [i \in 0 .. n |-> h[i]]
<1>8. g \in [0 .. n -> T]
  BY <1>6
<1>9. ASSUME NEW i \in 0 .. n
      PROVE  g[i] = IF i = 0 THEN base ELSE step[<<i, g[i - 1]>>]
  <2>1. CASE i = 0
    BY <2>1, <1>3, <1>5, <1>7
  <2>2. CASE i # 0
    <3>1. i \in 1 .. n /\ i - 1 \in 0 .. n /\ i \notin stop /\ i - 1 \in Nat /\ i \in Nat
      BY <2>2, <1>5
    <3>2. earlier[i] = i - 1 /\ h[i - 1] \in T
      BY <3>1, <1>3, <1>6
    <3>3. h[i] = st[<<i, h[i - 1]>>]
      BY <3>1, <3>2, <1>7
    <3> QED
      BY <3>1, <3>2, <3>3, <1>4, <2>2
  <2> QED
    BY <2>1, <2>2
<1>10. g = [i \in 0 .. n |-> IF i = 0 THEN base ELSE step[<<i, g[i - 1]>>]]
  BY <1>9
<1> QED
  BY <1>8, <1>10 DEF Follows

-------------------------------------------------------------------------------
(* Varints.                                                                  *)

\* A sequence of one byte.
LEMMA OneByte ==
    ASSUME NEW x \in 0 .. 255
    PROVE  <<x>> \in Bytes /\ Len(<<x>>) = 1 /\ <<x>>[1] = x
<1> DEFINE S == 0 .. 255
<1>1. x \in S
  OBVIOUS
<1> HIDE DEF S
<1>2. <<x>> \in Seq(S) /\ Len(<<x>>) = 1 /\ <<x>>[1] = x
  BY <1>1
<1> QED
  BY <1>2 DEF S, Bytes

\* What a sequence of bytes is.
LEMMA BytesFacts ==
    ASSUME NEW c \in Bytes
    PROVE  Len(c) \in Nat /\ \A j \in 1 .. Len(c) : c[j] \in 0 .. 255
<1> DEFINE S == 0 .. 255
<1>1. c \in Seq(S)
  BY DEF Bytes
<1> HIDE DEF S
<1>2. Len(c) \in Nat /\ \A j \in 1 .. Len(c) : c[j] \in S
  BY <1>1, LenProperties, ElementOfSeq
<1> QED
  BY <1>2 DEF S

\* The least significant digit comes first, and the others are a varint again.
LEMMA VarintWritten ==
    /\ WriteVarint32 \in [Nat -> Bytes]
    /\ \A v \in Nat : WriteVarint32[v] =
          IF v < 128 THEN <<v>> ELSE <<(v % 128) + 128>> \o WriteVarint32[v \div 128]
<1> DEFINE stop == 0 .. 127
           base == [v \in Nat |-> IF v < 128 THEN <<v>> ELSE << >>]
           earlier == [v \in Nat |-> v \div 128]
           step == [p \in Nat \X Bytes |-> <<(p[1] % 128) + 128>> \o p[2]]
           Is(g) == g = [v \in Nat |-> IF v < 128 THEN <<v>>
                                       ELSE <<(v % 128) + 128>> \o g[v \div 128]]
<1>1. base \in [Nat -> Bytes]
  <2>1. \A v \in Nat : v < 128 => v \in 0 .. 255
    OBVIOUS
  <2>2. << >> \in Bytes
    BY DEF Bytes
  <2> QED
    BY <2>1, <2>2, OneByte
<1>2. earlier \in [Nat -> Nat]
  OBVIOUS
<1>3. step \in [Nat \X Bytes -> Bytes]
  <2>1. ASSUME NEW p \in Nat \X Bytes PROVE <<(p[1] % 128) + 128>> \o p[2] \in Bytes
    <3>1. (p[1] % 128) + 128 \in 0 .. 255 /\ p[2] \in Bytes
      OBVIOUS
    <3>2. <<(p[1] % 128) + 128>> \in Bytes
      BY <3>1, OneByte
    <3> QED
      BY <3>1, <3>2, ConcatProperties DEF Bytes
  <2> QED
    BY <2>1
<1>4. \A v \in Nat \ stop : earlier[v] < v
  OBVIOUS
<1>5. \A v \in Nat : v \in stop <=> v < 128
  OBVIOUS
<1>6. \A v \in Nat : v < 128 => base[v] = <<v>>
  OBVIOUS
<1>7. \A v \in Nat, t \in Bytes : step[<<v, t>>] = <<(v % 128) + 128>> \o t
  OBVIOUS
<1>8. \A v \in Nat : earlier[v] = v \div 128 /\ earlier[v] \in Nat
  OBVIOUS
<1> HIDE DEF stop, base, earlier, step
<1>9. PICK g \in [Nat -> Bytes] : Recurs(g, Nat, stop, base, earlier, step)
  BY <1>1, <1>2, <1>3, <1>4, Recursion
<1>10. ASSUME NEW v \in Nat
       PROVE  g[v] = IF v < 128 THEN <<v>> ELSE <<(v % 128) + 128>> \o g[v \div 128]
  <2>1. g[v] = IF v \in stop THEN base[v] ELSE step[<<v, g[earlier[v]]>>]
    BY <1>9 DEF Recurs
  <2>2. CASE v < 128
    BY <2>1, <2>2, <1>5, <1>6
  <2>3. CASE ~(v < 128)
    <3>1. g[v \div 128] \in Bytes /\ g[v] = step[<<v, g[v \div 128]>>]
      BY <2>1, <2>3, <1>5, <1>8
    <3> QED
      BY <2>3, <3>1, <1>7
  <2> QED
    BY <2>2, <2>3
<1>11. Is(g)
  BY <1>10
<1>12. Is(WriteVarint32)
  <2>1. WriteVarint32 = CHOOSE h : Is(h)
    BY DEF WriteVarint32
  <2> HIDE DEF Is
  <2> QED
    BY <1>11, <2>1, Zenon
<1>13. \A v \in Nat : WriteVarint32[v] =
          IF v < 128 THEN <<v>> ELSE <<(v % 128) + 128>> \o WriteVarint32[v \div 128]
  BY <1>12
<1>14. \A v \in Nat : WriteVarint32[v] \in Bytes
  <2> DEFINE S == {v \in Nat : WriteVarint32[v] \in Bytes}
  <2>1. ASSUME NEW v \in Nat, \A m \in 0 .. v - 1 : m \in S PROVE v \in S
    <3>1. CASE v < 128
      <4>1. v \in 0 .. 255
        BY <3>1
      <4>2. WriteVarint32[v] = <<v>>
        <5> HIDE DEF S
        <5> QED
          BY <3>1, <1>13
      <4> QED
        BY <4>1, <4>2, OneByte
    <3>2. CASE ~(v < 128)
      <4>1. v \div 128 \in 0 .. v - 1
        BY <3>2
      <4>2. WriteVarint32[v \div 128] \in Bytes
        BY <2>1, <4>1
      <4>3. <<(v % 128) + 128>> \in Bytes
        <5>1. (v % 128) + 128 \in 0 .. 255
          OBVIOUS
        <5> QED
          BY <5>1, OneByte
      <4>4. <<(v % 128) + 128>> \o WriteVarint32[v \div 128] \in Bytes
        BY <4>2, <4>3, ConcatProperties DEF Bytes
      <4> QED
        BY <3>2, <4>4, <1>13
    <3> QED
      BY <3>1, <3>2
  <2>2. Nat \subseteq S
    <3> HIDE DEF S
    <3> QED
      BY <2>1, StrongInduction
  <2> QED
    BY <2>2
<1> QED
  BY <1>12, <1>13, <1>14

\* All bytes but the last have the high bit set.
LEMMA VarintShape ==
    ASSUME NEW v \in Nat, NEW c, c = WriteVarint32[v]
    PROVE  /\ c \in Bytes /\ Len(c) \in Nat /\ Len(c) >= 1
           /\ \A j \in 1 .. Len(c) - 1 : c[j] >= 128
           /\ c[Len(c)] < 128
           /\ v < 128 => c = <<v>>
           /\ ~(v < 128) => Len(c) = Len(WriteVarint32[v \div 128]) + 1
<1> DEFINE Shape(d) == /\ Len(d) >= 1
                       /\ \A j \in 1 .. Len(d) - 1 : d[j] >= 128
                       /\ d[Len(d)] < 128
           S == {u \in Nat : Shape(WriteVarint32[u])}
<1>1. ASSUME NEW u \in Nat, ~(u < 128), NEW d, d = WriteVarint32[u \div 128]
      PROVE  /\ Len(d) \in Nat /\ Len(WriteVarint32[u]) = Len(d) + 1
             /\ WriteVarint32[u][1] >= 128
             /\ \A j \in 1 .. Len(d) : WriteVarint32[u][j + 1] = d[j]
  <2>1. u \div 128 \in Nat /\ (u % 128) + 128 \in 0 .. 255
    OBVIOUS
  <2>2. /\ d \in Bytes /\ WriteVarint32[u] = <<(u % 128) + 128>> \o d
        /\ <<(u % 128) + 128>> \in Bytes /\ Len(<<(u % 128) + 128>>) = 1
    <3>1. /\ WriteVarint32[u \div 128] \in Bytes
          /\ WriteVarint32[u] = <<(u % 128) + 128>> \o WriteVarint32[u \div 128]
      BY <1>1, <2>1, VarintWritten
    <3> QED
      BY <3>1, <1>1, <2>1, OneByte
  <2>3. /\ Len(WriteVarint32[u]) = 1 + Len(d) /\ Len(d) \in Nat
        /\ \A j \in 1 .. 1 + Len(d) : WriteVarint32[u][j] =
              IF j <= 1 THEN <<(u % 128) + 128>>[j] ELSE d[j - 1]
    BY <2>2, ConcatProperties, LenProperties DEF Bytes
  <2> QED
    BY <2>1, <2>3
<1>2. ASSUME NEW u \in Nat, \A m \in 0 .. u - 1 : m \in S PROVE u \in S
  <2>1. CASE u < 128
    <3>1. WriteVarint32[u] = <<u>> /\ u \in 0 .. 255
      <4> HIDE DEF S
      <4>1. u \in 0 .. 255
        BY <2>1
      <4>2. WriteVarint32[u] = <<u>>
        BY <2>1, VarintWritten
      <4> QED
        BY <4>1, <4>2
    <3> DEFINE e == WriteVarint32[u]
    <3>2. Len(e) = 1 /\ e[1] < 128
      BY <2>1, <3>1, OneByte
    <3> HIDE DEF e
    <3>3. Shape(e)
      BY <3>2
    <3> QED
      BY <3>3 DEF e
  <2>2. CASE ~(u < 128)
    <3> DEFINE d == WriteVarint32[u \div 128]
               e == WriteVarint32[u]
    <3>1. u \div 128 \in 0 .. u - 1
      BY <2>2
    <3>2. Shape(d)
      BY <1>2, <3>1
    <3>3. /\ Len(d) \in Nat /\ Len(e) = Len(d) + 1 /\ e[1] >= 128
          /\ \A j \in 1 .. Len(d) : e[j + 1] = d[j]
      BY <1>1, <2>2
    <3> HIDE DEF d, e
    <3>4. \A j \in 1 .. Len(e) - 1 : e[j] >= 128
      <4>1. ASSUME NEW j \in 1 .. Len(e) - 1, j # 1 PROVE e[j] >= 128
        <5>1. j - 1 \in 1 .. Len(d) - 1 /\ j - 1 \in 1 .. Len(d) /\ (j - 1) + 1 = j
          BY <3>3, <4>1
        <5>2. e[j] = d[j - 1]
          BY <3>3, <5>1
        <5> QED
          BY <3>2, <5>1, <5>2
      <4> QED
        BY <4>1, <3>3
    <3>5. e[Len(e)] < 128
      BY <3>2, <3>3
    <3>6. Shape(e)
      BY <3>2, <3>3, <3>4, <3>5
    <3> QED
      BY <3>6 DEF e
  <2> QED
    BY <2>1, <2>2
<1>3. Nat \subseteq S
  <2> HIDE DEF S
  <2> QED
    BY <1>2, StrongInduction
<1>4. c \in Bytes
  BY VarintWritten
<1>5. Len(c) \in Nat
  BY <1>4, BytesFacts
<1>6. v < 128 => c = <<v>>
  BY VarintWritten
<1>7. ~(v < 128) => Len(c) = Len(WriteVarint32[v \div 128]) + 1
  BY <1>1
<1> QED
  BY <1>3, <1>4, <1>5, <1>6, <1>7

\* The recursion of VarintSize32Fallback.
LEMMA SizeDefined ==
    \A v \in Nat : VarintSize32Fallback[v] =
        IF v < 128 THEN 1 ELSE 1 + VarintSize32Fallback[v \div 128]
<1> DEFINE stop == 0 .. 127
           base == [v \in Nat |-> 1]
           earlier == [v \in Nat |-> v \div 128]
           step == [p \in Nat \X Nat |-> 1 + p[2]]
           Is(g) == g = [v \in Nat |-> IF v < 128 THEN 1 ELSE 1 + g[v \div 128]]
<1>1. base \in [Nat -> Nat] /\ earlier \in [Nat -> Nat] /\ step \in [Nat \X Nat -> Nat]
  OBVIOUS
<1>2. \A v \in Nat \ stop : earlier[v] < v
  OBVIOUS
<1>3. \A v \in Nat : (v \in stop <=> v < 128) /\ base[v] = 1
  OBVIOUS
<1>4. \A v \in Nat : earlier[v] = v \div 128 /\ earlier[v] \in Nat
  OBVIOUS
<1>5. \A v \in Nat, t \in Nat : step[<<v, t>>] = 1 + t
  OBVIOUS
<1> HIDE DEF stop, base, earlier, step
<1>6. PICK g \in [Nat -> Nat] : Recurs(g, Nat, stop, base, earlier, step)
  BY <1>1, <1>2, Recursion
<1>7. ASSUME NEW v \in Nat
      PROVE  g[v] = IF v < 128 THEN 1 ELSE 1 + g[v \div 128]
  <2>1. g[v] = IF v \in stop THEN base[v] ELSE step[<<v, g[earlier[v]]>>]
    BY <1>6 DEF Recurs
  <2>2. CASE v < 128
    BY <2>1, <2>2, <1>3
  <2>3. CASE ~(v < 128)
    <3>1. g[v \div 128] \in Nat /\ g[v] = step[<<v, g[v \div 128]>>]
      BY <2>1, <2>3, <1>3, <1>4
    <3> QED
      BY <2>3, <3>1, <1>5
  <2> QED
    BY <2>2, <2>3
<1>8. Is(g)
  BY <1>7
<1>9. Is(VarintSize32Fallback)
  <2>1. VarintSize32Fallback = CHOOSE h : Is(h)
    BY DEF VarintSize32Fallback
  <2> HIDE DEF Is
  <2> QED
    BY <1>8, <2>1, Zenon
<1> QED
  BY <1>9

\* VarintSize32 is the number of bytes WriteVarint32 writes.
THEOREM SizeWritten ==
    ASSUME NEW v \in Nat
    PROVE  VarintSize32(v) = Len(WriteVarint32[v])
<1> DEFINE L(u) == Len(WriteVarint32[u])
           S == {u \in Nat : VarintSize32Fallback[u] = L(u)}
<1>1. \A u \in Nat : (u < 128 => L(u) = 1) /\ (~(u < 128) => L(u) = L(u \div 128) + 1)
  <2>1. ASSUME NEW u \in Nat
        PROVE  (u < 128 => L(u) = 1) /\ (~(u < 128) => L(u) = L(u \div 128) + 1)
    <3> DEFINE c == WriteVarint32[u]
    <3>0. c = WriteVarint32[u]
      OBVIOUS
    <3> HIDE DEF c
    <3>1. /\ u < 128 => c = <<u>>
          /\ ~(u < 128) => Len(c) = Len(WriteVarint32[u \div 128]) + 1
      BY <3>0, VarintShape
    <3>2. u < 128 => Len(c) = 1
      <4>1. u < 128 => u \in 0 .. 255
        OBVIOUS
      <4> QED
        BY <3>1, <4>1, OneByte
    <3> QED
      BY <3>0, <3>1, <3>2
  <2> QED
    BY <2>1
<1> HIDE DEF L
<1>2. ASSUME NEW u \in Nat, \A m \in 0 .. u - 1 : m \in S PROVE u \in S
  <2>1. CASE u < 128
    BY <2>1, <1>1, SizeDefined
  <2>2. CASE ~(u < 128)
    <3>1. u \div 128 \in 0 .. u - 1
      BY <2>2
    <3>2. VarintSize32Fallback[u \div 128] = L(u \div 128)
      BY <1>2, <3>1
    <3>3. L(u) = L(u \div 128) + 1
      BY <1>1, <2>2
    <3>4. VarintSize32Fallback[u] = 1 + VarintSize32Fallback[u \div 128]
      BY <2>2, SizeDefined
    <3>5. L(u \div 128) \in Nat
      <4>1. WriteVarint32[u \div 128] \in Bytes
        BY <3>1, VarintWritten
      <4> QED
        BY <4>1, BytesFacts DEF L
    <3>6. VarintSize32Fallback[u] = L(u)
      BY <3>2, <3>3, <3>4, <3>5
    <3> QED
      BY <3>6
  <2> QED
    BY <2>1, <2>2
<1>3. Nat \subseteq S
  <2> HIDE DEF S
  <2> QED
    BY <1>2, StrongInduction
<1>4. VarintSize32Fallback[v] = L(v)
  BY <1>3
<1> QED
  BY <1>1, <1>4 DEF L, VarintSize32

\* The number that the first n digits of c are.
IsValue(f, c, n) ==
    f = [i \in 0 .. n |-> IF i = 0 THEN 0 ELSE (c[n + 1 - i] % 128) + 128 * f[i - 1]]
Values(c, n) == CHOOSE f : IsValue(f, c, n)

\* The recursion in VarintValue.
LEMMA ValuesDefined ==
    ASSUME NEW n \in Nat, NEW c, \A j \in 1 .. n : c[j] \in 0 .. 255
    PROVE  /\ Values(c, n)[0] = 0
           /\ \A i \in 1 .. n :
                 Values(c, n)[i] = (c[n + 1 - i] % 128) + 128 * Values(c, n)[i - 1]
           /\ \A i \in 0 .. n : Values(c, n)[i] \in Nat
<1> DEFINE step == [p \in (1 .. n) \X Nat |-> (c[n + 1 - p[1]] % 128) + 128 * p[2]]
<1>1. \A i \in 1 .. n : c[n + 1 - i] % 128 \in Nat
  <2>1. ASSUME NEW i \in 1 .. n PROVE c[n + 1 - i] % 128 \in Nat
    <3>1. n + 1 - i \in 1 .. n
      OBVIOUS
    <3>2. c[n + 1 - i] \in 0 .. 255
      BY <3>1
    <3> QED
      BY <3>2
  <2> QED
    BY <2>1
<1>2. step \in [(1 .. n) \X Nat -> Nat]
  <2>1. ASSUME NEW p \in (1 .. n) \X Nat
        PROVE  (c[n + 1 - p[1]] % 128) + 128 * p[2] \in Nat
    <3>1. p[1] \in 1 .. n /\ p[2] \in Nat
      OBVIOUS
    <3>2. c[n + 1 - p[1]] % 128 \in Nat
      BY <1>1, <3>1
    <3> QED
      BY <3>1, <3>2
  <2> QED
    BY <2>1
<1>3. \A i \in 1 .. n, t \in Nat : step[<<i, t>>] = (c[n + 1 - i] % 128) + 128 * t
  OBVIOUS
<1> HIDE DEF step
<1>4. PICK g \in [0 .. n -> Nat] : Follows(g, n, 0, step)
  <2>1. 0 \in Nat /\ step \in Steps(n, Nat)
    BY <1>2 DEF Steps
  <2> QED
    BY <2>1, PrefixRecursion
<1>5. \A i \in 0 .. n : i # 0 => i \in 1 .. n /\ i - 1 \in 0 .. n
  OBVIOUS
<1>6. ASSUME NEW i \in 0 .. n
      PROVE  g[i] = IF i = 0 THEN 0 ELSE (c[n + 1 - i] % 128) + 128 * g[i - 1]
  <2>1. g[i] = IF i = 0 THEN 0 ELSE step[<<i, g[i - 1]>>]
    BY <1>4, Zenon DEF Follows
  <2>2. CASE i # 0
    <3>1. g[i - 1] \in Nat /\ i \in 1 .. n
      BY <1>4, <1>5, <2>2
    <3> QED
      BY <1>3, <2>1, <2>2, <3>1
  <2> QED
    BY <2>1, <2>2
<1>7. IsValue(g, c, n)
  BY <1>4, <1>6 DEF IsValue
<1>8. IsValue(Values(c, n), c, n)
  BY <1>7, Zenon DEF Values
<1> DEFINE v == Values(c, n)
<1> HIDE DEF v
<1>9. v = [i \in 0 .. n |-> IF i = 0 THEN 0 ELSE (c[n + 1 - i] % 128) + 128 * v[i - 1]]
  BY <1>8, Zenon DEF v, IsValue
<1>10. /\ v[0] = 0
       /\ \A i \in 1 .. n : v[i] = (c[n + 1 - i] % 128) + 128 * v[i - 1]
  <2>1. 0 \in 0 .. n /\ \A i \in 1 .. n : i \in 0 .. n /\ i # 0
    OBVIOUS
  <2> QED
    BY <1>9, <2>1
<1>11. \A i \in 0 .. n : v[i] \in Nat
  <2> DEFINE S == {i \in 0 .. n : v[i] \in Nat}
  <2>1. 0 \in S
    BY <1>10
  <2>2. ASSUME NEW i \in 1 .. n, i - 1 \in S PROVE i \in S
    <3>1. v[i] = (c[n + 1 - i] % 128) + 128 * v[i - 1] /\ v[i - 1] \in Nat
      BY <1>10, <2>2
    <3>2. v[i] \in Nat
      <4> HIDE DEF S
      <4> QED
        BY <3>1, <1>1
    <3> QED
      BY <3>2
  <2>3. 0 .. n \subseteq S
    <3> HIDE DEF S
    <3> QED
      BY <2>1, <2>2, Ascent
  <2> QED
    BY <2>3
<1> QED
  BY <1>10, <1>11 DEF v

\* The last n digits of a longer varint have the value they have alone.
LEMMA ValuesOfTail ==
    ASSUME NEW m \in Nat, NEW n \in Nat, n <= m, NEW c, NEW d,
           \A j \in 1 .. m : c[j] \in 0 .. 255,
           \A j \in 1 .. n : d[j] = c[j + (m - n)]
    PROVE  \A i \in 0 .. n : Values(c, m)[i] = Values(d, n)[i]
<1> DEFINE S == {i \in 0 .. n : Values(c, m)[i] = Values(d, n)[i]}
<1>2. \A j \in 1 .. n : j + (m - n) \in 1 .. m
  OBVIOUS
<1>1. \A j \in 1 .. n : d[j] \in 0 .. 255
  BY <1>2
<1>3. /\ Values(c, m)[0] = 0
      /\ \A i \in 1 .. m :
            Values(c, m)[i] = (c[m + 1 - i] % 128) + 128 * Values(c, m)[i - 1]
  BY ValuesDefined
<1>4. /\ Values(d, n)[0] = 0
      /\ \A i \in 1 .. n : Values(d, n)[i] = (d[n + 1 - i] % 128) + 128 * Values(d, n)[i - 1]
  BY <1>1, ValuesDefined
<1>5. 0 \in S
  BY <1>3, <1>4
<1>6. ASSUME NEW i \in 1 .. n, i - 1 \in S PROVE i \in S
  <2>1. n + 1 - i \in 1 .. n /\ (n + 1 - i) + (m - n) = m + 1 - i /\ i \in 1 .. m
    OBVIOUS
  <2>2. d[n + 1 - i] = c[m + 1 - i]
    BY <2>1
  <2>3. Values(c, m)[i - 1] = Values(d, n)[i - 1]
    BY <1>6
  <2>4. Values(c, m)[i] = Values(d, n)[i]
    <3> HIDE DEF S
    <3> QED
      BY <1>3, <1>4, <2>1, <2>2, <2>3
  <2> QED
    BY <2>4
<1>7. 0 .. n \subseteq S
  <2> HIDE DEF S
  <2> QED
    BY <1>5, <1>6, Ascent
<1> QED
  BY <1>7

\* The digits written are those of the number.
LEMMA ValueWritten ==
    ASSUME NEW v \in Nat
    PROVE  Values(WriteVarint32[v], Len(WriteVarint32[v]))[Len(WriteVarint32[v])] = v
<1> DEFINE Right(u) ==
              Values(WriteVarint32[u], Len(WriteVarint32[u]))[Len(WriteVarint32[u])] = u
           S == {u \in Nat : Right(u)}
<1>1. ASSUME NEW u \in Nat, u < 128 PROVE Right(u)
  <2> DEFINE c == WriteVarint32[u]
  <2>1. c = <<u>> /\ u \in 0 .. 255
    <3>1. u \in 0 .. 255
      BY <1>1
    <3>2. WriteVarint32[u] = <<u>>
      <4> HIDE DEF S, c
      <4> QED
        BY <1>1, VarintWritten
    <3> QED
      BY <3>1, <3>2
  <2>2. Len(c) = 1 /\ c[1] = u
    BY <2>1, OneByte
  <2> HIDE DEF c
  <2>3. \A j \in 1 .. 1 : c[j] \in 0 .. 255
    BY <2>1, <2>2
  <2>4. /\ Values(c, 1)[0] = 0
        /\ Values(c, 1)[1] = (c[1 + 1 - 1] % 128) + 128 * Values(c, 1)[1 - 1]
    BY <2>3, ValuesDefined
  <2>5. Values(c, 1)[1] = u
    BY <1>1, <2>2, <2>4
  <2> QED
    BY <2>2, <2>5 DEF c
<1>2. ASSUME NEW u \in Nat, ~(u < 128), Right(u \div 128) PROVE Right(u)
  <2> DEFINE c == WriteVarint32[u]
             d == WriteVarint32[u \div 128]
             n == Len(d)
             x == (u % 128) + 128
  <2>1. u \div 128 \in Nat /\ x \in 0 .. 255 /\ x % 128 = u % 128
        /\ (u % 128) + 128 * (u \div 128) = u
    OBVIOUS
  <2>2. /\ d \in Bytes /\ n \in Nat /\ c \in Bytes
        /\ \A j \in 1 .. Len(c) : c[j] \in 0 .. 255
    <3>1. d \in Bytes /\ n \in Nat
      BY <2>1, VarintShape
    <3>2. c \in Bytes /\ \A j \in 1 .. Len(c) : c[j] \in 0 .. 255
      <4>1. c \in Bytes
        BY VarintWritten
      <4> HIDE DEF c
      <4> QED
        BY <4>1, BytesFacts
    <3> QED
      BY <3>1, <3>2
  <2>3. c = <<x>> \o d
    BY <1>2, VarintWritten
  <2>4. <<x>> \in Bytes /\ Len(<<x>>) = 1 /\ <<x>>[1] = x
    BY <2>1, OneByte
  <2>5. Values(d, n)[n] = u \div 128
    BY <1>2
  <2> HIDE DEF c, d, x, n
  <2>6. /\ Len(c) = n + 1 /\ c[1] = x
        /\ \A j \in 1 .. n : d[j] = c[j + 1]
    <3>1. /\ Len(c) = 1 + Len(d)
          /\ \A j \in 1 .. 1 + Len(d) : c[j] = IF j <= 1 THEN <<x>>[j] ELSE d[j - 1]
      BY <2>2, <2>3, <2>4, ConcatProperties DEF Bytes
    <3> QED
      BY <2>2, <2>4, <3>1 DEF n
  <2>7. /\ \A i \in 0 .. n : Values(c, n + 1)[i] = Values(d, n)[i]
        /\ Values(c, n + 1)[n + 1] = (c[1] % 128) + 128 * Values(c, n + 1)[n]
    <3>1. n + 1 \in Nat /\ n + 1 \in 1 .. n + 1 /\ 1 \in Nat
      BY <2>2
    <3>2. \A j \in 1 .. n + 1 : c[j] \in 0 .. 255
      BY <2>2, <2>6
    <3>3. \A i \in 0 .. n : Values(c, n + 1)[i] = Values(d, n)[i]
      <4>1. n <= n + 1 /\ \A j \in 1 .. n : d[j] = c[j + (n + 1 - n)]
        BY <2>2, <2>6
      <4> QED
        BY <2>2, <3>1, <3>2, <4>1, ValuesOfTail
    <3>4. \A i \in 1 .. n + 1 :
             Values(c, n + 1)[i] = (c[n + 1 + 1 - i] % 128) + 128 * Values(c, n + 1)[i - 1]
      BY <3>1, <3>2, ValuesDefined
    <3>5. n + 1 + 1 - (n + 1) = 1 /\ n + 1 - 1 = n
      BY <2>2
    <3> DEFINE k == n + 1
    <3>6. Values(c, k)[k] = (c[k + 1 - k] % 128) + 128 * Values(c, k)[k - 1]
      <4> HIDE DEF k
      <4> QED
        BY <3>1, <3>4, Zenon DEF k
    <3>7. k + 1 - k = 1 /\ k - 1 = n /\ k = n + 1
      BY <2>2
    <3> HIDE DEF k
    <3>8. Values(c, k)[k] = (c[1] % 128) + 128 * Values(c, k)[n]
      BY <3>6, <3>7, Zenon
    <3> QED
      BY <3>3, <3>7, <3>8, Zenon
  <2>8. Values(c, n + 1)[n + 1] = (u % 128) + 128 * (u \div 128)
    <3>1. n + 1 + 1 - (n + 1) = 1 /\ n + 1 - 1 = n /\ n \in 0 .. n
      BY <2>2
    <3>2. Values(c, n + 1)[n] = u \div 128
      BY <2>5, <2>7, <3>1
    <3> QED
      BY <2>1, <2>6, <2>7, <3>1, <3>2
  <2> QED
    BY <2>1, <2>6, <2>8 DEF c
<1>3. ASSUME NEW u \in Nat, \A m \in 0 .. u - 1 : m \in S PROVE u \in S
  <2>1. CASE u < 128
    BY <1>1, <2>1
  <2>2. CASE ~(u < 128)
    <3>1. u \div 128 \in 0 .. u - 1
      BY <2>2
    <3>2. Right(u \div 128)
      BY <1>3, <3>1
    <3>3. Right(u)
      BY <1>2, <2>2, <3>2
    <3> QED
      BY <3>3
  <2> QED
    BY <2>1, <2>2
<1>4. Nat \subseteq S
  <2> HIDE DEF S
  <2> QED
    BY <1>3, StrongInduction
<1> QED
  BY <1>4

\* A byte has the high bit or has not.
LEMMA LastDigit == \A x \in 0 .. 255 : x >= 128 <=> ~(x < 128)
OBVIOUS

\* The end of a varint is where its last digit is.
LEMMA EndsAt ==
    ASSUME NEW b, NEW n \in Nat, n >= 1, n <= Len(b), Len(b) \in Nat,
           \A j \in 1 .. n : b[j] \in 0 .. 255,
           \A j \in 1 .. n - 1 : b[j] >= 128, b[n] < 128
    PROVE  VarintEnds(b) = {n}
<1>1. n \in VarintEnds(b)
  BY DEF VarintEnds
<1>0. VarintEnds(b) \subseteq 1 .. Len(b)
  BY DEF VarintEnds
<1>2. ASSUME NEW k \in 1 .. Len(b), k \in VarintEnds(b) PROVE k = n
  <2>1. b[k] < 128 /\ \A j \in 1 .. k - 1 : b[j] >= 128
    BY <1>2 DEF VarintEnds
  <2>2. ~(k < n)
    <3>1. ASSUME k < n PROVE FALSE
      <4>1. k \in 1 .. n - 1 /\ k \in 1 .. n
        BY <3>1
      <4>2. b[k] >= 128 /\ b[k] \in 0 .. 255
        BY <4>1
      <4> QED
        BY <2>1, <4>2, LastDigit, Zenon
    <3> QED
      BY <3>1
  <2>3. ~(n < k)
    <3>1. ASSUME n < k PROVE FALSE
      <4>1. n \in 1 .. k - 1
        BY <3>1
      <4>2. b[n] >= 128 /\ b[n] \in 0 .. 255
        BY <2>1, <4>1
      <4> QED
        BY <4>2, LastDigit, Zenon
    <3> QED
      BY <3>1
  <2> QED
    BY <2>2, <2>3
<1> QED
  BY <1>0, <1>1, <1>2

\* A varint at the front of the bytes is read as the number that was written.
THEOREM VarintRead ==
    ASSUME NEW v \in Nat, NEW rest \in Bytes
    PROVE  /\ VarintReadable(WriteVarint32[v] \o rest)
           /\ VarintValue(WriteVarint32[v] \o rest) = v
           /\ AfterVarint(WriteVarint32[v] \o rest) = rest
<1> DEFINE c == WriteVarint32[v]
           n == Len(c)
           b == c \o rest
<1>1. /\ c \in Bytes /\ n \in Nat /\ n >= 1
      /\ \A j \in 1 .. n - 1 : c[j] >= 128
      /\ c[n] < 128
  <2>1. c = WriteVarint32[v]
    OBVIOUS
  <2> HIDE DEF c
  <2> QED
    BY <2>1, VarintShape
<1>2. Values(c, n)[n] = v
  BY ValueWritten
<1> HIDE DEF c
<1>3. /\ b \in Bytes /\ Len(b) = n + Len(rest) /\ Len(rest) \in Nat /\ Len(b) \in Nat
      /\ \A j \in 1 .. n + Len(rest) : b[j] = IF j <= n THEN c[j] ELSE rest[j - n]
  BY <1>1, BytesFacts, ConcatProperties DEF Bytes
<1> HIDE DEF b, n
<1>4. \A j \in 1 .. n : b[j] = c[j] /\ b[j] \in 0 .. 255 /\ c[j] \in 0 .. 255
  <2>1. \A j \in 1 .. n : j \in 1 .. n + Len(rest) /\ j <= n /\ j \in 1 .. Len(b)
    BY <1>1, <1>3
  <2>2. \A j \in 1 .. n : b[j] = c[j]
    BY <1>3, <2>1
  <2>3. \A j \in 1 .. Len(b) : b[j] \in 0 .. 255
    BY <1>3, BytesFacts
  <2> QED
    BY <2>1, <2>2, <2>3, Zenon
<1>5. VarintEnds(b) = {n}
  <2>1. n <= Len(b) /\ n \in 1 .. n /\ \A j \in 1 .. n - 1 : j \in 1 .. n
    BY <1>1, <1>3
  <2>2. b[n] < 128 /\ \A j \in 1 .. n - 1 : b[j] >= 128
    BY <1>1, <1>4, <2>1
  <2> QED
    BY <1>1, <1>3, <1>4, <2>1, <2>2, EndsAt
<1>6. (CHOOSE k \in VarintEnds(b) : TRUE) = n
  BY <1>5
<1>7. VarintValue(b) = v
  <2>1. VarintValue(b) = Values(b, CHOOSE k \in VarintEnds(b) : TRUE)[CHOOSE k \in VarintEnds(b) : TRUE]
    BY DEF VarintValue, Values, IsValue
  <2>2. VarintValue(b) = Values(b, n)[n]
    BY <1>6, <2>1
  <2>3. \A i \in 0 .. n : Values(b, n)[i] = Values(c, n)[i]
    <3>1. n <= n /\ \A j \in 1 .. n : c[j] = b[j + (n - n)]
      BY <1>1, <1>4
    <3> QED
      BY <1>1, <1>4, <3>1, ValuesOfTail
  <2>4. n \in 0 .. n
    BY <1>1
  <2> QED
    BY <1>2, <2>2, <2>3, <2>4
<1>8. AfterVarint(b) = rest
  <2>1. AfterVarint(b) = SubSeq(b, n + 1, Len(b))
    BY <1>6 DEF AfterVarint, Drop
  <2>2. SubSeq(b, n + 1, Len(b)) = rest
    <3> DEFINE S == 0 .. 255
    <3>1. c \in Seq(S) /\ rest \in Seq(S) /\ b = c \o rest /\ n = Len(c)
      BY <1>1 DEF Bytes, b, n
    <3> HIDE DEF S
    <3> QED
      BY <3>1, <1>3, ConcatProperties, SubSeqProperties
  <2> QED
    BY <2>1, <2>2
<1> QED
  BY <1>5, <1>7, <1>8 DEF VarintReadable, b, c

\* A varint that is cut short cannot be read.
THEOREM VarintCut ==
    ASSUME NEW v \in Nat, NEW b, NEW m \in Nat, m < Len(WriteVarint32[v]),
           Len(b) = m, \A j \in 1 .. m : b[j] = WriteVarint32[v][j]
    PROVE  ~VarintReadable(b)
<1> DEFINE c == WriteVarint32[v]
<1>0. /\ c \in Bytes /\ Len(c) \in Nat
      /\ \A j \in 1 .. Len(c) - 1 : c[j] >= 128
  <2>1. c = WriteVarint32[v]
    OBVIOUS
  <2> HIDE DEF c
  <2> QED
    BY <2>1, VarintShape
<1>1. /\ Len(c) \in Nat
      /\ \A j \in 1 .. Len(c) : c[j] \in 0 .. 255
      /\ \A j \in 1 .. Len(c) - 1 : c[j] >= 128
  <2> HIDE DEF c
  <2>1. \A j \in 1 .. Len(c) : c[j] \in 0 .. 255
    BY <1>0, BytesFacts
  <2> QED
    BY <1>0, <2>1, Zenon
<1> HIDE DEF c
<1>2. m < Len(c) /\ \A j \in 1 .. m : b[j] = c[j]
  BY DEF c
<1>3. \A k \in 1 .. m : b[k] >= 128 /\ b[k] \in 0 .. 255
  <2>1. ASSUME NEW k \in 1 .. m PROVE b[k] >= 128 /\ b[k] \in 0 .. 255
    <3>1. k \in 1 .. Len(c) - 1 /\ k \in 1 .. Len(c)
      BY <1>1, <1>2
    <3> QED
      BY <1>1, <1>2, <3>1
  <2> QED
    BY <2>1
<1>4. VarintEnds(b) = {}
  <2>1. ASSUME NEW k \in 1 .. m, k \in VarintEnds(b) PROVE FALSE
    <3>1. b[k] < 128
      BY <2>1 DEF VarintEnds
    <3> QED
      BY <1>3, <3>1, LastDigit, Zenon
  <2> QED
    BY <2>1 DEF VarintEnds
<1> QED
  BY <1>4 DEF VarintReadable

-------------------------------------------------------------------------------
(* Sequences of bytes, and beginnings of them.                               *)

\* Concatenation, element by element.
LEMMA BytesConcat ==
    ASSUME NEW c \in Bytes, NEW d \in Bytes
    PROVE  /\ c \o d \in Bytes /\ Len(c \o d) = Len(c) + Len(d)
           /\ \A i \in 1 .. Len(c) + Len(d) :
                 (c \o d)[i] = IF i <= Len(c) THEN c[i] ELSE d[i - Len(c)]
BY ConcatProperties DEF Bytes

LEMMA BytesJoin ==
    ASSUME NEW c \in Bytes, NEW d \in Bytes, NEW e \in Bytes
    PROVE  /\ (c \o d) \o e = c \o (d \o e)
           /\ c \o << >> = c /\ << >> \o c = c
BY ConcatAssociative, ConcatEmptySeq DEF Bytes

LEMMA NoBytes == << >> \in Bytes /\ Len(<< >>) = 0
BY EmptySeq DEF Bytes

LEMMA BytesEqual ==
    ASSUME NEW c \in Bytes, NEW d \in Bytes, Len(c) = Len(d),
           \A i \in 1 .. Len(c) : c[i] = d[i]
    PROVE  c = d
BY SeqEqual DEF Bytes

LEMMA BytesPart ==
    ASSUME NEW c \in Bytes, NEW m \in 1 .. Len(c) + 1, NEW n \in m - 1 .. Len(c)
    PROVE  /\ SubSeq(c, m, n) \in Bytes /\ Len(SubSeq(c, m, n)) = n - m + 1
           /\ \A i \in 1 .. n - m + 1 : SubSeq(c, m, n)[i] = c[m + i - 1]
<1> DEFINE S == 0 .. 255
<1>0. Len(c) \in Nat
  BY BytesFacts
<1>1. m \in Int /\ n \in Int /\ \A i \in m .. n : i \in 1 .. Len(c)
  BY <1>0
<1>2. \A i \in 1 .. Len(c) : c[i] \in S
  BY BytesFacts
<1> HIDE DEF S
<1>3. \A i \in m .. n : c[i] \in S
  BY <1>1, <1>2, Zenon
<1>4. /\ SubSeq(c, m, n) \in Seq(S)
      /\ Len(SubSeq(c, m, n)) = IF m <= n THEN n - m + 1 ELSE 0
      /\ \A i \in 1 .. n - m + 1 : SubSeq(c, m, n)[i] = c[m + i - 1]
  BY <1>1, <1>3, SubSeqProperties
<1>5. (IF m <= n THEN n - m + 1 ELSE 0) = n - m + 1
  BY <1>0
<1> QED
  BY <1>4, <1>5, Zenon DEF S, Bytes

\* b is a proper beginning of c.
Begins(b, c) ==
    /\ b \in Bytes /\ Len(b) < Len(c)
    /\ \A i \in 1 .. Len(b) : b[i] = c[i]

\* A beginning of two parts ends in the first or in the second.
LEMMA BeginsJoin ==
    ASSUME NEW c \in Bytes, NEW d \in Bytes, NEW b, Begins(b, c \o d)
    PROVE  \/ Begins(b, c)
           \/ \E p \in Bytes : b = c \o p /\ Begins(p, d)
<1>0. /\ b \in Bytes /\ Len(b) \in Nat /\ Len(c) \in Nat /\ Len(d) \in Nat
      /\ Len(b) < Len(c) + Len(d)
      /\ \A i \in 1 .. Len(b) : b[i] = (c \o d)[i]
  BY BytesConcat, BytesFacts DEF Begins
<1>1. \A i \in 1 .. Len(b) : b[i] = IF i <= Len(c) THEN c[i] ELSE d[i - Len(c)]
  <2>1. \A i \in 1 .. Len(b) : i \in 1 .. Len(c) + Len(d)
    BY <1>0
  <2> QED
    BY <1>0, <2>1, BytesConcat
<1>2. CASE Len(b) < Len(c)
  <2>1. \A i \in 1 .. Len(b) : i <= Len(c)
    BY <1>0, <1>2
  <2> QED
    BY <1>0, <1>1, <1>2, <2>1 DEF Begins
<1>3. CASE ~(Len(b) < Len(c))
  <2> DEFINE p == SubSeq(b, Len(c) + 1, Len(b))
  <2>1. Len(c) + 1 \in 1 .. Len(b) + 1 /\ Len(b) \in (Len(c) + 1) - 1 .. Len(b)
    BY <1>0, <1>3
  <2>2. /\ p \in Bytes /\ Len(p) = Len(b) - (Len(c) + 1) + 1
        /\ \A i \in 1 .. Len(b) - (Len(c) + 1) + 1 : p[i] = b[(Len(c) + 1) + i - 1]
    BY <1>0, <2>1, BytesPart
  <2> HIDE DEF p
  <2>3. Len(p) = Len(b) - Len(c) /\ \A i \in 1 .. Len(p) : p[i] = b[Len(c) + i]
    <3>1. \A i \in 1 .. Len(p) : (Len(c) + 1) + i - 1 = Len(c) + i
      BY <1>0, <2>2
    <3>2. Len(b) - (Len(c) + 1) + 1 = Len(b) - Len(c)
      BY <1>0
    <3> QED
      BY <2>2, <3>1, <3>2
  <2>4. Begins(p, d)
    <3>1. Len(p) < Len(d)
      BY <1>0, <2>3
    <3>2. ASSUME NEW i \in 1 .. Len(p) PROVE p[i] = d[i]
      <4>1. /\ Len(c) + i \in 1 .. Len(b) /\ ~(Len(c) + i <= Len(c))
            /\ (Len(c) + i) - Len(c) = i
        BY <1>0, <2>3
      <4> QED
        BY <1>1, <2>3, <4>1
    <3> QED
      BY <2>2, <3>1, <3>2 DEF Begins
  <2>5. b = c \o p
    <3>1. c \o p \in Bytes /\ Len(c \o p) = Len(b)
      BY <1>0, <2>2, <2>3, BytesConcat
    <3>2. ASSUME NEW i \in 1 .. Len(b) PROVE b[i] = (c \o p)[i]
      <4>1. i \in 1 .. Len(c) + Len(p)
        BY <1>0, <2>3
      <4>2. (c \o p)[i] = IF i <= Len(c) THEN c[i] ELSE p[i - Len(c)]
        BY <2>2, <4>1, BytesConcat
      <4>3. CASE i <= Len(c)
        BY <1>1, <4>2, <4>3
      <4>4. CASE ~(i <= Len(c))
        <5>1. i - Len(c) \in 1 .. Len(p) /\ Len(c) + (i - Len(c)) = i
          BY <1>0, <2>3, <4>4
        <5>2. p[i - Len(c)] = b[i]
          BY <2>3, <5>1
        <5> QED
          BY <4>2, <4>4, <5>2
      <4> QED
        BY <4>3, <4>4
    <3> QED
      BY <1>0, <3>1, <3>2, BytesEqual
  <2> QED
    BY <2>2, <2>4, <2>5
<1> QED
  BY <1>2, <1>3

\* The bytes without the last n of them.
Cut(bytes, n) == SubSeq(bytes, 1, Len(bytes) - n)

\* What is left of a sequence of bytes when the last of them are missing.
LEMMA CutBytes ==
    ASSUME NEW c \in Bytes, NEW n \in 0 .. Len(c)
    PROVE  /\ Cut(c, n) \in Bytes /\ Len(Cut(c, n)) = Len(c) - n
           /\ \A i \in 1 .. Len(c) - n : Cut(c, n)[i] = c[i]
           /\ n = 0 => Cut(c, n) = c
           /\ n > 0 => Begins(Cut(c, n), c)
<1> DEFINE k == Len(c) - n
<1>0. Len(c) \in Nat /\ 1 \in 1 .. Len(c) + 1 /\ k \in 1 - 1 .. Len(c) /\ k \in Nat
  BY BytesFacts
<1>1. /\ SubSeq(c, 1, k) \in Bytes /\ Len(SubSeq(c, 1, k)) = k - 1 + 1
      /\ \A i \in 1 .. k - 1 + 1 : SubSeq(c, 1, k)[i] = c[1 + i - 1]
  <2> HIDE DEF k
  <2> QED
    BY <1>0, BytesPart
<1>k. Cut(c, n) = SubSeq(c, 1, k)
  BY DEF Cut
<1>c. n = 0 => k = Len(c)
  BY <1>0
<1>d. n > 0 => k < Len(c)
  BY <1>0
<1> HIDE DEF k
<1>2. k - 1 + 1 = k /\ \A i \in 1 .. k : 1 + i - 1 = i
  BY <1>0
<1>3. /\ Cut(c, n) \in Bytes /\ Len(Cut(c, n)) = k
      /\ \A i \in 1 .. k : Cut(c, n)[i] = c[i]
  BY <1>1, <1>2, <1>k
<1>4. ASSUME n = 0 PROVE Cut(c, n) = c
  BY <1>3, <1>4, <1>c, BytesEqual
<1>5. ASSUME n > 0 PROVE Begins(Cut(c, n), c)
  BY <1>3, <1>5, <1>d DEF Begins
<1> QED
  BY <1>3, <1>4, <1>5 DEF k

\* A cut takes from the second part only, or leaves a beginning of the first.
LEMMA CutJoin ==
    ASSUME NEW c \in Bytes, NEW d \in Bytes, NEW n \in 0 .. Len(c \o d)
    PROVE  \/ n \in 0 .. Len(d) /\ Cut(c \o d, n) = c \o Cut(d, n)
           \/ n > Len(d) /\ Begins(Cut(c \o d, n), c)
<1>0. /\ Len(c) \in Nat /\ Len(d) \in Nat /\ n \in Nat /\ n <= Len(c) + Len(d)
      /\ c \o d \in Bytes /\ Len(c \o d) = Len(c) + Len(d)
      /\ \A i \in 1 .. Len(c) + Len(d) :
            (c \o d)[i] = IF i <= Len(c) THEN c[i] ELSE d[i - Len(c)]
  BY BytesFacts, BytesConcat
<1>1. /\ Cut(c \o d, n) \in Bytes /\ Len(Cut(c \o d, n)) = Len(c) + Len(d) - n
      /\ \A i \in 1 .. Len(c) + Len(d) - n : Cut(c \o d, n)[i] = (c \o d)[i]
  <2> DEFINE j == c \o d
  <2>1. j \in Bytes /\ n \in 0 .. Len(j) /\ Len(j) = Len(c) + Len(d)
    BY <1>0
  <2> HIDE DEF j
  <2>2. /\ Cut(j, n) \in Bytes /\ Len(Cut(j, n)) = Len(j) - n
        /\ \A i \in 1 .. Len(j) - n : Cut(j, n)[i] = j[i]
    BY <2>1, CutBytes
  <2> QED
    BY <2>1, <2>2 DEF j
<1>2. CASE n <= Len(d)
  <2>0. n \in 0 .. Len(d)
    BY <1>0, <1>2
  <2>1. /\ Cut(d, n) \in Bytes /\ Len(Cut(d, n)) = Len(d) - n
        /\ \A i \in 1 .. Len(d) - n : Cut(d, n)[i] = d[i]
    BY <2>0, CutBytes
  <2>2. /\ c \o Cut(d, n) \in Bytes /\ Len(c \o Cut(d, n)) = Len(c) + Len(Cut(d, n))
        /\ \A i \in 1 .. Len(c) + Len(Cut(d, n)) :
              (c \o Cut(d, n))[i] = IF i <= Len(c) THEN c[i] ELSE Cut(d, n)[i - Len(c)]
    BY <2>1, BytesConcat
  <2>3. Len(c) + Len(Cut(d, n)) = Len(c) + Len(d) - n
    BY <1>0, <2>1
  <2>4. ASSUME NEW i \in 1 .. Len(c) + Len(d) - n
        PROVE  Cut(c \o d, n)[i] = (c \o Cut(d, n))[i]
    <3>1. i \in 1 .. Len(c) + Len(d) /\ i \in 1 .. Len(c) + Len(Cut(d, n))
      BY <1>0, <2>3
    <3>2. /\ Cut(c \o d, n)[i] = IF i <= Len(c) THEN c[i] ELSE d[i - Len(c)]
          /\ (c \o Cut(d, n))[i] = IF i <= Len(c) THEN c[i] ELSE Cut(d, n)[i - Len(c)]
      BY <1>0, <1>1, <2>2, <3>1
    <3>3. CASE ~(i <= Len(c))
      <4>1. i - Len(c) \in 1 .. Len(d) - n
        BY <1>0, <3>3
      <4> QED
        BY <2>1, <3>2, <3>3, <4>1
    <3> QED
      BY <3>2, <3>3
  <2>5. Cut(c \o d, n) = c \o Cut(d, n)
    BY <1>1, <2>2, <2>3, <2>4, BytesEqual
  <2> QED
    BY <2>0, <2>5
<1>3. CASE n > Len(d)
  <2>1. Len(c) + Len(d) - n < Len(c)
    BY <1>0, <1>3
  <2>2. ASSUME NEW i \in 1 .. Len(c) + Len(d) - n PROVE Cut(c \o d, n)[i] = c[i]
    <3>1. i \in 1 .. Len(c) + Len(d) /\ i <= Len(c)
      BY <1>0, <2>1
    <3> QED
      BY <1>0, <1>1, <3>1
  <2> QED
    BY <1>1, <1>3, <2>1, <2>2 DEF Begins
<1> QED
  BY <1>0, <1>2, <1>3


-------------------------------------------------------------------------------
(* Wire records.                                                             *)

\* What is written behind the tag.
Payload(r) ==
    CASE r.type = VARINT -> WriteVarint32[r.value]
      [] r.type = LENGTH_DELIMITED -> WriteVarint32[Len(r.value)] \o r.value
      [] r.type \in {FIXED32, FIXED64} -> r.value
      [] r.type = END_GROUP -> << >>

TagOf(r) == MakeTag(r.number, r.type)

\* A tag has the number and the type it was made of.
LEMMA TagParts ==
    ASSUME NEW number \in Nat, NEW type \in 0 .. 7
    PROVE  /\ MakeTag(number, type) \in Nat
           /\ number # 0 => MakeTag(number, type) # 0
           /\ GetTagFieldNumber(MakeTag(number, type)) = number
           /\ GetTagWireType(MakeTag(number, type)) = type
           /\ number < 16 => MakeTag(number, type) < 128
BY DEF MakeTag, GetTagFieldNumber, GetTagWireType

\* The parts of a wire record of each type.
LEMMA RecordParts ==
    ASSUME NEW r \in WireRecord
    PROVE  /\ r.number \in Nat \ {0}
           /\ r.type \in {VARINT, FIXED32, FIXED64, LENGTH_DELIMITED, END_GROUP}
           /\ r.type = VARINT => r.value \in Nat
           /\ r.type = LENGTH_DELIMITED => r.value \in Bytes
           /\ r.type = FIXED32 => r.value \in [1 .. 4 -> 0 .. 255]
           /\ r.type = FIXED64 => r.value \in [1 .. 8 -> 0 .. 255]
BY DEF WireRecord, VARINT, FIXED32, FIXED64, LENGTH_DELIMITED, END_GROUP

\* A value of fixed size is a sequence of bytes.
LEMMA FixedBytes ==
    ASSUME NEW n \in Nat, NEW c \in [1 .. n -> 0 .. 255]
    PROVE  c \in Bytes /\ Len(c) = n
<1> DEFINE S == 0 .. 255
<1>1. c \in [1 .. n -> S]
  OBVIOUS
<1> HIDE DEF S
<1>2. c \in Seq(S)
  BY <1>1, SeqDef
<1>3. Len(c) = n
  <2>1. DOMAIN c = 1 .. n /\ DOMAIN c = 1 .. Len(c) /\ Len(c) \in Nat
    BY <1>1, <1>2, LenProperties
  <2> QED
    BY <2>1
<1> QED
  BY <1>2, <1>3 DEF Bytes, S

LEMMA PayloadIs ==
    ASSUME NEW r
    PROVE  /\ r.type = VARINT => Payload(r) = WriteVarint32[r.value]
           /\ r.type = LENGTH_DELIMITED =>
                 Payload(r) = WriteVarint32[Len(r.value)] \o r.value
           /\ r.type = FIXED32 => Payload(r) = r.value
           /\ r.type = FIXED64 => Payload(r) = r.value
           /\ r.type = END_GROUP => Payload(r) = << >>
<1> DEFINE v == r.value
           w == WriteVarint32[v]
           u == WriteVarint32[Len(v)] \o v
           t == r.type
<1>1. Payload(r) = CASE t = VARINT -> w
                     [] t = LENGTH_DELIMITED -> u
                     [] t \in {FIXED32, FIXED64} -> v
                     [] t = END_GROUP -> << >>
  BY DEF Payload
<1> HIDE DEF v, w, u, t
<1>2. /\ t = VARINT => Payload(r) = w
      /\ t = LENGTH_DELIMITED => Payload(r) = u
      /\ t = FIXED32 => Payload(r) = v
      /\ t = FIXED64 => Payload(r) = v
      /\ t = END_GROUP => Payload(r) = << >>
  BY <1>1 DEF VARINT, LENGTH_DELIMITED, FIXED32, FIXED64, END_GROUP
<1> QED
  BY <1>2 DEF v, w, u, t

LEMMA TextWritten ==
    ASSUME NEW v \in Bytes
    PROVE  WriteVarint32[Len(v)] \o v \in Bytes /\ Len(v) \in Nat
<1> DEFINE n == Len(v)
           w == WriteVarint32[n]
<1>1. n \in Nat
  BY BytesFacts
<1> HIDE DEF n
<1>2. w \in Bytes
  BY <1>1, VarintWritten
<1> HIDE DEF w
<1>3. w \o v \in Bytes
  BY <1>2, BytesConcat
<1> QED
  BY <1>1, <1>3 DEF n, w

\* A record is written as its tag and its payload.
LEMMA RecordWritten ==
    ASSUME NEW r \in WireRecord
    PROVE  /\ TagOf(r) \in Nat /\ TagOf(r) # 0
           /\ GetTagFieldNumber(TagOf(r)) = r.number /\ GetTagWireType(TagOf(r)) = r.type
           /\ Payload(r) \in Bytes
           /\ WriteUnknown(r) = WriteVarint32[TagOf(r)] \o Payload(r)
           /\ WriteUnknown(r) \in Bytes /\ Len(WriteUnknown(r)) >= 1
           /\ r.type = VARINT => r.value \in Nat /\ Payload(r) = WriteVarint32[r.value]
           /\ r.type = LENGTH_DELIMITED =>
                 /\ r.value \in Bytes
                 /\ Payload(r) = WriteVarint32[Len(r.value)] \o r.value
           /\ r.type = FIXED32 =>
                 r.value \in Bytes /\ Len(r.value) = 4 /\ Payload(r) = r.value
           /\ r.type = FIXED64 =>
                 r.value \in Bytes /\ Len(r.value) = 8 /\ Payload(r) = r.value
           /\ r.type = END_GROUP => Payload(r) = << >>
<1>1. /\ TagOf(r) \in Nat /\ TagOf(r) # 0
      /\ GetTagFieldNumber(TagOf(r)) = r.number /\ GetTagWireType(TagOf(r)) = r.type
  <2>1. r.number \in Nat /\ r.number # 0 /\ r.type \in 0 .. 7
    BY RecordParts DEF VARINT, FIXED32, FIXED64, LENGTH_DELIMITED, END_GROUP
  <2> QED
    BY <2>1, TagParts DEF TagOf
<1>2. WriteUnknown(r) = WriteVarint32[TagOf(r)] \o Payload(r)
  BY DEF WriteUnknown, Payload, TagOf
<1>3. ASSUME r.type = VARINT
      PROVE  r.value \in Nat /\ Payload(r) = WriteVarint32[r.value] /\ Payload(r) \in Bytes
  <2>1. r.value \in Nat
    BY <1>3, RecordParts
  <2>2. Payload(r) = WriteVarint32[r.value]
    BY <1>3, PayloadIs
  <2>3. WriteVarint32[r.value] \in Bytes
    BY <2>1, VarintWritten
  <2> QED
    BY <2>1, <2>2, <2>3
<1>4. ASSUME r.type = LENGTH_DELIMITED
      PROVE  /\ r.value \in Bytes
             /\ Payload(r) = WriteVarint32[Len(r.value)] \o r.value /\ Payload(r) \in Bytes
  <2>2. r.value \in Bytes
    BY <1>4, RecordParts
  <2>3. Payload(r) = WriteVarint32[Len(r.value)] \o r.value
    BY <1>4, PayloadIs
  <2>4. WriteVarint32[Len(r.value)] \o r.value \in Bytes
    BY <2>2, TextWritten
  <2> QED
    BY <2>2, <2>3, <2>4
<1>5. ASSUME r.type = FIXED32
      PROVE  r.value \in Bytes /\ Len(r.value) = 4 /\ Payload(r) = r.value
  <2>1. r.value \in [1 .. 4 -> 0 .. 255]
    BY <1>5, RecordParts
  <2>2. Payload(r) = r.value
    BY <1>5, PayloadIs
  <2>3. r.value \in Bytes /\ Len(r.value) = 4
    BY <2>1, FixedBytes
  <2> QED
    BY <2>2, <2>3
<1>6. ASSUME r.type = FIXED64
      PROVE  r.value \in Bytes /\ Len(r.value) = 8 /\ Payload(r) = r.value
  <2>1. r.value \in [1 .. 8 -> 0 .. 255]
    BY <1>6, RecordParts
  <2>2. Payload(r) = r.value
    BY <1>6, PayloadIs
  <2>3. r.value \in Bytes /\ Len(r.value) = 8
    BY <2>1, FixedBytes
  <2> QED
    BY <2>2, <2>3
<1>7. ASSUME r.type = END_GROUP PROVE Payload(r) = << >> /\ Payload(r) \in Bytes
  BY <1>7, PayloadIs, NoBytes
<1>8. Payload(r) \in Bytes
  <2>1. r.type \in {VARINT, FIXED32, FIXED64, LENGTH_DELIMITED, END_GROUP}
    BY RecordParts
  <2>2. /\ r.type = FIXED32 => Payload(r) \in Bytes
        /\ r.type = FIXED64 => Payload(r) \in Bytes
    BY <1>5, <1>6
  <2> QED
    BY <1>3, <1>4, <1>7, <2>1, <2>2
<1>9. WriteUnknown(r) \in Bytes /\ Len(WriteUnknown(r)) >= 1
  <2> DEFINE t == WriteVarint32[TagOf(r)]
             p == Payload(r)
             w == WriteUnknown(r)
  <2>1. t \in Bytes /\ Len(t) \in Nat /\ Len(t) >= 1
    BY <1>1, VarintShape
  <2>2. w = t \o p /\ p \in Bytes
    BY <1>2, <1>8
  <2> HIDE DEF t, p, w
  <2>3. w \in Bytes /\ Len(w) = Len(t) + Len(p) /\ Len(p) \in Nat
    BY <2>1, <2>2, BytesConcat, BytesFacts
  <2>4. Len(w) >= 1
    BY <2>1, <2>3
  <2> QED
    BY <2>3, <2>4 DEF w
<1> QED
  BY <1>1, <1>2, <1>3, <1>4, <1>5, <1>6, <1>7, <1>8, <1>9

\* The tag at the front of a record is read, and the rest is behind it.
LEMMA TagRead ==
    ASSUME NEW r \in WireRecord, NEW rest \in Bytes
    PROVE  LET b == WriteUnknown(r) \o rest IN
           /\ b # << >> /\ ReadTag(b) = TagOf(r) /\ AfterVarint(b) = Payload(r) \o rest
<1> DEFINE t == WriteVarint32[TagOf(r)]
           p == Payload(r)
           b == WriteUnknown(r) \o rest
<1>0. TagOf(r) \in Nat /\ p \in Bytes /\ WriteUnknown(r) = t \o p
  BY RecordWritten
<1>1. TagOf(r) \in Nat /\ t \in Bytes /\ p \o rest \in Bytes /\ Len(t) \in Nat /\ Len(t) >= 1
  <2>1. t \in Bytes /\ Len(t) \in Nat /\ Len(t) >= 1
    BY <1>0, VarintShape
  <2>2. p \o rest \in Bytes
    <3> HIDE DEF p
    <3> QED
      BY <1>0, BytesConcat
  <2> QED
    BY <1>0, <2>1, <2>2
<1>2. b = t \o (p \o rest)
  <2> DEFINE w == WriteUnknown(r)
  <2>1. w = t \o p
    BY <1>0
  <2> HIDE DEF t, p, w
  <2>2. w \o rest = t \o (p \o rest)
    BY <1>0, <1>1, <2>1, BytesJoin
  <2> QED
    BY <2>2 DEF w
<1>3. VarintReadable(b) /\ VarintValue(b) = TagOf(r) /\ AfterVarint(b) = p \o rest
  BY <1>1, <1>2, VarintRead
<1>4. b # << >>
  <2> HIDE DEF b, t, p
  <2>1. Len(b) = Len(t) + Len(p \o rest)
    BY <1>1, <1>2, BytesConcat
  <2> QED
    BY <1>1, <2>1, BytesFacts, NoBytes
<1> QED
  BY <1>3, <1>4 DEF ReadTag

\* What is left of a record that is cut short: less than a tag, or a tag and the
\* beginning of what is behind it.
LEMMA TagCut ==
    ASSUME NEW r \in WireRecord, NEW b, Begins(b, WriteUnknown(r))
    PROVE  \/ ReadTag(b) = 0
           \/ ReadTag(b) = TagOf(r) /\ Begins(AfterVarint(b), Payload(r))
<1> DEFINE t == WriteVarint32[TagOf(r)]
           p == Payload(r)
<1>1. TagOf(r) \in Nat /\ t \in Bytes /\ p \in Bytes /\ WriteUnknown(r) = t \o p
  BY RecordWritten, VarintWritten
<1>2. CASE Begins(b, t)
  <2>1. ~VarintReadable(b)
    <3>1. /\ Len(b) \in Nat /\ Len(b) < Len(WriteVarint32[TagOf(r)])
          /\ \A j \in 1 .. Len(b) : b[j] = WriteVarint32[TagOf(r)][j]
      BY <1>2, BytesFacts DEF Begins
    <3> QED
      BY <1>1, <3>1, VarintCut
  <2> QED
    BY <2>1 DEF ReadTag
<1>3. ASSUME NEW q \in Bytes, b = t \o q, Begins(q, p)
      PROVE  ReadTag(b) = TagOf(r) /\ Begins(AfterVarint(b), p)
  <2>1. VarintReadable(b) /\ VarintValue(b) = TagOf(r) /\ AfterVarint(b) = q
    BY <1>1, <1>3, VarintRead
  <2> QED
    BY <1>3, <2>1 DEF ReadTag
<1>4. Begins(b, t \o p)
  BY <1>1
<1> HIDE DEF t, p
<1>5. Begins(b, t) \/ \E q \in Bytes : b = t \o q /\ Begins(q, p)
  BY <1>1, <1>4, BeginsJoin
<1> QED
  BY <1>2, <1>3, <1>5 DEF p


-------------------------------------------------------------------------------
(* Sequences of wire records.                                                *)

\* What is written of the first i fields.
IsWritten(f, fields) ==
    f = [i \in 0 .. Len(fields) |->
            IF i = 0 THEN << >> ELSE f[i - 1] \o WriteUnknown(fields[i])]
WrittenUpTo(fields) == CHOOSE f : IsWritten(f, fields)

LEMMA RecordsFacts ==
    ASSUME NEW fields \in Seq(WireRecord)
    PROVE  Len(fields) \in Nat /\ \A i \in 1 .. Len(fields) : fields[i] \in WireRecord
BY LenProperties, ElementOfSeq

\* The recursion in WriteAll.
LEMMA WrittenDefined ==
    ASSUME NEW fields \in Seq(WireRecord)
    PROVE  /\ WrittenUpTo(fields)[0] = << >>
           /\ \A i \in 1 .. Len(fields) : WrittenUpTo(fields)[i] =
                 WrittenUpTo(fields)[i - 1] \o WriteUnknown(fields[i])
           /\ \A i \in 0 .. Len(fields) : WrittenUpTo(fields)[i] \in Bytes
           /\ WriteAll(fields) = WrittenUpTo(fields)[Len(fields)]
<1> DEFINE n == Len(fields)
           w == [i \in 1 .. n |-> WriteUnknown(fields[i])]
           step == [p \in (1 .. n) \X Bytes |-> p[2] \o w[p[1]]]
           g == WrittenUpTo(fields)
<1>0. n \in Nat /\ \A i \in 1 .. n : w[i] = WriteUnknown(fields[i]) /\ w[i] \in Bytes
  BY RecordsFacts, RecordWritten
<1>a. WriteAll(fields) = g[n]
  BY DEF WriteAll, WrittenUpTo, IsWritten
<1>i. \A f : IsWritten(f, fields) <=>
         f = [i \in 0 .. n |-> IF i = 0 THEN << >> ELSE f[i - 1] \o WriteUnknown(fields[i])]
  BY DEF IsWritten
<1> HIDE DEF n, w
<1>1. step \in [(1 .. n) \X Bytes -> Bytes]
  <2>1. ASSUME NEW p \in (1 .. n) \X Bytes PROVE p[2] \o w[p[1]] \in Bytes
    <3>1. p[1] \in 1 .. n /\ p[2] \in Bytes
      OBVIOUS
    <3> QED
      BY <1>0, <3>1, BytesConcat
  <2> QED
    BY <2>1
<1>2. \A i \in 1 .. n, t \in Bytes : step[<<i, t>>] = t \o w[i]
  OBVIOUS
<1> HIDE DEF step
<1>3. PICK f \in [0 .. n -> Bytes] : Follows(f, n, << >>, step)
  BY <1>0, <1>1, NoBytes, PrefixRecursion DEF Steps
<1>4. ASSUME NEW i \in 0 .. n
      PROVE  f[i] = IF i = 0 THEN << >> ELSE f[i - 1] \o WriteUnknown(fields[i])
  <2>1. f[i] = IF i = 0 THEN << >> ELSE step[<<i, f[i - 1]>>]
    BY <1>3, Zenon DEF Follows
  <2>2. CASE i # 0
    <3>1. i \in 1 .. n /\ i - 1 \in 0 .. n
      BY <1>0, <2>2
    <3>2. f[i - 1] \in Bytes
      BY <1>3, <3>1
    <3> QED
      BY <1>0, <1>2, <2>1, <2>2, <3>1, <3>2
  <2> QED
    BY <2>1, <2>2
<1>5. IsWritten(f, fields)
  BY <1>3, <1>4, <1>i
<1>6. IsWritten(g, fields)
  BY <1>5, Zenon DEF WrittenUpTo
<1> HIDE DEF g
<1>7. \A i \in 0 .. n :
         g[i] = IF i = 0 THEN << >> ELSE g[i - 1] \o WriteUnknown(fields[i])
  <2>1. g = [i \in 0 .. n |-> IF i = 0 THEN << >> ELSE g[i - 1] \o WriteUnknown(fields[i])]
    BY <1>6, <1>i
  <2> QED
    BY <2>1, Zenon
<1>8. /\ g[0] = << >>
      /\ \A i \in 1 .. n : g[i] = g[i - 1] \o WriteUnknown(fields[i])
  <2>1. 0 \in 0 .. n /\ \A i \in 1 .. n : i \in 0 .. n /\ i # 0
    BY <1>0
  <2> QED
    BY <1>7, <2>1, Zenon
<1>9. \A i \in 0 .. n : g[i] \in Bytes
  <2> DEFINE S == {i \in 0 .. n : g[i] \in Bytes}
  <2>1. 0 \in S
    BY <1>0, <1>8, NoBytes
  <2>2. ASSUME NEW i \in 1 .. n, i - 1 \in S PROVE i \in S
    <3>1. g[i - 1] \in Bytes /\ w[i] \in Bytes /\ i \in 0 .. n
      BY <1>0, <2>2
    <3>2. g[i] = g[i - 1] \o w[i]
      BY <1>0, <1>8
    <3> DEFINE c == g[i - 1]
               d == w[i]
    <3>3. c \in Bytes /\ d \in Bytes /\ g[i] = c \o d
      BY <3>1, <3>2
    <3> HIDE DEF c, d, S
    <3>4. g[i] \in Bytes
      BY <3>3, BytesConcat
    <3> USE DEF S
    <3> QED
      BY <3>1, <3>4
  <2>3. 0 .. n \subseteq S
    <3> HIDE DEF S
    <3> QED
      BY <1>0, <2>1, <2>2, Ascent
  <2> QED
    BY <2>3
<1> QED
  BY <1>8, <1>9, <1>a DEF g, n

\* What is dropped is the first part.
LEMMA DropJoin ==
    ASSUME NEW c \in Bytes, NEW d \in Bytes
    PROVE  /\ Drop(c \o d, Len(c)) = d
           /\ SubSeq(c \o d, 1, Len(c)) = c
<1> DEFINE j == c \o d
           e == Drop(j, Len(c))
           b == SubSeq(j, 1, Len(c))
<1>0. /\ j \in Bytes /\ Len(j) = Len(c) + Len(d) /\ Len(c) \in Nat /\ Len(d) \in Nat
      /\ \A i \in 1 .. Len(c) + Len(d) : j[i] = IF i <= Len(c) THEN c[i] ELSE d[i - Len(c)]
  BY BytesConcat, BytesFacts
<1> HIDE DEF j
<1>1. e = SubSeq(j, Len(c) + 1, Len(j))
  BY DEF Drop
<1>2. /\ Len(c) + 1 \in 1 .. Len(j) + 1 /\ Len(j) \in (Len(c) + 1) - 1 .. Len(j)
      /\ 1 \in 1 .. Len(j) + 1 /\ Len(c) \in 1 - 1 .. Len(j)
      /\ Len(j) - (Len(c) + 1) + 1 = Len(d) /\ Len(c) - 1 + 1 = Len(c)
  BY <1>0
<1>3. /\ e \in Bytes /\ Len(e) = Len(j) - (Len(c) + 1) + 1
      /\ \A i \in 1 .. Len(j) - (Len(c) + 1) + 1 : e[i] = j[(Len(c) + 1) + i - 1]
  <2> HIDE DEF e
  <2> QED
    BY <1>0, <1>1, <1>2, BytesPart
<1>4. /\ b \in Bytes /\ Len(b) = Len(c) - 1 + 1
      /\ \A i \in 1 .. Len(c) - 1 + 1 : b[i] = j[1 + i - 1]
  BY <1>0, <1>2, BytesPart
<1> HIDE DEF e, b
<1>5. Len(e) = Len(d) /\ Len(b) = Len(c)
  BY <1>2, <1>3, <1>4
<1>6. ASSUME NEW i \in 1 .. Len(e) PROVE e[i] = d[i]
  <2>1. /\ (Len(c) + 1) + i - 1 = Len(c) + i /\ Len(c) + i \in 1 .. Len(c) + Len(d)
        /\ ~(Len(c) + i <= Len(c)) /\ (Len(c) + i) - Len(c) = i
        /\ i \in 1 .. Len(j) - (Len(c) + 1) + 1
    BY <1>0, <1>2, <1>5
  <2> QED
    BY <1>0, <1>3, <2>1
<1>7. ASSUME NEW i \in 1 .. Len(b) PROVE b[i] = c[i]
  <2>1. 1 + i - 1 = i /\ i \in 1 .. Len(c) + Len(d) /\ i <= Len(c) /\ i \in 1 .. Len(c) - 1 + 1
    BY <1>0, <1>2, <1>5
  <2> QED
    BY <1>0, <1>4, <2>1
<1>8. e = d /\ b = c
  BY <1>3, <1>4, <1>5, <1>6, <1>7, BytesEqual
<1> QED
  BY <1>8 DEF e, b, j

\* What is written of the first k fields is the beginning of what is written of all.
LEMMA WrittenFirst ==
    ASSUME NEW fields \in Seq(WireRecord), NEW k \in 0 .. Len(fields)
    PROVE  \E rest \in Bytes : WriteAll(fields) = WrittenUpTo(fields)[k] \o rest
<1> DEFINE n == Len(fields)
           g == WrittenUpTo(fields)
           S == {i \in 0 .. n : k <= i => \E rest \in Bytes : g[i] = g[k] \o rest}
<1>0. n \in Nat /\ \A i \in 1 .. n : WriteUnknown(fields[i]) \in Bytes
  BY RecordsFacts, RecordWritten
<1>1. /\ \A i \in 1 .. n : g[i] = g[i - 1] \o WriteUnknown(fields[i])
      /\ \A i \in 0 .. n : g[i] \in Bytes
      /\ WriteAll(fields) = g[n]
  BY WrittenDefined
<1> HIDE DEF g, n
<1>k. k \in 0 .. n
  BY DEF n
<1>2. ASSUME NEW i \in 0 .. n, i = k PROVE \E rest \in Bytes : g[i] = g[k] \o rest
  <2>1. g[k] \o << >> = g[k] /\ << >> \in Bytes
    BY <1>1, <1>2, NoBytes, BytesJoin
  <2> QED
    BY <1>2, <2>1
<1>3. 0 \in S
  <2>1. 0 \in 0 .. n /\ (k <= 0 => 0 = k)
    BY <1>0, <1>k
  <2> QED
    BY <1>2, <2>1
<1>4. ASSUME NEW i \in 1 .. n, i - 1 \in S PROVE i \in S
  <2>1. i \in 0 .. n /\ i - 1 \in 0 .. n
    BY <1>0
  <2>2. CASE k <= i - 1
    <3>1. PICK rest \in Bytes : g[i - 1] = g[k] \o rest
      BY <1>4, <2>2
    <3> DEFINE u == WriteUnknown(fields[i])
    <3>2. u \in Bytes /\ g[i] = g[i - 1] \o u /\ g[k] \in Bytes
      BY <1>0, <1>1, <1>k
    <3> DEFINE c == g[k]
    <3>c. c \in Bytes /\ g[i] = (c \o rest) \o u
      BY <3>1, <3>2
    <3> HIDE DEF u, c, S
    <3>3. rest \o u \in Bytes /\ (c \o rest) \o u = c \o (rest \o u)
      BY <3>2, <3>c, BytesConcat, BytesJoin
    <3>4. \E x \in Bytes : g[i] = g[k] \o x
      BY <3>3, <3>c DEF c
    <3> USE DEF S
    <3> QED
      BY <2>1, <3>4
  <2>3. CASE ~(k <= i - 1)
    <3>1. k <= i => i = k
      BY <1>k, <2>1, <2>3
    <3> QED
      BY <1>2, <2>1, <3>1
  <2> QED
    BY <2>2, <2>3
<1>5. 0 .. n \subseteq S
  <2> HIDE DEF S
  <2> QED
    BY <1>0, <1>3, <1>4, Ascent
<1>6. n \in S /\ k <= n
  <2>1. n \in 0 .. n /\ k <= n
    BY <1>0, <1>k
  <2> HIDE DEF S
  <2> QED
    BY <1>5, <2>1
<1>7. PICK rest \in Bytes : g[n] = g[k] \o rest
  BY <1>6
<1> QED
  BY <1>1, <1>7 DEF g

\* What is behind the first k fields.
Rest(fields, k) == Drop(WriteAll(fields), Len(WrittenUpTo(fields)[k]))

\* What is written is what k records are and the rest.
LEMMA RestJoin ==
    ASSUME NEW fields \in Seq(WireRecord), NEW k \in 0 .. Len(fields)
    PROVE  /\ Rest(fields, k) \in Bytes
           /\ WriteAll(fields) = WrittenUpTo(fields)[k] \o Rest(fields, k)
<1>1. PICK rest \in Bytes : WriteAll(fields) = WrittenUpTo(fields)[k] \o rest
  BY WrittenFirst
<1>2. WrittenUpTo(fields)[k] \in Bytes
  BY WrittenDefined
<1>3. Rest(fields, k) = rest
  BY <1>1, <1>2, DropJoin DEF Rest
<1> QED
  BY <1>1, <1>3

\* What follows the same bytes is the same.
LEMMA JoinCancels ==
    ASSUME NEW c \in Bytes, NEW d \in Bytes, NEW e \in Bytes, c \o d = c \o e
    PROVE  d = e
BY DropJoin

\* Each rest begins with its first record.
LEMMA RestFacts ==
    ASSUME NEW fields \in Seq(WireRecord)
    PROVE  /\ WriteAll(fields) \in Bytes
           /\ Rest(fields, 0) = WriteAll(fields)
           /\ Rest(fields, Len(fields)) = << >>
           /\ \A k \in 1 .. Len(fields) :
                 Rest(fields, k - 1) = WriteUnknown(fields[k]) \o Rest(fields, k)
<1> DEFINE n == Len(fields)
           g == WrittenUpTo(fields)
           all == WriteAll(fields)
           r(k) == Rest(fields, k)
<1>0. n \in Nat /\ \A i \in 1 .. n : WriteUnknown(fields[i]) \in Bytes
  BY RecordsFacts, RecordWritten
<1>1. /\ g[0] = << >> /\ all = g[n]
      /\ \A i \in 1 .. n : g[i] = g[i - 1] \o WriteUnknown(fields[i])
      /\ \A i \in 0 .. n : g[i] \in Bytes
  BY WrittenDefined
<1>2. \A k \in 0 .. n : r(k) \in Bytes /\ all = g[k] \o r(k)
  BY RestJoin
<1> HIDE DEF n, g, all, r
<1>3. all \in Bytes
  BY <1>0, <1>1
<1>4. r(0) = all
  <2> DEFINE d == r(0)
  <2>1. 0 \in 0 .. n
    BY <1>0
  <2>2. d \in Bytes /\ all = << >> \o d
    BY <1>1, <1>2, <2>1
  <2> HIDE DEF d
  <2>3. << >> \o d = d
    BY <2>2, BytesJoin
  <2> QED
    BY <2>2, <2>3 DEF d
<1>5. r(n) = << >>
  <2> DEFINE c == g[n]
             d == r(n)
  <2>1. c \in Bytes /\ d \in Bytes /\ c = c \o d
    <3>1. n \in 0 .. n
      BY <1>0
    <3> QED
      BY <1>1, <1>2, <3>1
  <2> HIDE DEF c, d
  <2>2. c \o d = c \o << >> /\ << >> \in Bytes
    BY <2>1, NoBytes, BytesJoin
  <2>3. d = << >>
    BY <2>1, <2>2, JoinCancels
  <2> QED
    BY <2>3 DEF d
<1>6. ASSUME NEW k \in 1 .. n PROVE r(k - 1) = WriteUnknown(fields[k]) \o r(k)
  <2> DEFINE u == WriteUnknown(fields[k])
  <2>1. k \in 0 .. n /\ k - 1 \in 0 .. n /\ u \in Bytes
    BY <1>0
  <2>2. g[k] = g[k - 1] \o u /\ g[k - 1] \in Bytes /\ r(k) \in Bytes /\ r(k - 1) \in Bytes
    BY <1>1, <1>2, <2>1
  <2> DEFINE c == g[k - 1]
             d == r(k)
             e == r(k - 1)
  <2>3. (c \o u) \o d = c \o e
    BY <1>2, <2>1, <2>2
  <2>4. c \in Bytes /\ d \in Bytes /\ e \in Bytes /\ u \in Bytes
    BY <2>1, <2>2
  <2> HIDE DEF u, c, d, e
  <2>5. u \o d \in Bytes /\ c \o (u \o d) = c \o e
    <3>1. u \o d \in Bytes
      BY <2>4, BytesConcat
    <3>2. (c \o u) \o d = c \o (u \o d)
      BY <2>4, BytesJoin
    <3> QED
      BY <2>3, <3>1, <3>2
  <2>6. u \o d = e
    BY <2>4, <2>5, JoinCancels
  <2> QED
    BY <2>6 DEF u, d, e
<1> QED
  BY <1>3, <1>4, <1>5, <1>6 DEF n, all, r

LEMMA WriteNone == WriteAll(<< >>) = << >>
<1>1. << >> \in Seq(WireRecord) /\ Len(<< >>) = 0
  BY EmptySeq
<1>2. WriteAll(<< >>) = WrittenUpTo(<< >>)[0]
  BY <1>1, WrittenDefined
<1> QED
  BY <1>1, <1>2, WrittenDefined

LEMMA WriteOne ==
    ASSUME NEW r \in WireRecord
    PROVE  <<r>> \in Seq(WireRecord) /\ WriteAll(<<r>>) = WriteUnknown(r)
<1> DEFINE f == <<r>>
<1>1. f \in Seq(WireRecord) /\ Len(f) = 1 /\ f[1] = r
  OBVIOUS
<1> HIDE DEF f
<1>2. Rest(f, 1 - 1) = WriteUnknown(f[1]) \o Rest(f, 1)
  <2>1. 1 \in 1 .. Len(f)
    BY <1>1
  <2> QED
    BY <1>1, <2>1, RestFacts
<1>3. Rest(f, 0) = WriteAll(f) /\ Rest(f, 1) = << >> /\ 1 - 1 = 0
  BY <1>1, RestFacts
<1>4. WriteUnknown(r) \o << >> = WriteUnknown(r)
  BY RecordWritten, BytesJoin
<1>5. WriteAll(f) = WriteUnknown(r)
  BY <1>1, <1>2, <1>3, <1>4
<1> QED
  BY <1>1, <1>5 DEF f

\* Sequences of records are written one after the other.
LEMMA WriteJoin ==
    ASSUME NEW s \in Seq(WireRecord), NEW t \in Seq(WireRecord)
    PROVE  s \o t \in Seq(WireRecord) /\ WriteAll(s \o t) = WriteAll(s) \o WriteAll(t)
<1> DEFINE j == s \o t
           m == Len(s)
           n == Len(t)
           f == WrittenUpTo(s)
           g == WrittenUpTo(t)
           h == WrittenUpTo(j)
<1>0. /\ j \in Seq(WireRecord) /\ Len(j) = m + n /\ m \in Nat /\ n \in Nat
      /\ \A i \in 1 .. m : j[i] = s[i]
      /\ \A i \in 1 .. n : j[m + i] = t[i]
  <2>1. /\ j \in Seq(WireRecord) /\ Len(j) = m + n /\ m \in Nat /\ n \in Nat
        /\ \A i \in 1 .. m + n : j[i] = IF i <= m THEN s[i] ELSE t[i - m]
    BY ConcatProperties, LenProperties
  <2> HIDE DEF j, m, n
  <2>2. ASSUME NEW i \in 1 .. n PROVE j[m + i] = t[i]
    <3>1. m + i \in 1 .. m + n /\ ~(m + i <= m) /\ (m + i) - m = i
      BY <2>1
    <3> QED
      BY <2>1, <3>1
  <2> QED
    BY <2>1, <2>2
<1>1. /\ f[0] = << >> /\ WriteAll(s) = f[m]
      /\ \A i \in 1 .. m : f[i] = f[i - 1] \o WriteUnknown(s[i])
      /\ \A i \in 0 .. m : f[i] \in Bytes
  BY WrittenDefined
<1>2. /\ g[0] = << >> /\ WriteAll(t) = g[n]
      /\ \A i \in 1 .. n : g[i] = g[i - 1] \o WriteUnknown(t[i])
      /\ \A i \in 0 .. n : g[i] \in Bytes
  BY WrittenDefined
<1>3. /\ h[0] = << >> /\ WriteAll(j) = h[m + n]
      /\ \A i \in 1 .. m + n : h[i] = h[i - 1] \o WriteUnknown(j[i])
  <2> HIDE DEF j, m, n
  <2> QED
    BY <1>0, WrittenDefined
<1>w. \A i \in 1 .. n : WriteUnknown(t[i]) \in Bytes
  BY RecordsFacts, RecordWritten
<1> HIDE DEF j, m, n, f, g, h
<1> DEFINE S == {i \in 0 .. m : h[i] = f[i]}
<1>4. 0 \in S
  BY <1>0, <1>1, <1>3
<1>5. ASSUME NEW i \in 1 .. m, i - 1 \in S PROVE i \in S
  <2>1. i \in 1 .. m + n /\ i \in 0 .. m /\ h[i - 1] = f[i - 1]
    BY <1>0, <1>5
  <2>2. h[i] = f[i]
    BY <1>0, <1>1, <1>3, <2>1
  <2> QED
    BY <2>1, <2>2
<1>6. 0 .. m \subseteq S
  <2> HIDE DEF S
  <2> QED
    BY <1>0, <1>4, <1>5, Ascent
<1>7. h[m] = f[m] /\ f[m] \in Bytes
  BY <1>0, <1>1, <1>6
<1> HIDE DEF S
<1> DEFINE c == f[m]
           T == {i \in 0 .. n : h[m + i] = c \o g[i]}
<1>c. c \in Bytes /\ h[m] = c
  BY <1>7
<1> HIDE DEF c
<1>8. 0 \in T
  <2>1. c \o << >> = c /\ m + 0 = m /\ 0 \in 0 .. n
    BY <1>0, <1>c, BytesJoin
  <2>2. h[m + 0] = c \o g[0]
    BY <1>2, <1>c, <2>1
  <2> QED
    BY <2>1, <2>2
<1>9. ASSUME NEW i \in 1 .. n, i - 1 \in T PROVE i \in T
  <2> DEFINE u == WriteUnknown(t[i])
             d == g[i - 1]
             k == m + i
  <2>1. h[m + (i - 1)] = c \o d
    BY <1>9
  <2> HIDE DEF T
  <2>2. k \in 1 .. m + n /\ i \in 0 .. n /\ i - 1 \in 0 .. n /\ k - 1 = m + (i - 1)
    BY <1>0
  <2>3. u \in Bytes /\ d \in Bytes /\ g[i] = d \o u /\ j[k] = t[i]
    BY <1>0, <1>2, <1>w, <2>2
  <2>4. h[k] = h[k - 1] \o WriteUnknown(j[k])
    BY <1>3, <2>2
  <2>5. h[k] = (c \o d) \o u
    BY <2>1, <2>2, <2>3, <2>4
  <2> HIDE DEF u, d, k
  <2>6. h[k] = c \o g[i]
    BY <1>c, <2>3, <2>5, BytesJoin
  <2>7. h[m + i] = c \o g[i] /\ i \in 0 .. n
    BY <2>2, <2>6 DEF k
  <2> QED
    BY <2>7, Zenon DEF T
<1>10. 0 .. n \subseteq T
  <2> HIDE DEF T
  <2> QED
    BY <1>0, <1>8, <1>9, Ascent
<1>11. h[m + n] = c \o g[n]
  <2>1. n \in 0 .. n
    BY <1>0
  <2> QED
    BY <1>10, <2>1
<1>12. h[m + n] = f[m] \o g[n]
  BY <1>11 DEF c
<1> QED
  BY <1>0, <1>1, <1>2, <1>3, <1>12 DEF j

\* The rest after k records is longer than that after more.
LEMMA RestShorter ==
    ASSUME NEW fields \in Seq(WireRecord),
           NEW k \in 0 .. Len(fields), NEW l \in 0 .. Len(fields), k < l
    PROVE  Len(Rest(fields, l)) < Len(Rest(fields, k))
<1> DEFINE n == Len(fields)
           w(i) == WriteUnknown(fields[i])
           r(i) == Rest(fields, i)
           S == {i \in 0 .. n : k < i => Len(r(i)) < Len(r(k))}
<1>0. n \in Nat /\ \A i \in 1 .. n : w(i) \in Bytes /\ Len(w(i)) >= 1 /\ Len(w(i)) \in Nat
  BY RecordsFacts, RecordWritten, BytesFacts
<1>1. /\ \A i \in 1 .. n : r(i - 1) = w(i) \o r(i)
      /\ \A i \in 0 .. n : r(i) \in Bytes /\ Len(r(i)) \in Nat
  BY RestFacts, RestJoin, BytesFacts
<1>k. k \in 0 .. n /\ l \in 0 .. n
  OBVIOUS
<1> HIDE DEF n, w, r
<1>2. \A i \in 1 .. n : Len(r(i)) < Len(r(i - 1))
  <2> TAKE i \in 1 .. n
  <2>1. i \in 0 .. n
    BY <1>0
  <2>2. Len(w(i) \o r(i)) = Len(w(i)) + Len(r(i))
    BY <1>0, <1>1, <2>1, BytesConcat
  <2> QED
    BY <1>0, <1>1, <2>1, <2>2
<1>3. 0 \in S
  BY <1>0, <1>k
<1>4. ASSUME NEW i \in 1 .. n, i - 1 \in S PROVE i \in S
  <2>1. i \in 0 .. n /\ i - 1 \in 0 .. n /\ (k < i => k < i - 1 \/ k = i - 1)
    BY <1>0, <1>k
  <2>2. Len(r(i)) < Len(r(i - 1)) /\ (k < i - 1 => Len(r(i - 1)) < Len(r(k)))
    BY <1>2, <1>4
  <2> QED
    BY <1>1, <1>k, <2>1, <2>2
<1>5. 0 .. n \subseteq S
  <2> HIDE DEF S
  <2> QED
    BY <1>0, <1>3, <1>4, Ascent
<1> QED
  BY <1>5, <1>k DEF r

\* The rest after k records is what is written of the others.
LEMMA RestWritten ==
    ASSUME NEW fields \in Seq(WireRecord), NEW k \in 0 .. Len(fields)
    PROVE  WriteAll(SubSeq(fields, k + 1, Len(fields))) = Rest(fields, k)
<1> DEFINE n == Len(fields)
           tail(i) == SubSeq(fields, i + 1, n)
           S == {i \in 0 .. n : /\ tail(n - i) \in Seq(WireRecord)
                                /\ WriteAll(tail(n - i)) = Rest(fields, n - i)}
<1>0. n \in Nat /\ (\A i \in 1 .. n : fields[i] \in WireRecord) /\ k \in 0 .. n
  BY RecordsFacts
<1>1. /\ \A i \in 1 .. n : Rest(fields, i - 1) = WriteUnknown(fields[i]) \o Rest(fields, i)
      /\ Rest(fields, n) = << >>
  BY RestFacts
<1>2. tail(n) = << >> /\ << >> \in Seq(WireRecord)
  BY <1>0, SubSeqEmpty
<1>3. \A i \in 1 .. n : tail(i - 1) = <<fields[i]>> \o tail(i)
  <2> TAKE i \in 1 .. n
  <2>1. n \in i .. n /\ (i - 1) + 1 = i
    BY <1>0
  <2>2. SubSeq(fields, i, n) = <<fields[i]>> \o SubSeq(fields, i + 1, n)
    BY <2>1, SubSeqRecursiveFirst
  <2> QED
    BY <2>1, <2>2
<1> HIDE DEF n, tail
<1>4. 0 \in S
  <2>1. n - 0 = n /\ 0 \in 0 .. n
    BY <1>0
  <2>2. WriteAll(tail(n)) = Rest(fields, n)
    BY <1>1, <1>2, WriteNone
  <2> QED
    BY <1>2, <2>1, <2>2
<1>5. ASSUME NEW i \in 1 .. n, i - 1 \in S PROVE i \in S
  <2> DEFINE j == n - (i - 1)
  <2>1. j \in 1 .. n /\ j - 1 = n - i /\ i \in 0 .. n
    BY <1>0
  <2>2. tail(j) \in Seq(WireRecord) /\ WriteAll(tail(j)) = Rest(fields, j)
    BY <1>5
  <2> HIDE DEF j
  <2>3. fields[j] \in WireRecord /\ tail(j - 1) = <<fields[j]>> \o tail(j)
    BY <1>0, <1>3, <2>1
  <2>4. <<fields[j]>> \in Seq(WireRecord) /\ WriteAll(<<fields[j]>>) = WriteUnknown(fields[j])
    BY <2>3, WriteOne
  <2>5. /\ tail(j - 1) \in Seq(WireRecord)
        /\ WriteAll(tail(j - 1)) = WriteUnknown(fields[j]) \o Rest(fields, j)
    BY <2>2, <2>3, <2>4, WriteJoin
  <2>6. Rest(fields, j - 1) = WriteUnknown(fields[j]) \o Rest(fields, j)
    BY <1>1, <2>1
  <2> QED
    BY <2>1, <2>5, <2>6
<1>6. 0 .. n \subseteq S
  <2> HIDE DEF S
  <2> QED
    BY <1>0, <1>4, <1>5, Ascent
<1>7. n - k \in 0 .. n /\ n - (n - k) = k
  BY <1>0
<1>8. WriteAll(tail(k)) = Rest(fields, k)
  BY <1>6, <1>7
<1> QED
  BY <1>8 DEF tail, n

==============================================================================
