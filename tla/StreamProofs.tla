---------------------------- MODULE StreamProofs ----------------------------
(***************************************************************************)
(* Proofs about Stream, for messages of any number and lengths of any      *)
(* values: that framing is kept, that the rate is told exactly what came   *)
(* of a piece, and that the stream is a channel.                           *)
(*                                                                         *)
(* What is in in_buffer, on the wire and in out_buffer, put end to end, is *)
(* what was sent: a flow of bytes in which each follows the one before it  *)
(* in its message, or begins the next message after the last byte of one.  *)
(* The length of a message does not appear in a flow, but its k-th byte    *)
(* is byte k of the first message as long as k is within that message      *)
(* (FlowFirst): that is proved from the least k at which it would not be,  *)
(* and gives what the receiver reads in the prefix and in the type. A step *)
(* moves bytes from one buffer to the next, takes a whole message from the *)
(* front, puts the next one (or, when the sender is closed, a part of it)  *)
(* at the end, or forgets all.                                             *)
(***************************************************************************)
EXTENDS Stream, WellFoundedInduction, TLAPS

\* A set of numbers that is not empty has a least one: what replaces induction.
LEMMA LeastNumber ==
  ASSUME NEW T \in SUBSET Nat, T # {}
  PROVE  \E n \in T : \A m \in T : n <= m
<1> DEFINE R == OpToRel(<, Nat)
<1>1. IsWellFoundedOn(R, Nat)
  BY NatLessThanWellFounded, Zenon
<1>2. \A m, n \in Nat : <<m, n>> \in R <=> m < n
  BY DEF OpToRel
<1> HIDE DEF R
<1>3. \E n \in T : \A m \in T : ~ (<<m, n>> \in R)
  BY <1>1, WFMin, Zenon
<1>4. PICK n \in T : \A m \in T : ~ (<<m, n>> \in R)
  BY <1>3
<1>5. ASSUME NEW m \in T
      PROVE  n <= m
  <2>1. ~ (m < n)
    BY <1>2, <1>4
  <2> QED
    BY <2>1
<1> QED
  BY <1>5

-----------------------------------------------------------------------------
(* Sequences.                                                              *)

\* What SubSeq from the start and DropFirst give.
LEMMA Taken ==
  ASSUME NEW X, NEW s \in Seq(X), NEW r \in 0 .. Len(s)
  PROVE  /\ SubSeq(s, 1, r) \in Seq(X) /\ Len(SubSeq(s, 1, r)) = r
         /\ \A i \in 1 .. r : SubSeq(s, 1, r)[i] = s[i]
         /\ DropFirst(s, r) \in Seq(X) /\ Len(DropFirst(s, r)) = Len(s) - r
         /\ \A i \in 1 .. Len(s) - r : DropFirst(s, r)[i] = s[r + i]
BY DEF DropFirst

\* What is where in two sequences put together.
LEMMA Cat ==
  ASSUME NEW X, NEW s \in Seq(X), NEW t \in Seq(X)
  PROVE  /\ s \o t \in Seq(X) /\ Len(s \o t) = Len(s) + Len(t)
         /\ \A i \in 1 .. Len(s) : (s \o t)[i] = s[i]
         /\ \A i \in Len(s) + 1 .. Len(s) + Len(t) : (s \o t)[i] = t[i - Len(s)]
OBVIOUS

\* Sequences with the same elements are the same.
LEMMA SameSeq ==
  ASSUME NEW X, NEW s \in Seq(X), NEW t \in Seq(X), Len(s) = Len(t),
         \A i \in 1 .. Len(s) : s[i] = t[i]
  PROVE  s = t
OBVIOUS

\* Bytes that move from the front of one buffer to the end of the one before it.
LEMMA Moved ==
  ASSUME NEW X, NEW s \in Seq(X), NEW t \in Seq(X), NEW r \in 0 .. Len(t)
  PROVE  (s \o SubSeq(t, 1, r)) \o DropFirst(t, r) = s \o t
<1> DEFINE a == SubSeq(t, 1, r)
           b == DropFirst(t, r)
           u == s \o a
           v == u \o b
           w == s \o t
<1>1. /\ a \in Seq(X) /\ Len(a) = r /\ \A i \in 1 .. r : a[i] = t[i]
      /\ b \in Seq(X) /\ Len(b) = Len(t) - r /\ \A i \in 1 .. Len(t) - r : b[i] = t[r + i]
  BY Taken
<1>2. /\ w \in Seq(X) /\ Len(w) = Len(s) + Len(t)
      /\ \A i \in 1 .. Len(s) : w[i] = s[i]
      /\ \A i \in Len(s) + 1 .. Len(s) + Len(t) : w[i] = t[i - Len(s)]
  BY Cat
<1> HIDE DEF a, b
<1>3. /\ u \in Seq(X) /\ Len(u) = Len(s) + Len(a)
      /\ \A i \in 1 .. Len(s) : u[i] = s[i]
      /\ \A i \in Len(s) + 1 .. Len(s) + Len(a) : u[i] = a[i - Len(s)]
  <2>1. a \in Seq(X)
    BY <1>1
  <2> QED
    BY <2>1, Cat
<1> HIDE DEF u
<1>4. /\ v \in Seq(X) /\ Len(v) = Len(u) + Len(b)
      /\ \A i \in 1 .. Len(u) : v[i] = u[i]
      /\ \A i \in Len(u) + 1 .. Len(u) + Len(b) : v[i] = b[i - Len(u)]
  <2>1. u \in Seq(X) /\ b \in Seq(X)
    BY <1>1, <1>3
  <2> QED
    BY <2>1, Cat
<1> HIDE DEF v, w
<1>5. Len(v) = Len(w) /\ Len(s) \in Nat /\ Len(t) \in Nat
  BY <1>1, <1>2, <1>3, <1>4
<1>6. ASSUME NEW i \in 1 .. Len(v) PROVE v[i] = w[i]
  <2>1. CASE i <= Len(s)
    <3>1. i \in 1 .. Len(s) /\ i \in 1 .. Len(u)
      BY <1>1, <1>3, <1>5, <2>1
    <3> QED
      BY <1>2, <1>3, <1>4, <3>1
  <2>2. CASE i > Len(s) /\ i <= Len(s) + r
    <3>1. /\ i \in Len(s) + 1 .. Len(s) + Len(t) /\ i \in 1 .. Len(u)
          /\ i \in Len(s) + 1 .. Len(s) + Len(a) /\ i - Len(s) \in 1 .. r
      BY <1>1, <1>3, <1>5, <2>2
    <3> QED
      BY <1>1, <1>2, <1>3, <1>4, <3>1
  <2>3. CASE i > Len(s) + r
    <3>1. /\ i - Len(u) \in 1 .. Len(t) - r /\ r + (i - Len(u)) = i - Len(s)
          /\ i \in Len(u) + 1 .. Len(u) + Len(b) /\ i \in Len(s) + 1 .. Len(s) + Len(t)
      BY <1>1, <1>2, <1>3, <1>4, <1>5, <2>3
    <3> QED
      BY <1>1, <1>2, <1>4, <3>1
  <2> QED
    BY <1>5, <2>1, <2>2, <2>3
<1>7. v = w
  BY <1>2, <1>4, <1>5, <1>6, SameSeq
<1> QED
  BY <1>7 DEF u, v, w, a, b

\* Putting together is associative.
LEMMA Associates ==
  ASSUME NEW X, NEW s \in Seq(X), NEW t \in Seq(X), NEW u \in Seq(X)
  PROVE  (s \o t) \o u = s \o (t \o u)
OBVIOUS

-----------------------------------------------------------------------------
(* Messages and their bytes.                                               *)

Byte == Nat \X Nat

\* A message is not longer than what HaveMessage accepts, and only a PIECE is longer than PieceHead.
LEMMA LenOfFacts ==
  ASSUME NEW kind \in Kinds
  PROVE  /\ LenOf(kind) \in 0 .. MaxLen
         /\ kind \in {"keepalive", "choke", "unchoke", "have", "piece"}
         /\ LenOf(kind) = 0 <=> kind = "keepalive"
         /\ kind = "piece" => LenOf(kind) = PieceHead + Slice
         /\ LenOf(kind) > PieceHead + 1 => kind = "piece"
BY StreamAssumption DEF StreamAssumption, LenOf

\* The bytes of a message from k on.
LEMMA BytesFacts ==
  ASSUME NEW n \in Nat, NEW k \in Nat, NEW l \in Nat, k <= l
  PROVE  /\ Bytes(n, k, l) \in Seq(Byte) /\ Len(Bytes(n, k, l)) = l - k
         /\ \A i \in 1 .. l - k : Bytes(n, k, l)[i] = <<n, k + i - 1>>
<1>1. l - k \in Nat
  OBVIOUS
<1>2. \A i \in 1 .. l - k : <<n, k + i - 1>> \in Byte
  BY DEF Byte
<1> QED
  BY <1>1, <1>2 DEF Bytes

\* And from its first on.
LEMMA BytesFromStart ==
  ASSUME NEW n \in Nat, NEW k \in Nat
  PROVE  /\ Bytes(n, 0, k) \in Seq(Byte) /\ Len(Bytes(n, 0, k)) = k
         /\ \A i \in 1 .. k : Bytes(n, 0, k)[i] = <<n, i - 1>>
<1>1. k - 0 = k
  OBVIOUS
<1>2. \A i \in 1 .. k : 0 + i - 1 = i - 1 /\ <<n, i - 1>> \in Byte
  BY DEF Byte
<1>3. Bytes(n, 0, k) = [i \in 1 .. k |-> <<n, i - 1>>]
  BY <1>1, <1>2 DEF Bytes
<1> QED
  BY <1>2, <1>3

\* How long message n of the messages q is, with its prefix.
SizeOf(q, n) == IF n = 0 THEN Shake ELSE Pre + LenOf(q[n])

\* s holds bytes of what has been sent, from the first of message n on, with none left out.
Follows(q, b, c) == c = <<b[1], b[2] + 1>> \/ (c = <<b[1] + 1, 0>> /\ b[2] + 1 = SizeOf(q, b[1]))
Flow(q, s, n) ==
  /\ s \in Seq(Byte)
  /\ \A i \in 1 .. Len(s) : s[i][1] <= Len(q) /\ s[i][2] < SizeOf(q, s[i][1])
  /\ \A i \in 1 .. Len(s) - 1 : Follows(q, s[i], s[i + 1])
  /\ s # << >> => s[1] = <<n, 0>>
\* It goes on to the last byte sent.
ToLast(q, s, n) ==
  IF s = << >> THEN n = Len(q) + 1 ELSE s[Len(s)] = <<Len(q), SizeOf(q, Len(q)) - 1>>

\* The sizes of the messages sent.
LEMMA SizeOfFacts ==
  ASSUME NEW q \in Seq(Kinds)
  PROVE  /\ \A n \in 0 .. Len(q) : SizeOf(q, n) \in Nat /\ SizeOf(q, n) >= Pre
         /\ SizeOf(q, 0) = Shake /\ Len(q) \in Nat
         /\ \A n \in 1 .. Len(q) : q[n] \in Kinds /\ SizeOf(q, n) = Pre + LenOf(q[n])
<1>1. \A n \in 1 .. Len(q) : q[n] \in Kinds
  OBVIOUS
<1>2. SizeOf(q, 0) = Shake /\ \A n \in 1 .. Len(q) : SizeOf(q, n) = Pre + LenOf(q[n])
  BY DEF SizeOf
<1>3. Len(q) \in Nat /\ Pre \in Nat /\ Shake \in Nat /\ Shake > Pre /\ MaxLen \in Nat
  BY StreamAssumption DEF StreamAssumption
<1>4. \A n \in 1 .. Len(q) : LenOf(q[n]) \in Nat
  BY <1>1, <1>3, LenOfFacts
<1>5. ASSUME NEW n \in 0 .. Len(q) PROVE SizeOf(q, n) \in Nat /\ SizeOf(q, n) >= Pre
  <2>1. CASE n = 0
    BY <1>2, <1>3, <2>1
  <2>2. CASE n # 0
    <3>1. n \in 1 .. Len(q)
      BY <1>3, <2>2
    <3> QED
      BY <1>2, <1>3, <1>4, <3>1
  <2> QED
    BY <2>1, <2>2
<1> QED
  BY <1>1, <1>2, <1>3, <1>5

\* What begins a flow is a flow.
LEMMA FlowTaken ==
  ASSUME NEW q \in Seq(Kinds), NEW n \in Nat, NEW s, Flow(q, s, n), NEW r \in 0 .. Len(s)
  PROVE  Flow(q, SubSeq(s, 1, r), n)
<1> DEFINE t == SubSeq(s, 1, r)
<1>1. s \in Seq(Byte) /\ Len(s) \in Nat
  BY DEF Flow
<1>2. t \in Seq(Byte) /\ Len(t) = r /\ \A i \in 1 .. r : t[i] = s[i]
  BY <1>1, Taken
<1> HIDE DEF t
<1>3. \A i \in 1 .. Len(t) : t[i][1] <= Len(q) /\ t[i][2] < SizeOf(q, t[i][1])
  <2> TAKE i \in 1 .. Len(t)
  <2>1. i \in 1 .. Len(s) /\ t[i] = s[i]
    BY <1>1, <1>2
  <2> QED
    BY <2>1 DEF Flow
<1>4. ASSUME NEW i \in 1 .. Len(t) - 1 PROVE Follows(q, t[i], t[i + 1])
  <2>1. i \in 1 .. r /\ i + 1 \in 1 .. r /\ i \in 1 .. Len(s) - 1
    BY <1>1, <1>2
  <2> QED
    BY <1>2, <2>1 DEF Flow
<1>5. t # << >> => t[1] = <<n, 0>>
  <2> SUFFICES ASSUME t # << >> PROVE t[1] = <<n, 0>>
    OBVIOUS
  <2>1. 1 \in 1 .. r /\ s # << >>
    BY <1>1, <1>2
  <2> QED
    BY <1>2, <2>1 DEF Flow
<1>6. Flow(q, t, n)
  BY <1>2, <1>3, <1>4, <1>5 DEF Flow
<1> QED
  BY <1>6 DEF t

\* The first bytes are those of message n, in order.
LEMMA FlowFirst ==
  ASSUME NEW q \in Seq(Kinds), NEW n \in Nat, NEW s, Flow(q, s, n), NEW k \in 1 .. Len(s), k <= SizeOf(q, n)
  PROVE  s[k] = <<n, k - 1>>
<1> DEFINE T == {j \in Nat : j \in 1 .. Len(s) /\ j <= SizeOf(q, n) /\ s[j] # <<n, j - 1>>}
<1>1. s \in Seq(Byte) /\ Len(s) \in Nat /\ s # << >> /\ s[1] = <<n, 0>>
  BY DEF Flow
<1>2. n <= Len(q) /\ SizeOf(q, n) \in Nat
  <2>1. s[1][1] <= Len(q)
    BY <1>1 DEF Flow
  <2> QED
    BY <1>1, <2>1, SizeOfFacts
<1> SUFFICES ASSUME s[k] # <<n, k - 1>> PROVE FALSE
  OBVIOUS
<1>3. T # {}
  <2>1. k \in T
    BY <1>1
  <2> QED
    BY <2>1
<1>4. PICK m \in T : \A j \in T : m <= j
  <2> HIDE DEF T
  <2>1. T \in SUBSET Nat
    BY DEF T
  <2> QED
    BY <1>3, <2>1, LeastNumber
<1>5. m \in 1 .. Len(s) /\ m <= SizeOf(q, n) /\ s[m] # <<n, m - 1>> /\ m # 1
  BY <1>1, <1>4
<1> DEFINE p == m - 1
<1>6. p \in 1 .. Len(s) - 1 /\ p \in Nat /\ p \in 1 .. Len(s) /\ p <= SizeOf(q, n) /\ p < m /\ p + 1 = m
  BY <1>1, <1>2, <1>5
<1> HIDE DEF p
<1>7. s[p] = <<n, p - 1>>
  <2>1. p \notin T
    BY <1>4, <1>6
  <2> QED
    BY <1>6, <2>1
<1>8. Follows(q, s[p], s[m])
  BY <1>6 DEF Flow
<1>9. (p - 1) + 1 # SizeOf(q, n) /\ (p - 1) + 1 = m - 1
  BY <1>2, <1>5, <1>6
<1>10. s[m] = <<n, m - 1>>
  BY <1>7, <1>8, <1>9 DEF Follows
<1> QED
  BY <1>5, <1>10

\* What comes after message n begins with message n + 1.
LEMMA FlowDropped ==
  ASSUME NEW q \in Seq(Kinds), NEW n \in 0 .. Len(q), NEW s, Flow(q, s, n), Len(s) >= SizeOf(q, n)
  PROVE  /\ SizeOf(q, n) \in 0 .. Len(s) /\ Flow(q, DropFirst(s, SizeOf(q, n)), n + 1)
         /\ ToLast(q, s, n) => ToLast(q, DropFirst(s, SizeOf(q, n)), n + 1)
<1> DEFINE r == SizeOf(q, n)
           t == DropFirst(s, r)
<1>1. s \in Seq(Byte) /\ Len(s) \in Nat /\ r \in 1 .. Len(s) /\ n \in Nat /\ Len(q) \in Nat
  BY SizeOfFacts, StreamAssumption DEF Flow, StreamAssumption
<1>2. s[r] = <<n, r - 1>>
  BY <1>1, FlowFirst
<1>4. r = SizeOf(q, n) /\ r \in 0 .. Len(s)
  BY <1>1
<1> HIDE DEF r
<1>3. t \in Seq(Byte) /\ Len(t) = Len(s) - r /\ \A i \in 1 .. Len(s) - r : t[i] = s[r + i]
  BY <1>1, <1>4, Taken
<1> HIDE DEF t
<1>5. \A i \in 1 .. Len(t) : t[i][1] <= Len(q) /\ t[i][2] < SizeOf(q, t[i][1])
  <2> TAKE i \in 1 .. Len(t)
  <2>1. t[i] = s[r + i] /\ r + i \in 1 .. Len(s)
    BY <1>1, <1>3
  <2> QED
    BY <2>1 DEF Flow
<1>6. ASSUME NEW i \in 1 .. Len(t) - 1 PROVE Follows(q, t[i], t[i + 1])
  <2>1. /\ i \in 1 .. Len(s) - r /\ i + 1 \in 1 .. Len(s) - r
        /\ r + i \in 1 .. Len(s) - 1 /\ r + (i + 1) = (r + i) + 1
    BY <1>1, <1>3
  <2> QED
    BY <1>3, <2>1 DEF Flow
<1>7. ASSUME t # << >> PROVE t[1] = <<n + 1, 0>>
  <2>1. 1 \in 1 .. Len(s) - r /\ r \in 1 .. Len(s) - 1 /\ r + 1 \in 1 .. Len(s)
    BY <1>1, <1>3, <1>7
  <2>2. Follows(q, s[r], s[r + 1])
    BY <2>1 DEF Flow
  <2>3. s[r + 1][2] < SizeOf(q, s[r + 1][1])
    BY <2>1 DEF Flow
  <2>4. s[r + 1] # <<n, (r - 1) + 1>>
    BY <1>1, <1>4, <2>3
  <2>5. s[r + 1] = <<n + 1, 0>>
    BY <1>2, <2>2, <2>4 DEF Follows
  <2> QED
    BY <1>3, <2>1, <2>5
<1>8. Flow(q, t, n + 1)
  BY <1>3, <1>5, <1>6, <1>7 DEF Flow
<1>9. ASSUME ToLast(q, s, n) PROVE ToLast(q, t, n + 1)
  <2>1. s # << >> /\ s[Len(s)] = <<Len(q), SizeOf(q, Len(q)) - 1>>
    BY <1>1, <1>9 DEF ToLast
  <2>2. CASE t = << >>
    <3>1. Len(s) = r
      BY <1>1, <1>3, <2>2
    <3>2. n = Len(q)
      BY <1>2, <2>1, <3>1
    <3> QED
      BY <2>2, <3>2 DEF ToLast
  <2>3. CASE t # << >>
    <3>1. Len(t) \in 1 .. Len(s) - r /\ r + Len(t) = Len(s)
      BY <1>1, <1>3, <2>3
    <3> QED
      BY <1>3, <2>1, <2>3, <3>1 DEF ToLast
  <2> QED
    BY <2>2, <2>3
<1> QED
  BY <1>1, <1>4, <1>8, <1>9 DEF t, r

\* Two flows make one when the second begins where the first ends.
LEMMA FlowAppended ==
  ASSUME NEW q \in Seq(Kinds), NEW n \in Nat, NEW m \in Nat,
         NEW s \in Seq(Byte), NEW t \in Seq(Byte), Flow(q, s, n), Flow(q, t, m),
         s = << >> => m = n,
         s # << >> /\ t # << >> => Follows(q, s[Len(s)], t[1])
  PROVE  Flow(q, s \o t, n)
<1> DEFINE u == s \o t
<1>1. /\ u \in Seq(Byte) /\ Len(u) = Len(s) + Len(t)
      /\ \A i \in 1 .. Len(s) : u[i] = s[i]
      /\ \A i \in Len(s) + 1 .. Len(s) + Len(t) : u[i] = t[i - Len(s)]
  BY Cat
<1>2. Len(s) \in Nat /\ Len(t) \in Nat /\ (s = << >> <=> Len(s) = 0) /\ (t = << >> <=> Len(t) = 0)
  OBVIOUS
<1> HIDE DEF u
<1>3. \A i \in 1 .. Len(u) : u[i][1] <= Len(q) /\ u[i][2] < SizeOf(q, u[i][1])
  <2> TAKE i \in 1 .. Len(u)
  <2>1. CASE i <= Len(s)
    <3>1. i \in 1 .. Len(s)
      BY <1>1, <1>2, <2>1
    <3> QED
      BY <1>1, <3>1 DEF Flow
  <2>2. CASE i > Len(s)
    <3>1. i \in Len(s) + 1 .. Len(s) + Len(t) /\ i - Len(s) \in 1 .. Len(t)
      BY <1>1, <1>2, <2>2
    <3> QED
      BY <1>1, <3>1 DEF Flow
  <2> QED
    BY <1>1, <1>2, <2>1, <2>2
<1>4. ASSUME NEW i \in 1 .. Len(u) - 1 PROVE Follows(q, u[i], u[i + 1])
  <2>1. CASE i < Len(s)
    <3>1. i \in 1 .. Len(s) - 1 /\ i \in 1 .. Len(s) /\ i + 1 \in 1 .. Len(s)
      BY <1>1, <1>2, <2>1
    <3> QED
      BY <1>1, <3>1 DEF Flow
  <2>2. CASE i = Len(s)
    <3>1. /\ i \in 1 .. Len(s) /\ i + 1 \in Len(s) + 1 .. Len(s) + Len(t) /\ (i + 1) - Len(s) = 1
          /\ s # << >> /\ t # << >>
      BY <1>1, <1>2, <2>2
    <3> QED
      BY <1>1, <2>2, <3>1
  <2>3. CASE i > Len(s)
    <3>1. /\ i \in Len(s) + 1 .. Len(s) + Len(t) /\ i + 1 \in Len(s) + 1 .. Len(s) + Len(t)
          /\ i - Len(s) \in 1 .. Len(t) - 1 /\ (i + 1) - Len(s) = (i - Len(s)) + 1
      BY <1>1, <1>2, <2>3
    <3> QED
      BY <1>1, <3>1 DEF Flow
  <2> QED
    BY <1>1, <1>2, <2>1, <2>2, <2>3
<1>5. ASSUME u # << >> PROVE u[1] = <<n, 0>>
  <2>1. CASE s # << >>
    <3>1. 1 \in 1 .. Len(s)
      BY <1>2, <2>1
    <3> QED
      BY <1>1, <2>1, <3>1 DEF Flow
  <2>2. CASE s = << >>
    <3>1. 1 \in Len(s) + 1 .. Len(s) + Len(t) /\ 1 - Len(s) = 1 /\ t # << >>
      BY <1>1, <1>2, <1>5, <2>2
    <3> QED
      BY <1>1, <2>2, <3>1 DEF Flow
  <2> QED
    BY <2>1, <2>2
<1>6. Flow(q, u, n)
  BY <1>1, <1>3, <1>4, <1>5 DEF Flow
<1> QED
  BY <1>6 DEF u

\* More messages do not change those that are there.
LEMMA FlowGrown ==
  ASSUME NEW q \in Seq(Kinds), NEW kind \in Kinds, NEW n \in Nat, NEW s, Flow(q, s, n)
  PROVE  /\ Flow(Append(q, kind), s, n)
         /\ SizeOf(Append(q, kind), Len(q) + 1) = Pre + LenOf(kind)
         /\ \A i \in 0 .. Len(q) : SizeOf(Append(q, kind), i) = SizeOf(q, i)
<1> DEFINE r == Append(q, kind)
<1>1. /\ Len(q) \in Nat /\ Len(r) = Len(q) + 1 /\ \A i \in 1 .. Len(q) : r[i] = q[i]
      /\ r[Len(q) + 1] = kind
  OBVIOUS
<1> HIDE DEF r
<1>2. \A i \in 0 .. Len(q) : SizeOf(r, i) = SizeOf(q, i)
  BY <1>1 DEF SizeOf
<1>3. SizeOf(r, Len(q) + 1) = Pre + LenOf(kind)
  BY <1>1 DEF SizeOf
<1>4. \A i \in 1 .. Len(s) : s[i] \in Byte /\ s[i][1] \in 0 .. Len(q)
  BY <1>1 DEF Flow, Byte
<1>5. \A i \in 1 .. Len(s) : s[i][1] <= Len(r) /\ s[i][2] < SizeOf(r, s[i][1])
  BY <1>1, <1>2, <1>4 DEF Flow
<1>6. \A i \in 1 .. Len(s) - 1 : Follows(r, s[i], s[i + 1])
  <2> TAKE i \in 1 .. Len(s) - 1
  <2>1. i \in 1 .. Len(s)
    BY DEF Flow
  <2> QED
    BY <1>2, <1>4, <2>1 DEF Flow, Follows
<1>7. Flow(r, s, n)
  BY <1>5, <1>6 DEF Flow
<1> QED
  BY <1>2, <1>3, <1>7 DEF r

\* The bytes of a message, or the first of them.
LEMMA FlowOfMessage ==
  ASSUME NEW q \in Seq(Kinds), NEW n \in 0 .. Len(q), NEW k \in Nat, k <= SizeOf(q, n)
  PROVE  /\ Flow(q, Bytes(n, 0, k), n)
         /\ k = SizeOf(q, n) /\ n = Len(q) => ToLast(q, Bytes(n, 0, k), n)
<1> DEFINE b == Bytes(n, 0, k)
<1>1. b \in Seq(Byte) /\ Len(b) = k /\ \A i \in 1 .. k : b[i] = <<n, i - 1>>
  <2>1. n \in Nat
    OBVIOUS
  <2> QED
    BY <2>1, BytesFromStart
<1>2. SizeOf(q, n) \in Nat /\ SizeOf(q, n) > 0
  BY SizeOfFacts, StreamAssumption DEF StreamAssumption
<1> HIDE DEF b
<1>3. \A i \in 1 .. Len(b) : b[i][1] <= Len(q) /\ b[i][2] < SizeOf(q, b[i][1])
  BY <1>1, <1>2
<1>4. \A i \in 1 .. Len(b) - 1 : Follows(q, b[i], b[i + 1])
  BY <1>1 DEF Follows
<1>5. b # << >> => b[1] = <<n, 0>>
  BY <1>1
<1>6. Flow(q, b, n)
  BY <1>1, <1>3, <1>4, <1>5 DEF Flow
<1>7. k = SizeOf(q, n) /\ n = Len(q) => ToLast(q, b, n)
  BY <1>1, <1>2 DEF ToLast
<1> QED
  BY <1>6, <1>7 DEF b

-----------------------------------------------------------------------------
(* The sender's buffer.                                                    *)

Outs    == [buf : Seq(Byte), size : Nat, wire : Seq(Byte), ok : BOOLEAN]
Fits(o) == o \in Outs /\ Len(o.buf) <= o.size /\ o.size <= MaxSize
\* What has been put in the buffer and not come out of the socket.
Piped(o) == o.wire \o o.buf

\* FlushOut loses nothing and changes no order.
LEMMA FlushedFacts ==
  ASSUME NEW o, Fits(o), NEW r \in 0 .. Len(o.buf)
  PROVE  Fits(Flushed(o, r)) /\ Flushed(o, r).ok = o.ok /\ Piped(Flushed(o, r)) = Piped(o)
<1> DEFINE b == o.buf
           w == o.wire
           p == Flushed(o, r)
<1>1. /\ b \in Seq(Byte) /\ w \in Seq(Byte) /\ r \in 0 .. Len(b) /\ o.size \in Nat /\ o.ok \in BOOLEAN
      /\ Len(b) <= o.size /\ o.size <= MaxSize
  BY DEF Fits, Outs
<1> DEFINE x == DropFirst(b, r)
           y == w \o SubSeq(b, 1, r)
<1>2. p.buf = x /\ p.wire = y /\ p.ok = o.ok /\ p.size = o.size /\ (x \in Seq(Byte) /\ y \in Seq(Byte) => p \in Outs)
  <2>1. p = [o EXCEPT !.buf = x, !.wire = y]
    BY DEF Flushed
  <2> HIDE DEF x, y, p
  <2> QED
    BY <2>1 DEF Fits, Outs
<1> HIDE DEF b, w, p
<1>3. DropFirst(b, r) \in Seq(Byte) /\ Len(DropFirst(b, r)) = Len(b) - r /\ SubSeq(b, 1, r) \in Seq(Byte)
  BY <1>1, Taken
<1>4. w \o SubSeq(b, 1, r) \in Seq(Byte)
  BY <1>1, <1>3
<1>5. Fits(p)
  BY <1>1, <1>2, <1>3, <1>4 DEF Fits
<1>6. (w \o SubSeq(b, 1, r)) \o DropFirst(b, r) = w \o b
  BY <1>1, Moved
<1> QED
  BY <1>2, <1>5, <1>6 DEF Piped, b, w, p

\* Enough increments make room.
LEMMA Steps ==
  ASSUME NEW a \in Nat, NEW d \in Nat \ {0}
  PROVE  (a + d - 1) \div d \in Nat /\ ((a + d - 1) \div d) * d >= a
<1> DEFINE q == (a + d - 1) \div d
           r == (a + d - 1) % d
<1>1. q \in Nat /\ r \in 0 .. d - 1 /\ a + d - 1 = d * q + r
  OBVIOUS
<1>2. q * d = d * q /\ d * q \in Int
  BY <1>1
<1> HIDE DEF q, r
<1>3. q * d >= a
  BY <1>1, <1>2
<1> QED
  BY <1>1, <1>3 DEF q

\* _realloc_buffer makes room within MaxSize, or fails and changes nothing.
LEMMA RoomFacts ==
  ASSUME NEW o, Fits(o), o.ok, NEW n \in Nat
  PROVE  /\ Room(o, n) \in Outs /\ Room(o, n).buf = o.buf /\ Room(o, n).wire = o.wire
         /\ Room(o, n).ok => Len(o.buf) + n <= Room(o, n).size /\ Room(o, n).size <= MaxSize
         /\ ~Room(o, n).ok => Room(o, n).size = o.size
<1> DEFINE need == Len(o.buf) + n - o.size
           steps == IF Len(o.buf) + n <= o.size THEN 0 ELSE (need + Inc - 1) \div Inc
<1>1. /\ Len(o.buf) \in Nat /\ o.size \in Nat /\ Inc \in Nat \ {0} /\ MaxSize \in Int
      /\ o.buf \in Seq(Byte) /\ o.wire \in Seq(Byte) /\ o.size <= MaxSize /\ o.ok = TRUE
      /\ Len(o.buf) <= o.size
  BY StreamAssumption DEF StreamAssumption, Fits, Outs
<1>2. steps \in Nat /\ steps * Inc \in Nat /\ o.size + steps * Inc >= Len(o.buf) + n
  <2>1. CASE Len(o.buf) + n <= o.size
    BY <1>1, <2>1
  <2>2. CASE ~(Len(o.buf) + n <= o.size)
    <3>1. need \in Nat /\ steps = (need + Inc - 1) \div Inc
      BY <1>1, <2>2
    <3> HIDE DEF need, steps
    <3>2. steps \in Nat /\ steps * Inc >= need
      BY <1>1, <3>1, Steps
    <3>3. steps * Inc \in Nat
      BY <1>1, <3>2
    <3> QED
      BY <1>1, <3>2, <3>3 DEF need
  <2> QED
    BY <2>1, <2>2
<1>3. Room(o, n) = (IF o.size + steps * Inc > MaxSize THEN [o EXCEPT !.ok = FALSE]
                    ELSE [o EXCEPT !.size = @ + steps * Inc])
  BY DEF Room
<1> HIDE DEF steps
<1>4. CASE o.size + steps * Inc > MaxSize
  BY <1>1, <1>3, <1>4 DEF Outs, Fits
<1>5. CASE ~(o.size + steps * Inc > MaxSize)
  <2> DEFINE z == o.size + steps * Inc
  <2>1. Room(o, n) = [o EXCEPT !.size = z]
    BY <1>3, <1>5
  <2>2. z \in Nat /\ z <= MaxSize /\ z >= Len(o.buf) + n
    BY <1>1, <1>2, <1>5
  <2> HIDE DEF z
  <2> QED
    BY <1>1, <2>1, <2>2 DEF Outs, Fits
<1> QED
  BY <1>4, <1>5

\* All of what is put is in the buffer or the socket, after what was there; or none.
Puts(o, p, bytes) == /\ Fits(p)
                     /\ p.ok => Piped(p) = Piped(o) \o bytes
                     /\ ~p.ok => Piped(p) = Piped(o)

\* Put puts the bytes behind what there is, or fails and loses nothing.
LEMMA PutFacts ==
  ASSUME NEW o, Fits(o), o.ok, NEW bytes \in Seq(Byte), NEW p \in Put(o, bytes)
  PROVE  Puts(o, p, bytes)
<1>1. PICK f : Fits(f) /\ f.ok /\ Piped(f) = Piped(o)
               /\ p = (IF Room(f, Len(bytes)).ok
                       THEN [Room(f, Len(bytes)) EXCEPT !.buf = @ \o bytes] ELSE Room(f, Len(bytes)))
  <2> DEFINE flush == IF Len(o.buf) + Len(bytes) > o.size
                      THEN {Flushed(o, r) : r \in 0 .. Len(o.buf)} ELSE {o}
  <2>1. PICK q \in {Room(f, Len(bytes)) : f \in flush} :
           p = IF q.ok THEN [q EXCEPT !.buf = @ \o bytes] ELSE q
    BY DEF Put
  <2>2. PICK f \in flush : q = Room(f, Len(bytes))
    BY <2>1
  <2>3. Fits(f) /\ f.ok = o.ok /\ Piped(f) = Piped(o)
    <3>1. CASE f = o
      BY <3>1
    <3>2. CASE \E r \in 0 .. Len(o.buf) : f = Flushed(o, r)
      BY <3>2, FlushedFacts
    <3> QED
      BY <3>1, <3>2
  <2> HIDE DEF flush
  <2> QED
    BY <2>1, <2>2, <2>3
<1> DEFINE g == Room(f, Len(bytes))
<1>2. Len(bytes) \in Nat
  OBVIOUS
<1>3. /\ g \in Outs /\ g.buf = f.buf /\ g.wire = f.wire
      /\ g.ok => Len(f.buf) + Len(bytes) <= g.size /\ g.size <= MaxSize
      /\ ~g.ok => g.size = f.size
  BY <1>1, <1>2, RoomFacts
<1>4. p = IF g.ok THEN [g EXCEPT !.buf = @ \o bytes] ELSE g
  BY <1>1
<1>5. f.buf \in Seq(Byte) /\ f.wire \in Seq(Byte) /\ Len(f.buf) <= f.size /\ f.size <= MaxSize
  BY <1>1 DEF Fits, Outs
<1> HIDE DEF g
<1>6. CASE ~g.ok
  <2>1. Fits(p) /\ ~p.ok /\ p.buf = f.buf /\ p.wire = f.wire
    BY <1>3, <1>4, <1>5, <1>6 DEF Fits
  <2> QED
    BY <1>1, <2>1 DEF Puts, Piped
<1>7. CASE g.ok
  <2> DEFINE b == f.buf \o bytes
  <2>1. b \in Seq(Byte) /\ Len(b) = Len(f.buf) + Len(bytes)
    BY <1>5, Cat
  <2>2. p = [g EXCEPT !.buf = b]
    BY <1>3, <1>4, <1>7
  <2> HIDE DEF b
  <2>3. Fits(p) /\ p.ok /\ p.buf = b /\ p.wire = f.wire
    BY <1>3, <1>7, <2>1, <2>2 DEF Fits, Outs
  <2>4. (f.wire \o f.buf) \o bytes = f.wire \o b
    <3> DEFINE x == f.wire
               y == f.buf
    <3>1. x \in Seq(Byte) /\ y \in Seq(Byte)
      BY <1>5
    <3>2. (x \o y) \o bytes = x \o (y \o bytes)
      <4> HIDE DEF x, y
      <4> QED
        BY <3>1, Associates
    <3> QED
      BY <3>2 DEF b
  <2> QED
    BY <1>1, <2>3, <2>4 DEF Puts, Piped
<1> QED
  BY <1>6, <1>7

\* And so does PutFlush.
LEMMA PutFlushFacts ==
  ASSUME NEW o, Fits(o), o.ok, NEW bytes \in Seq(Byte), NEW p \in PutFlush(o, bytes)
  PROVE  Puts(o, p, bytes)
<1>1. PICK q \in Put(o, bytes) : p \in (IF q.ok THEN {Flushed(q, r) : r \in 0 .. Len(q.buf)} ELSE {q})
  BY DEF PutFlush
<1>2. Puts(o, q, bytes)
  BY PutFacts
<1>3. CASE ~q.ok
  BY <1>1, <1>2, <1>3
<1>4. CASE q.ok
  <2>1. PICK r \in 0 .. Len(q.buf) : p = Flushed(q, r)
    BY <1>1, <1>4
  <2>2. Fits(p) /\ p.ok = q.ok /\ Piped(p) = Piped(q)
    BY <1>2, <2>1, FlushedFacts DEF Puts
  <2> QED
    BY <1>2, <1>4, <2>2 DEF Puts
<1> QED
  BY <1>3, <1>4

\* The data of a PIECE message follow its head.
LEMMA BytesJoin ==
  ASSUME NEW n \in Nat, NEW k \in Nat, NEW l \in Nat, k <= l
  PROVE  Bytes(n, 0, k) \o Bytes(n, k, l) = Bytes(n, 0, l)
<1> DEFINE a == Bytes(n, 0, k)
           b == Bytes(n, k, l)
           c == Bytes(n, 0, l)
<1>1. /\ a \in Seq(Byte) /\ Len(a) = k /\ \A i \in 1 .. k : a[i] = <<n, i - 1>>
  BY BytesFromStart
<1>2. /\ b \in Seq(Byte) /\ Len(b) = l - k /\ \A i \in 1 .. l - k : b[i] = <<n, k + i - 1>>
  BY BytesFacts
<1>3. /\ c \in Seq(Byte) /\ Len(c) = l /\ \A i \in 1 .. l : c[i] = <<n, i - 1>>
  BY BytesFromStart
<1> HIDE DEF a, b, c
<1> DEFINE u == a \o b
<1>4. /\ u \in Seq(Byte) /\ Len(u) = Len(a) + Len(b)
      /\ \A i \in 1 .. Len(a) : u[i] = a[i]
      /\ \A i \in Len(a) + 1 .. Len(a) + Len(b) : u[i] = b[i - Len(a)]
  <2>1. a \in Seq(Byte) /\ b \in Seq(Byte)
    BY <1>1, <1>2
  <2> QED
    BY <2>1, Cat
<1> HIDE DEF u
<1>5. Len(u) = l
  BY <1>1, <1>2, <1>4
<1>6. ASSUME NEW i \in 1 .. l PROVE u[i] = c[i]
  <2>1. CASE i <= k
    <3>1. i \in 1 .. k /\ i \in 1 .. Len(a)
      BY <1>1, <2>1
    <3> QED
      BY <1>1, <1>3, <1>4, <3>1
  <2>2. CASE i > k
    <3>1. i \in Len(a) + 1 .. Len(a) + Len(b) /\ i - Len(a) = i - k /\ i - k \in 1 .. l - k
          /\ k + (i - k) - 1 = i - 1
      BY <1>1, <1>2, <2>2
    <3> QED
      BY <1>2, <1>3, <1>4, <3>1
  <2> QED
    BY <2>1, <2>2
<1>7. u = c
  BY <1>3, <1>4, <1>5, <1>6, SameSeq
<1> QED
  BY <1>7 DEF u, a, b, c

\* What Send leaves in the buffer and the socket: the message after what was
\* there; or when the buffer is full, the part of it that was put first.
LEMMA OutcomesFacts ==
  ASSUME NEW kind \in Kinds, NEW n \in Nat, Fits(Out), NEW p \in Outcomes(kind, n)
  PROVE  /\ Fits(p)
         /\ p.ok => Piped(p) = (wire \o out) \o Bytes(n, 0, Pre + LenOf(kind))
         /\ ~p.ok => \E k \in 0 .. Pre + LenOf(kind) : Piped(p) = (wire \o out) \o Bytes(n, 0, k)
<1> DEFINE l == Pre + LenOf(kind)
           h == Pre + PieceHead
<1>1. /\ Out.ok /\ Piped(Out) = wire \o out /\ wire \in Seq(Byte) /\ out \in Seq(Byte)
  BY DEF Out, Piped, Fits, Outs
<1>2. Pre \in Nat /\ PieceHead \in Nat /\ Slice \in Nat /\ LenOf(kind) \in Nat /\ l \in Nat /\ h \in Nat
  BY LenOfFacts, StreamAssumption DEF StreamAssumption
<1>3. \A k \in Nat : Bytes(n, 0, k) \in Seq(Byte)
  BY BytesFromStart
<1>4. Piped(Out) \in Seq(Byte) /\ Piped(Out) \o Bytes(n, 0, 0) = Piped(Out)
  <2>1. Bytes(n, 0, 0) = << >>
    <3>1. Len(Bytes(n, 0, 0)) = 0 /\ Bytes(n, 0, 0) \in Seq(Byte)
      BY BytesFromStart
    <3> QED
      BY <3>1
  <2>2. Piped(Out) \in Seq(Byte)
    BY <1>1
  <2> QED
    BY <2>1, <2>2
<1>5. CASE kind # "piece"
  <2>1. p \in Put(Out, Bytes(n, 0, l))
    BY <1>5 DEF Outcomes
  <2>2. Puts(Out, p, Bytes(n, 0, l))
    BY <1>1, <1>2, <1>3, <2>1, PutFacts
  <2>3. 0 \in 0 .. l
    BY <1>2
  <2> QED
    BY <1>1, <1>4, <2>2, <2>3 DEF Puts
<1>6. CASE kind = "piece"
  <2>1. PICK q \in Put(Out, Bytes(n, 0, h)) : p \in (IF q.ok THEN PutFlush(q, Bytes(n, h, l)) ELSE {q})
    BY <1>6 DEF Outcomes
  <2>2. Puts(Out, q, Bytes(n, 0, h))
    BY <1>1, <1>2, <1>3, <2>1, PutFacts
  <2>3. h <= l /\ h \in 0 .. l /\ 0 \in 0 .. l
    BY <1>2, <1>6, LenOfFacts
  <2>4. CASE ~q.ok
    BY <1>1, <1>4, <2>1, <2>2, <2>3, <2>4 DEF Puts
  <2>5. CASE q.ok
    <3>1. Bytes(n, h, l) \in Seq(Byte)
      BY <1>2, <2>3, BytesFacts
    <3>2. Puts(q, p, Bytes(n, h, l))
      BY <2>1, <2>2, <2>5, <3>1, PutFlushFacts DEF Puts
    <3>3. Piped(q) = Piped(Out) \o Bytes(n, 0, h)
      BY <2>2, <2>5 DEF Puts
    <3>4. (Piped(Out) \o Bytes(n, 0, h)) \o Bytes(n, h, l) = Piped(Out) \o Bytes(n, 0, l)
      <4>1. Bytes(n, 0, h) \o Bytes(n, h, l) = Bytes(n, 0, l)
        BY <1>2, <2>3, BytesJoin
      <4> DEFINE a == Piped(Out)
                 b == Bytes(n, 0, h)
                 c == Bytes(n, h, l)
      <4>3. a \in Seq(Byte) /\ b \in Seq(Byte) /\ c \in Seq(Byte)
        BY <1>2, <1>3, <1>4, <3>1
      <4>2. (a \o b) \o c = a \o (b \o c)
        <5> HIDE DEF a, b, c
        <5> QED
          BY <4>3, Associates, SMTT(60)
      <4> QED
        BY <4>1, <4>2
    <3> QED
      BY <1>1, <2>3, <3>2, <3>3, <3>4 DEF Puts
  <2> QED
    BY <2>4, <2>5
<1> QED
  BY <1>5, <1>6

-----------------------------------------------------------------------------
(* The inductive invariant, in parts.                                      *)

Buffers ==
  /\ sent \in Seq(Kinds) /\ got \in Seq(Kinds) /\ open \in BOOLEAN
  /\ Fits(Out) /\ (~open => out = << >>)
  /\ in \in Seq(Byte) /\ insize \in Nat /\ Len(in) <= insize /\ insize <= MaxSize
  /\ msglen = MsgLenOf(in)

Phases ==
  /\ status \in {"handshake", "success", "closed"} /\ at \in {"select", "recv", "loop"}
  /\ status = "handshake" => at = "select" /\ got = << >> /\ Len(in) < Shake
  /\ status = "closed" => at = "select" /\ in = << >>

\* From the first byte that is not delivered, what is in in_buffer, on the wire
\* and in out_buffer is what was sent, in order; to the last byte, while the
\* sender is open.
Pipe    == (in \o wire) \o out
Waiting == IF status = "handshake" THEN 0 ELSE Len(got) + 1
InFlow  == status # "closed" => Flow(sent, Pipe, Waiting) /\ (open => ToLast(sent, Pipe, Waiting))

\* No whole message waits for select, and the rate was told of what there is of
\* the piece at the head, unless that came before it was looked at.
Told ==
  /\ oldbytes \in 0 .. Slice
  /\ oldbytes # 0 => PeekMessage("piece") /\ oldbytes <= Len(in) - Pre - PieceHead
  /\ status # "success" => oldbytes = 0 /\ counted = 0
  /\ at = "select" => counted = oldbytes /\ (status = "success" => HaveMessage(in, msglen) = 0)
  /\ at = "recv" => oldbytes = 0 /\ counted = 0
  /\ at = "loop" => /\ HaveMessage(in, msglen) = 1 => oldbytes = 0 /\ counted \in {0, Slice}
                    /\ HaveMessage(in, msglen) # 1 => counted = oldbytes

SInv == Buffers /\ Phases /\ InFlow /\ Told

\* What the assumptions say of the constants.
LEMMA Sizes ==
  /\ Pre \in Nat /\ Pre > 1 /\ Shake \in Nat /\ Shake > Pre /\ PieceHead \in Nat /\ PieceHead > 0
  /\ Slice \in Nat /\ Slice > 0 /\ MaxLen \in Nat /\ MaxLen >= PieceHead + Slice /\ Garbage = MaxLen + 1
  /\ MaxSize \in Nat /\ DefSize \in Nat /\ DefSize > 0 /\ Inc \in Nat /\ DefSize <= MaxSize /\ Shake <= DefSize
BY StreamAssumption DEF StreamAssumption, Garbage

\* What the receiver makes of a buffer that begins with message n.
LEMMA HeadFacts ==
  ASSUME sent \in Seq(Kinds), NEW n \in Nat \ {0}, NEW s, Flow(sent, s, n)
  PROVE  /\ s \in Seq(Byte)
         /\ Len(s) < Pre => MsgLenOf(s) = 0 /\ HaveMessage(s, MsgLenOf(s)) = 0
         /\ s # << >> => n \in 1 .. Len(sent) /\ sent[n] \in Kinds /\ s[1] = <<n, 0>>
         /\ Len(s) >= Pre => /\ MsgLenOf(s) = LenOf(sent[n])
                             /\ SizeOf(sent, n) = Pre + MsgLenOf(s)
                             /\ HaveMessage(s, MsgLenOf(s)) = (IF Len(s) >= SizeOf(sent, n) THEN 1 ELSE 0)
         /\ MsgLenOf(s) \in 0 .. MaxLen
         /\ Len(s) > Pre /\ MsgLenOf(s) > 0 => s[Pre + 1] = <<n, Pre>> /\ TypeAt(s[Pre + 1]) = sent[n]
<1>1. s \in Seq(Byte) /\ Len(s) \in Nat
  BY DEF Flow
<1>2. CASE s = << >>
  BY <1>1, <1>2, Sizes DEF MsgLenOf, HaveMessage
<1>3. CASE s # << >>
  <2>1. s[1] = <<n, 0>> /\ n <= Len(sent)
    <3>1. s[1] = <<n, 0>> /\ 1 \in 1 .. Len(s)
      BY <1>1, <1>3 DEF Flow
    <3>2. s[1][1] <= Len(sent)
      BY <3>1 DEF Flow
    <3> QED
      BY <3>1, <3>2
  <2>2. n \in 1 .. Len(sent) /\ sent[n] \in Kinds /\ SizeOf(sent, n) = Pre + LenOf(sent[n])
    BY <2>1, SizeOfFacts
  <2>3. LenOf(sent[n]) \in 0 .. MaxLen
    BY <2>2, LenOfFacts
  <2>4. MsgLen(s) = LenOf(sent[n])
    BY <2>1 DEF MsgLen
  <2>5. Len(s) < Pre => MsgLenOf(s) = 0 /\ HaveMessage(s, MsgLenOf(s)) = 0
    BY <1>1, Sizes DEF MsgLenOf, HaveMessage
  <2>6. Len(s) >= Pre => /\ MsgLenOf(s) = LenOf(sent[n])
                         /\ SizeOf(sent, n) = Pre + MsgLenOf(s)
                         /\ HaveMessage(s, MsgLenOf(s)) = (IF Len(s) >= SizeOf(sent, n) THEN 1 ELSE 0)
    BY <1>1, <2>2, <2>3, <2>4, Sizes DEF MsgLenOf, HaveMessage
  <2>7. ASSUME Len(s) > Pre, MsgLenOf(s) > 0
        PROVE  s[Pre + 1] = <<n, Pre>> /\ TypeAt(s[Pre + 1]) = sent[n]
    <3>1. Pre + 1 \in 1 .. Len(s) /\ Pre + 1 <= SizeOf(sent, n) /\ (Pre + 1) - 1 = Pre
      BY <1>1, <2>2, <2>3, <2>6, <2>7, Sizes
    <3>2. s[Pre + 1] = <<n, Pre>>
      <4>1. s[Pre + 1] = <<n, (Pre + 1) - 1>>
        BY <3>1, FlowFirst
      <4> QED
        BY <3>1, <4>1
    <3> QED
      BY <3>2, Sizes DEF TypeAt
  <2> QED
    BY <1>1, <1>3, <2>1, <2>2, <2>3, <2>5, <2>6, <2>7, Sizes
<1> QED
  BY <1>2, <1>3

\* And of one that begins with the handshake.
LEMMA ShakeFacts ==
  ASSUME sent \in Seq(Kinds), NEW s, Flow(sent, s, 0)
  PROVE  /\ s \in Seq(Byte) /\ MsgLenOf(s) \in {0, Garbage}
         /\ Len(s) > Pre => TypeAt(s[Pre + 1]) # "piece"
<1>1. s \in Seq(Byte) /\ Len(s) \in Nat
  BY DEF Flow
<1>2. s # << >> => s[1] = <<0, 0>>
  BY DEF Flow
<1>3. ASSUME Len(s) > Pre PROVE s[Pre + 1] = <<0, Pre>>
  <2>1. Pre + 1 \in 1 .. Len(s) /\ Pre + 1 <= SizeOf(sent, 0) /\ (Pre + 1) - 1 = Pre
    BY <1>1, <1>3, Sizes, SizeOfFacts
  <2>2. s[Pre + 1] = <<0, (Pre + 1) - 1>>
    BY <2>1, FlowFirst
  <2> QED
    BY <2>1, <2>2
<1>4. MsgLenOf(s) \in {0, Garbage}
  BY <1>1, <1>2, Sizes DEF MsgLenOf, MsgLen
<1> QED
  BY <1>1, <1>3, <1>4 DEF TypeAt

\* The first of two sequences put together begins the whole.
LEMMA PrefixOfCat ==
  ASSUME NEW X, NEW s \in Seq(X), NEW t \in Seq(X)
  PROVE  Len(s) \in 0 .. Len(s \o t) /\ SubSeq(s \o t, 1, Len(s)) = s
<1>1. Len(s \o t) = Len(s) + Len(t) /\ Len(s) \in Nat /\ Len(t) \in Nat
  OBVIOUS
<1> QED
  BY <1>1

\* The part of the flow in the buffers of the receiver and the sockets.
LEMMA InFlowPart ==
  ASSUME Buffers, InFlow, status # "closed"
  PROVE  /\ Flow(sent, in \o wire, Waiting) /\ Flow(sent, in, Waiting)
         /\ in \o wire \in Seq(Byte) /\ wire \in Seq(Byte) /\ out \in Seq(Byte) /\ Waiting \in Nat
<1>1. wire \in Seq(Byte) /\ out \in Seq(Byte) /\ in \in Seq(Byte) /\ in \o wire \in Seq(Byte) /\ Waiting \in Nat
  BY DEF Buffers, Fits, Outs, Out, Waiting
<1>2. sent \in Seq(Kinds) /\ Flow(sent, Pipe, Waiting)
  BY DEF Buffers, InFlow
<1>3. Flow(sent, in \o wire, Waiting)
  <2> DEFINE a == in \o wire
  <2>1. a \in Seq(Byte) /\ Pipe = a \o out
    BY <1>1 DEF Pipe
  <2> HIDE DEF a
  <2>2. Len(a) \in 0 .. Len(Pipe) /\ SubSeq(Pipe, 1, Len(a)) = a
    BY <1>1, <2>1, PrefixOfCat
  <2>3. Flow(sent, a, Waiting)
    BY <1>1, <1>2, <2>2, FlowTaken
  <2> QED
    BY <2>3 DEF a
<1>4. Flow(sent, in, Waiting)
  <2> DEFINE a == in \o wire
  <2>1. Len(in) \in 0 .. Len(a) /\ SubSeq(a, 1, Len(in)) = in
    BY <1>1, PrefixOfCat
  <2>2. Flow(sent, a, Waiting)
    BY <1>3
  <2> HIDE DEF a
  <2> QED
    BY <1>1, <1>2, <2>1, <2>2, FlowTaken
<1> QED
  BY <1>1, <1>3, <1>4

-----------------------------------------------------------------------------
(* The invariant implies the properties.                                   *)

\* The invariant gives the types.
LEMMA InvTypeOK ==
  ASSUME SInv
  PROVE  TypeOK
<1>1. msglen \in 0 .. Garbage
  <2>1. CASE status = "handshake"
    <3>1. Flow(sent, in, 0)
      BY <2>1, InFlowPart DEF SInv, Waiting
    <3>2. MsgLenOf(in) \in {0, Garbage}
      BY <3>1, ShakeFacts DEF SInv, Buffers
    <3> QED
      BY <3>2, Sizes DEF SInv, Buffers
  <2>2. CASE status = "closed"
    BY <2>2, Sizes DEF SInv, Buffers, Phases, MsgLenOf
  <2>3. CASE status = "success"
    <3>1. Flow(sent, in, Len(got) + 1) /\ Len(got) + 1 \in Nat \ {0}
      BY <2>3, InFlowPart DEF SInv, Waiting, Buffers
    <3>2. MsgLenOf(in) \in 0 .. MaxLen
      BY <3>1, HeadFacts DEF SInv, Buffers
    <3> QED
      BY <3>2, Sizes DEF SInv, Buffers
  <2> QED
    BY <2>1, <2>2, <2>3 DEF SInv, Phases
<1>2. Len(out) <= outsize /\ outsize <= MaxSize
  BY DEF SInv, Buffers, Fits, Out
<1> QED
  BY <1>1, <1>2 DEF SInv, Buffers, Phases, Told, TypeOK

\* It gives Framing: the prefix at the head is of the next message, and CHOKE after it is seen.
LEMMA InvFraming ==
  ASSUME SInv
  PROVE  Framing
<1> DEFINE n == Len(got) + 1
<1>1. n \in Nat \ {0} /\ Len(got) + 2 = n + 1 /\ sent \in Seq(Kinds) /\ msglen = MsgLenOf(in)
  BY DEF SInv, Buffers
<1>2. ASSUME status = "success" PROVE Flow(sent, in, n)
  BY <1>2, InFlowPart DEF SInv, Waiting
<1> HIDE DEF n
<1>3. status = "success" => /\ in # << >> => in[1][2] = 0 /\ in[1][1] = Len(got) + 1
                            /\ at = "select" => HaveMessage(in, msglen) = 0
  BY <1>1, <1>2, HeadFacts DEF SInv, Told, n
<1>4. ASSUME at = "loop", HaveMessage(in, msglen) = 1
      PROVE  PeekNextMessage("choke") <=>
               \E i \in DOMAIN in : in[i] = <<Len(got) + 2, Pre>> /\ sent[Len(got) + 2] = "choke"
  <2> DEFINE z == SizeOf(sent, n)
             t == DropFirst(in, z)
  <2>1. status = "success" /\ in \in Seq(Byte) /\ Len(in) \in Nat
    BY <1>4 DEF SInv, Phases, Buffers
  <2>2. /\ Len(in) >= Pre /\ z = Pre + msglen /\ Len(in) >= z /\ n \in 1 .. Len(sent) /\ n \in 0 .. Len(sent)
        /\ msglen \in Nat
    <3>1. Flow(sent, in, n)
      BY <1>2, <2>1
    <3>2. Len(in) >= Pre
      BY <1>4, <2>1, Sizes DEF HaveMessage
    <3>3. in # << >>
      BY <3>2, Sizes
    <3>4. /\ n \in 1 .. Len(sent) /\ z = Pre + MsgLenOf(in) /\ MsgLenOf(in) \in 0 .. MaxLen
          /\ HaveMessage(in, MsgLenOf(in)) = (IF Len(in) >= z THEN 1 ELSE 0)
      BY <1>1, <3>1, <3>2, <3>3, HeadFacts
    <3>5. Len(in) >= z
      BY <1>1, <1>4, <3>4
    <3>6. n \in 0 .. Len(sent) /\ msglen \in Nat
      BY <1>1, <3>4, Sizes
    <3> QED
      BY <1>1, <3>2, <3>4, <3>5, <3>6
  <2>3. z \in 0 .. Len(in) /\ Flow(sent, t, n + 1)
    BY <1>1, <1>2, <2>1, <2>2, FlowDropped
  <2>4. Len(t) = Len(in) - z /\ \A i \in 1 .. Len(in) - z : t[i] = in[z + i]
    BY <2>1, <2>3, Taken
  <2>5. Len(t) = Len(in) - Pre - msglen /\ DropFirst(in, Pre + msglen) = t
    BY <2>1, <2>2, <2>4, Sizes
  <2>6. z \in Nat
    BY <2>3
  <2>7. z = SizeOf(sent, n)
    OBVIOUS
  <2> HIDE DEF t, z
  <2>8. Len(t) > Pre => in[2 * Pre + msglen + 1] = t[Pre + 1]
    <3>1. 2 * Pre + msglen + 1 = z + (Pre + 1)
      BY <2>2, Sizes
    <3>2. Len(t) > Pre => Pre + 1 \in 1 .. Len(in) - z
      BY <2>1, <2>4, <2>6, Sizes
    <3> QED
      BY <2>4, <3>1, <3>2
  <2>9. n + 1 \in Nat \ {0} /\ t \in Seq(Byte) /\ Len(t) \in Nat
    BY <1>1, <2>3 DEF Flow
  <2>10. Len(t) > Pre => /\ n + 1 \in 1 .. Len(sent) /\ sent[n + 1] \in Kinds
                         /\ MsgLen(t) = LenOf(sent[n + 1]) /\ MsgLenOf(t) = MsgLen(t)
                         /\ MsgLenOf(t) > 0 => t[Pre + 1] = <<n + 1, Pre>> /\ TypeAt(t[Pre + 1]) = sent[n + 1]
    <3> SUFFICES ASSUME Len(t) > Pre
                 PROVE  /\ n + 1 \in 1 .. Len(sent) /\ sent[n + 1] \in Kinds
                        /\ MsgLen(t) = LenOf(sent[n + 1]) /\ MsgLenOf(t) = MsgLen(t)
                        /\ MsgLenOf(t) > 0 => t[Pre + 1] = <<n + 1, Pre>> /\ TypeAt(t[Pre + 1]) = sent[n + 1]
      OBVIOUS
    <3>1. t # << >> /\ Len(t) >= Pre
      BY <2>9, Sizes
    <3>2. MsgLenOf(t) = MsgLen(t)
      BY <3>1 DEF MsgLenOf
    <3> QED
      BY <1>1, <2>3, <2>9, <3>1, <3>2, HeadFacts
  <2>11. PeekNextMessage("choke") <=>
           Len(t) > Pre /\ TypeAt(t[Pre + 1]) = "choke" /\ MsgLen(t) # 0
    BY <2>5, <2>8, <2>9 DEF PeekNextMessage
  <2>12. LenOf("choke") = 1 /\ \A k \in Kinds : LenOf(k) \in Nat
    BY LenOfFacts, Sizes DEF LenOf
  <2>13. PeekNextMessage("choke") <=> Len(t) > Pre /\ sent[n + 1] = "choke"
    BY <2>10, <2>11, <2>12
  <2>14. ASSUME Len(t) > Pre, sent[n + 1] = "choke"
         PROVE  \E i \in DOMAIN in : in[i] = <<n + 1, Pre>>
    <3>1. t[Pre + 1] = <<n + 1, Pre>>
      BY <2>10, <2>12, <2>14
    <3>2. z + (Pre + 1) \in 1 .. Len(in) /\ Pre + 1 \in 1 .. Len(in) - z
      BY <2>1, <2>4, <2>6, <2>14, Sizes
    <3>3. in[z + (Pre + 1)] = <<n + 1, Pre>>
      BY <2>4, <3>1, <3>2
    <3>4. DOMAIN in = 1 .. Len(in)
      BY <2>1
    <3> QED
      BY <3>2, <3>3, <3>4
  <2>15. ASSUME NEW i \in DOMAIN in, in[i] = <<n + 1, Pre>>
         PROVE  Len(t) > Pre
    <3>1. i \in 1 .. Len(in)
      BY <2>1
    <3>2. i > z
      <4> SUFFICES ASSUME i <= z PROVE FALSE
        BY <2>6, <3>1
      <4>1. in[i] = <<n, i - 1>>
        BY <1>1, <1>2, <2>1, <2>7, <3>1, FlowFirst
      <4> QED
        BY <1>1, <2>15, <4>1
    <3> DEFINE k == i - z
    <3>3. k \in 1 .. Len(t) /\ t[k] = <<n + 1, Pre>>
      BY <2>1, <2>4, <2>6, <2>15, <3>1, <3>2, SMTT(60)
    <3> HIDE DEF k
    <3> SUFFICES ASSUME ~(Len(t) > Pre) PROVE FALSE
      OBVIOUS
    <3>4. n + 1 \in 0 .. Len(sent)
      <4>1. t # << >> /\ t[1] = <<n + 1, 0>> /\ 1 \in 1 .. Len(t)
        BY <2>3, <2>9, <3>3 DEF Flow
      <4>2. t[1][1] <= Len(sent)
        BY <2>3, <4>1 DEF Flow
      <4> QED
        BY <1>1, <2>9, <4>1, <4>2
    <3>5. k <= SizeOf(sent, n + 1)
      BY <1>1, <2>9, <3>3, <3>4, SizeOfFacts, Sizes
    <3>6. t[k] = <<n + 1, k - 1>>
      BY <1>1, <2>3, <2>9, <3>3, <3>5, FlowFirst
    <3> QED
      BY <2>9, <3>3, <3>6, Sizes
  <2> QED
    BY <1>1, <2>13, <2>14, <2>15
<1> QED
  BY <1>1, <1>3, <1>4, InvTypeOK DEF Framing

\* And RateExact.
LEMMA InvRateExact ==
  ASSUME SInv
  PROVE  RateExact
<1>1. at \in {"select", "recv", "loop"}
  BY DEF SInv, Phases
<1> QED
  BY <1>1 DEF SInv, Told, RateExact

-----------------------------------------------------------------------------
(* The steps of the sender.                                                *)

\* What is dropped from the first of two sequences put together.
LEMMA DropOfCat ==
  ASSUME NEW X, NEW s \in Seq(X), NEW t \in Seq(X), NEW r \in 0 .. Len(s)
  PROVE  DropFirst(s \o t, r) = DropFirst(s, r) \o t
<1> DEFINE u == s \o t
           a == DropFirst(u, r)
           d == DropFirst(s, r)
           b == d \o t
<1>1. /\ u \in Seq(X) /\ Len(u) = Len(s) + Len(t) /\ Len(s) \in Nat /\ Len(t) \in Nat
      /\ \A i \in 1 .. Len(s) : u[i] = s[i]
      /\ \A i \in Len(s) + 1 .. Len(s) + Len(t) : u[i] = t[i - Len(s)]
  BY Cat
<1> HIDE DEF u
<1>2. r \in 0 .. Len(u) /\ r \in Nat
  BY <1>1
<1>3. a \in Seq(X) /\ Len(a) = Len(u) - r /\ \A i \in 1 .. Len(u) - r : a[i] = u[r + i]
  BY <1>1, <1>2, Taken
<1>4. d \in Seq(X) /\ Len(d) = Len(s) - r /\ \A i \in 1 .. Len(s) - r : d[i] = s[r + i]
  BY Taken
<1> HIDE DEF a, d
<1>5. /\ b \in Seq(X) /\ Len(b) = Len(d) + Len(t)
      /\ \A i \in 1 .. Len(d) : b[i] = d[i]
      /\ \A i \in Len(d) + 1 .. Len(d) + Len(t) : b[i] = t[i - Len(d)]
  BY <1>4, Cat
<1> HIDE DEF b
<1>6. Len(a) = Len(b)
  BY <1>1, <1>2, <1>3, <1>4, <1>5
<1>7. ASSUME NEW i \in 1 .. Len(a) PROVE a[i] = b[i]
  <2>1. i \in Nat /\ i >= 1 /\ i <= Len(s) - r + Len(t) /\ i \in 1 .. Len(u) - r
    BY <1>1, <1>2, <1>3, <1>7
  <2>2. a[i] = u[r + i]
    BY <1>3, <2>1
  <2>3. CASE i <= Len(s) - r
    <3>1. i \in 1 .. Len(d) /\ i \in 1 .. Len(s) - r /\ r + i \in 1 .. Len(s)
      BY <1>1, <1>2, <1>4, <2>1, <2>3
    <3> QED
      BY <1>1, <1>4, <1>5, <2>2, <3>1
  <2>4. CASE i > Len(s) - r
    <3>1. i \in Len(d) + 1 .. Len(d) + Len(t) /\ r + i \in Len(s) + 1 .. Len(s) + Len(t)
      BY <1>1, <1>2, <1>4, <2>1, <2>4
    <3>2. (r + i) - Len(s) = i - Len(d)
      BY <1>1, <1>2, <1>4, <2>1
    <3>3. u[r + i] = t[(r + i) - Len(s)]
      BY <1>1, <3>1
    <3>4. b[i] = t[i - Len(d)]
      BY <1>5, <3>1
    <3> QED
      BY <2>2, <3>2, <3>3, <3>4
  <2> QED
    BY <1>1, <1>2, <2>1, <2>3, <2>4
<1>8. a = b
  BY <1>3, <1>5, <1>6, <1>7, SameSeq
<1> QED
  BY <1>8 DEF a, b, d, u

\* A step that leaves the receiver alone, and what was sent.
LEMMA SenderStep ==
  ASSUME SInv, UNCHANGED receiver, sent' \in Seq(Kinds), Len(sent') >= Len(sent),
         \A i \in 1 .. Len(sent) : sent'[i] = sent[i],
         open' \in BOOLEAN, ~open' => out' = << >>,
         out' \in Seq(Byte), wire' \in Seq(Byte), outsize' \in Nat, Len(out') <= outsize', outsize' <= MaxSize,
         InFlow'
  PROVE  SInv'
<1>1. /\ status' = status /\ in' = in /\ insize' = insize /\ msglen' = msglen /\ oldbytes' = oldbytes
      /\ counted' = counted /\ at' = at /\ got' = got
  BY DEF receiver, buffer
<1>2. in \in Seq(Byte) /\ \A i \in 1 .. Len(in) : in[i][1] \in 0 .. Len(sent)
  <2>1. in \in Seq(Byte)
    BY DEF SInv, Buffers
  <2>2. CASE status = "closed"
    BY <2>1, <2>2 DEF SInv, Phases
  <2>3. CASE status # "closed"
    <3>1. Flow(sent, in, Waiting)
      BY <2>3, InFlowPart DEF SInv
    <3>2. ASSUME NEW i \in 1 .. Len(in) PROVE in[i][1] \in 0 .. Len(sent)
      <4>1. in[i] \in Byte /\ in[i][1] <= Len(sent)
        BY <2>1, <3>1 DEF Flow
      <4> QED
        BY <4>1, SMTT(60) DEF Byte, SInv, Buffers
    <3> QED
      BY <2>1, <3>2
  <2> QED
    BY <2>2, <2>3
<1>3. ASSUME NEW i \in 1 .. Len(in) PROVE TypeAt(in[i])' = TypeAt(in[i])
  BY <1>1, <1>2, <1>3 DEF TypeAt, SInv, Buffers
<1>4. MsgLenOf(in)' = MsgLenOf(in)
  <2>1. CASE Len(in) >= Pre
    <3>1. 1 \in 1 .. Len(in)
      BY <1>2, <2>1, Sizes
    <3>2. in[1][1] \in 0 .. Len(sent)
      BY <1>2, <3>1
    <3>3. MsgLen(in)' = MsgLen(in)
      <4>1. CASE in[1][2] = 0 /\ in[1][1] > 0
        <5>1. in[1][1] \in 1 .. Len(sent)
          BY <3>2, <4>1 DEF SInv, Buffers
        <5>2. sent'[in[1][1]] = sent[in[1][1]]
          BY <5>1
        <5>3. MsgLen(in)' = LenOf(sent'[in[1][1]])
          BY <1>1, <4>1 DEF MsgLen
        <5> QED
          BY <4>1, <5>2, <5>3 DEF MsgLen
      <4>2. CASE ~(in[1][2] = 0 /\ in[1][1] > 0)
        BY <1>1, <4>2 DEF MsgLen
      <4> QED
        BY <4>1, <4>2
    <3> QED
      BY <1>1, <2>1, <3>3 DEF MsgLenOf
  <2>2. CASE ~(Len(in) >= Pre)
    BY <1>1, <2>2 DEF MsgLenOf
  <2> QED
    BY <2>1, <2>2
<1>5. PeekMessage("piece")' = PeekMessage("piece")
  <2>1. CASE Len(in) > Pre
    <3>1. Pre + 1 \in 1 .. Len(in)
      BY <1>2, <2>1, Sizes
    <3>2. TypeAt(in[Pre + 1])' = TypeAt(in[Pre + 1])
      BY <1>3, <3>1
    <3>3. PeekMessage("piece")' <=> msglen > 0 /\ Len(in) > Pre /\ TypeAt(in[Pre + 1])' = "piece"
      BY <1>1 DEF PeekMessage
    <3> QED
      BY <3>2, <3>3 DEF PeekMessage
  <2>2. CASE ~(Len(in) > Pre)
    BY <1>1, <2>2 DEF PeekMessage
  <2> QED
    BY <2>1, <2>2
<1>6. Fits(Out)'
  BY DEF Fits, Outs, Out
<1>7. Buffers'
  BY <1>1, <1>4, <1>6 DEF SInv, Buffers
<1>8. Phases'
  BY <1>1 DEF SInv, Phases
<1>9. Told'
  BY <1>1, <1>5 DEF SInv, Told, HaveMessage
<1> QED
  BY <1>7, <1>8, <1>9 DEF SInv

\* The socket takes r bytes.
LEMMA FlushedStep ==
  ASSUME SInv, UNCHANGED <<sent, open, receiver>>, out # << >>, NEW r \in 1 .. Len(out), SetOut(Flushed(Out, r))
  PROVE  SInv'
<1> DEFINE o == Flushed(Out, r)
<1>1. Out.buf = out /\ Out.wire = wire /\ Out.ok = TRUE /\ Fits(Out)
  BY DEF SInv, Buffers, Out
<1>2. r \in 0 .. Len(Out.buf)
  BY <1>1
<1>3. Fits(o) /\ Piped(o) = Piped(Out)
  BY <1>1, <1>2, FlushedFacts
<1>4. out' = o.buf /\ outsize' = o.size /\ wire' = o.wire
  BY DEF SetOut
<1> HIDE DEF o
<1>5. out' \in Seq(Byte) /\ outsize' \in Nat /\ wire' \in Seq(Byte) /\ Len(out') <= outsize' /\ outsize' <= MaxSize
  BY <1>3, <1>4 DEF Fits, Outs
<1>6. wire' \o out' = wire \o out
  BY <1>1, <1>3, <1>4 DEF Piped
<1>7. open = TRUE /\ open' = TRUE /\ sent' = sent /\ sent \in Seq(Kinds)
  BY DEF SInv, Buffers
<1>8. UNCHANGED receiver /\ status' = status /\ in' = in /\ got' = got
  BY DEF receiver, buffer
<1>9. in \in Seq(Byte) /\ wire \in Seq(Byte) /\ out \in Seq(Byte)
  BY <1>1 DEF SInv, Buffers, Fits, Outs
<1>10. Pipe' = Pipe
  <2>1. Pipe' = (in \o wire') \o out'
    BY <1>8 DEF Pipe
  <2>2. (in \o wire') \o out' = in \o (wire' \o out')
    <3> DEFINE w == wire'
               b == out'
    <3>1. in \in Seq(Byte) /\ w \in Seq(Byte) /\ b \in Seq(Byte)
      BY <1>5, <1>9
    <3> HIDE DEF w, b
    <3>2. (in \o w) \o b = in \o (w \o b)
      BY <3>1, Associates, SMTT(60)
    <3> QED
      BY <3>2 DEF w, b
  <2>3. (in \o wire) \o out = in \o (wire \o out)
    BY <1>9, Associates, SMTT(60)
  <2> QED
    BY <1>6, <2>1, <2>2, <2>3 DEF Pipe
<1>11. Waiting' = Waiting
  BY <1>8 DEF Waiting
<1>12. InFlow'
  BY <1>7, <1>8, <1>10, <1>11 DEF SInv, InFlow, Flow, ToLast, Follows, SizeOf
<1>13. Len(sent') >= Len(sent) /\ open' \in BOOLEAN /\ (~open' => out' = << >>)
  BY <1>7
<1> QED
  BY <1>5, <1>7, <1>8, <1>12, <1>13, SenderStep

\* SetSize of out_buffer.
LEMMA ShrinkOutStep ==
  ASSUME SInv, ShrinkOut
  PROVE  SInv'
<1>1. out \in Seq(Byte) /\ wire \in Seq(Byte) /\ outsize \in Nat /\ Len(out) <= outsize /\ outsize <= MaxSize
  BY DEF SInv, Buffers, Fits, Outs, Out
<1>2. outsize' \in Nat /\ Len(out) <= outsize' /\ outsize' <= MaxSize
  BY <1>1, Sizes DEF ShrinkOut
<1>3. UNCHANGED <<sent, out, open, wire, receiver>>
  BY DEF ShrinkOut
<1>4. InFlow'
  BY <1>3 DEF SInv, InFlow, Flow, ToLast, Follows, SizeOf, Pipe, Waiting, receiver, buffer
<1>5. sent' \in Seq(Kinds) /\ Len(sent') >= Len(sent) /\ open' \in BOOLEAN /\ (~open' => out' = << >>)
  BY <1>3 DEF SInv, Buffers
<1> QED
  BY <1>1, <1>2, <1>3, <1>4, <1>5, SenderStep

\* Nothing put at the end.
LEMMA EmptyEnd ==
  ASSUME NEW X, NEW s \in Seq(X)
  PROVE  s \o << >> = s
OBVIOUS

\* The sender closes: what its socket has not taken is lost, at the end of the flow.
LEMMA CloseSenderStep ==
  ASSUME SInv, CloseSender
  PROVE  SInv'
<1>1. out \in Seq(Byte) /\ wire \in Seq(Byte) /\ in \in Seq(Byte) /\ outsize \in Nat /\ outsize <= MaxSize
  BY DEF SInv, Buffers, Fits, Outs, Out
<1>2. open' = FALSE /\ out' = << >> /\ UNCHANGED <<sent, outsize, wire, receiver>>
  BY DEF CloseSender
<1>3. in' = in /\ status' = status /\ got' = got /\ UNCHANGED receiver /\ sent' = sent
  BY <1>2 DEF receiver, buffer
<1>4. Pipe' = in \o wire
  <2>1. in \o wire \in Seq(Byte) /\ Pipe' = (in \o wire) \o << >>
    BY <1>1, <1>2, <1>3 DEF Pipe
  <2> QED
    BY <2>1, EmptyEnd
<1>5. InFlow'
  <2> SUFFICES ASSUME status # "closed"
               PROVE  Flow(sent', Pipe', Waiting')
    BY <1>2, <1>3 DEF InFlow
  <2>1. Flow(sent, in \o wire, Waiting)
    BY InFlowPart DEF SInv
  <2>2. Waiting' = Waiting
    BY <1>3 DEF Waiting
  <2> QED
    BY <1>3, <1>4, <2>1, <2>2
<1>6. sent' \in Seq(Kinds) /\ Len(sent') >= Len(sent) /\ out' \in Seq(Byte) /\ wire' \in Seq(Byte) /\ outsize' \in Nat
      /\ Len(out') <= outsize' /\ outsize' <= MaxSize
  BY <1>1, <1>2 DEF SInv, Buffers
<1> QED
  BY <1>2, <1>3, <1>5, <1>6, SenderStep

\* What is in the pipe when k bytes of the next message have been put behind it.
LEMMA FlowWithNext ==
  ASSUME SInv, open, status # "closed", NEW kind \in Kinds, NEW k \in 0 .. Pre + LenOf(kind)
  PROVE  LET q == Append(sent, kind)
             s == Pipe \o Bytes(Len(sent) + 1, 0, k)
         IN  Flow(q, s, Waiting) /\ (k = Pre + LenOf(kind) => ToLast(q, s, Waiting))
<1> DEFINE q == Append(sent, kind)
           m == Len(sent) + 1
           b == Bytes(m, 0, k)
           s == Pipe \o b
<1>1. sent \in Seq(Kinds) /\ q \in Seq(Kinds) /\ Len(q) = m /\ Len(sent) \in Nat /\ m \in Nat /\ m \in 0 .. Len(q)
  BY DEF SInv, Buffers
<1>2. Flow(sent, Pipe, Waiting) /\ ToLast(sent, Pipe, Waiting) /\ Waiting \in Nat
  BY InFlowPart DEF SInv, InFlow
<1>3. /\ Flow(q, Pipe, Waiting) /\ SizeOf(q, m) = Pre + LenOf(kind)
      /\ \A i \in 0 .. Len(sent) : SizeOf(q, i) = SizeOf(sent, i)
  BY <1>1, <1>2, FlowGrown
<1>4. Pipe \in Seq(Byte) /\ k \in Nat /\ k <= SizeOf(q, m)
  BY <1>2, <1>3, LenOfFacts, Sizes DEF Flow
<1>5. b \in Seq(Byte) /\ Len(b) = k /\ \A i \in 1 .. k : b[i] = <<m, i - 1>>
  BY <1>1, <1>4, BytesFromStart
<1> HIDE DEF q, m
<1>6. Flow(q, b, m) /\ (k = SizeOf(q, m) => ToLast(q, b, m))
  BY <1>1, <1>4, FlowOfMessage
<1> HIDE DEF b
<1>7. Pipe = << >> => m = Waiting
  BY <1>2 DEF ToLast, m
<1>8. Pipe # << >> /\ b # << >> => Follows(q, Pipe[Len(Pipe)], b[1])
  <2> SUFFICES ASSUME Pipe # << >>, b # << >> PROVE Follows(q, Pipe[Len(Pipe)], b[1])
    OBVIOUS
  <2>1. b[1] = <<m, 0>>
    <3>1. 1 \in 1 .. k
      BY <1>4, <1>5
    <3>2. b[1] = <<m, 1 - 1>>
      BY <1>5, <3>1
    <3> QED
      BY <3>2
  <2>2. Pipe[Len(Pipe)] = <<Len(sent), SizeOf(q, Len(sent)) - 1>>
    BY <1>1, <1>2, <1>3 DEF ToLast
  <2>3. SizeOf(q, Len(sent)) \in Nat
    BY <1>1, SizeOfFacts DEF m
  <2> QED
    BY <1>1, <2>1, <2>2, <2>3 DEF Follows, m
<1>9. Flow(q, s, Waiting)
  BY <1>1, <1>2, <1>3, <1>4, <1>5, <1>6, <1>7, <1>8, FlowAppended
<1>10. ASSUME k = Pre + LenOf(kind) PROVE ToLast(q, s, Waiting)
  <2>1. k > 0
    BY <1>10, LenOfFacts, Sizes
  <2>2. b # << >> /\ k \in 1 .. k
    BY <1>4, <1>5, <2>1
  <2>3. b[k] = <<Len(q), SizeOf(q, Len(q)) - 1>>
    BY <1>1, <1>3, <1>5, <1>10, <2>2
  <2>4. /\ s \in Seq(Byte) /\ Len(s) = Len(Pipe) + k /\ Len(Pipe) \in Nat
        /\ \A i \in Len(Pipe) + 1 .. Len(Pipe) + k : s[i] = b[i - Len(Pipe)]
    <3> DEFINE p == Pipe
    <3>1. p \in Seq(Byte) /\ b \in Seq(Byte) /\ Len(b) = k
      BY <1>4, <1>5
    <3> HIDE DEF p
    <3>2. /\ p \o b \in Seq(Byte) /\ Len(p \o b) = Len(p) + Len(b)
          /\ \A i \in Len(p) + 1 .. Len(p) + Len(b) : (p \o b)[i] = b[i - Len(p)]
      BY <3>1, Cat
    <3>3. Len(p) \in Nat
      BY <3>1
    <3> QED
      BY <3>1, <3>2, <3>3 DEF p
  <2>5. Len(s) \in Len(Pipe) + 1 .. Len(Pipe) + k /\ Len(s) - Len(Pipe) = k /\ s # << >>
    BY <1>4, <2>1, <2>4
  <2>6. s[Len(s)] = b[k]
    BY <2>4, <2>5
  <2> HIDE DEF s
  <2> QED
    BY <2>3, <2>5, <2>6 DEF ToLast
<1> QED
  BY <1>9, <1>10 DEF q, b, m

\* A message is sent, or the sender closes in the midst of it.
LEMMA SendStep ==
  ASSUME SInv, NEW kind \in Kinds, Send(kind)
  PROVE  SInv'
<1> DEFINE m == Len(sent) + 1
           whole == Pre + LenOf(kind)
<1>1. open = TRUE /\ sent' = Append(sent, kind) /\ UNCHANGED receiver
  BY DEF Send, SInv, Buffers
<1>2. /\ status' = status /\ in' = in /\ got' = got /\ Waiting' = Waiting
      /\ in \in Seq(Byte) /\ wire \in Seq(Byte) /\ out \in Seq(Byte) /\ sent \in Seq(Kinds) /\ m \in Nat
      /\ outsize \in Nat /\ outsize <= MaxSize /\ Fits(Out)
  BY <1>1 DEF SInv, Buffers, Fits, Outs, Out, receiver, buffer, Waiting
<1>3. whole \in Nat
  BY LenOfFacts, Sizes
<1>4. sent' \in Seq(Kinds) /\ Len(sent') >= Len(sent) /\ \A i \in 1 .. Len(sent) : sent'[i] = sent[i]
  BY <1>1, <1>2
<1>5. PICK o \in Outcomes(kind, m) :
        IF o.ok THEN SetOut(o) /\ UNCHANGED open
        ELSE open' = FALSE /\ out' = << >> /\ wire' = o.wire /\ UNCHANGED outsize
  BY DEF Send
<1>6. /\ Fits(o)
      /\ o.ok => Piped(o) = (wire \o out) \o Bytes(m, 0, whole)
      /\ ~o.ok => \E k \in 0 .. whole : Piped(o) = (wire \o out) \o Bytes(m, 0, k)
  BY <1>2, <1>5, OutcomesFacts
<1> HIDE DEF m, whole
<1>7. PICK k \in 0 .. whole : Piped(o) = (wire \o out) \o Bytes(m, 0, k) /\ (o.ok => k = whole)
  <2>1. CASE o.ok
    BY <1>3, <1>6, <2>1
  <2>2. CASE ~o.ok
    BY <1>6, <2>2
  <2> QED
    BY <2>1, <2>2
<1>8. o.buf \in Seq(Byte) /\ o.wire \in Seq(Byte) /\ o.size \in Nat /\ o.size <= MaxSize /\ Len(o.buf) <= o.size
  BY <1>6 DEF Fits, Outs
<1>9. Bytes(m, 0, k) \in Seq(Byte)
  <2>1. k \in Nat
    BY <1>3, <1>7
  <2> QED
    BY <1>2, <2>1, BytesFromStart
<1>10. (in \o o.wire) \o o.buf = Pipe \o Bytes(m, 0, k)
  <2> DEFINE b == Bytes(m, 0, k)
  <2>0. b \in Seq(Byte) /\ o.wire \o o.buf = (wire \o out) \o b
    BY <1>7, <1>9 DEF Piped
  <2> HIDE DEF b
  <2>1. (in \o o.wire) \o o.buf = in \o (o.wire \o o.buf)
    <3> DEFINE w == o.wire
               d == o.buf
    <3>1. in \in Seq(Byte) /\ w \in Seq(Byte) /\ d \in Seq(Byte)
      BY <1>2, <1>8
    <3> HIDE DEF w, d
    <3>2. (in \o w) \o d = in \o (w \o d)
      BY <3>1, Associates
    <3> QED
      BY <3>2 DEF w, d
  <2>3. in \o ((wire \o out) \o b) = (in \o (wire \o out)) \o b
    <3> DEFINE c == wire \o out
    <3>1. in \in Seq(Byte) /\ c \in Seq(Byte)
      BY <1>2
    <3> HIDE DEF c
    <3>2. (in \o c) \o b = in \o (c \o b)
      BY <2>0, <3>1, Associates
    <3> QED
      BY <3>2 DEF c
  <2>4. in \o (wire \o out) = Pipe
    BY <1>2, Associates, SMTT(60) DEF Pipe
  <2> QED
    BY <2>0, <2>1, <2>3, <2>4 DEF b
<1>11. ASSUME status # "closed"
       PROVE  /\ Flow(sent', (in \o o.wire) \o o.buf, Waiting)
              /\ o.ok => ToLast(sent', (in \o o.wire) \o o.buf, Waiting)
  BY <1>1, <1>7, <1>10, <1>11, FlowWithNext DEF m, whole
<1>12. CASE o.ok
  <2>1. out' = o.buf /\ outsize' = o.size /\ wire' = o.wire /\ open' = open
    BY <1>5, <1>12 DEF SetOut
  <2>2. Pipe' = (in \o o.wire) \o o.buf
    BY <1>2, <2>1 DEF Pipe
  <2>3. InFlow'
    BY <1>2, <1>11, <1>12, <2>2 DEF InFlow
  <2>4. open' \in BOOLEAN /\ (~open' => out' = << >>)
    BY <1>1, <2>1
  <2> QED
    BY <1>1, <1>4, <1>8, <2>1, <2>3, <2>4, SenderStep
<1>13. CASE ~o.ok
  <2>1. open' = FALSE /\ out' = << >> /\ wire' = o.wire /\ outsize' = outsize
    BY <1>5, <1>13
  <2> DEFINE a == in \o o.wire
  <2>2. a \in Seq(Byte)
    BY <1>2, <1>8
  <2>3. Pipe' = a
    BY <1>2, <2>1, <2>2, EmptyEnd DEF Pipe
  <2>4. status # "closed" => Flow(sent', a, Waiting)
    <3> SUFFICES ASSUME status # "closed" PROVE Flow(sent', a, Waiting)
      OBVIOUS
    <3>1. Flow(sent', a \o o.buf, Waiting) /\ Waiting \in Nat
      BY <1>11, InFlowPart DEF SInv
    <3> HIDE DEF a
    <3>2. Len(a) \in 0 .. Len(a \o o.buf) /\ SubSeq(a \o o.buf, 1, Len(a)) = a
      BY <1>8, <2>2, PrefixOfCat
    <3> DEFINE s == a \o o.buf
    <3>3. Flow(sent', s, Waiting) /\ Len(a) \in 0 .. Len(s) /\ SubSeq(s, 1, Len(a)) = a
      BY <3>1, <3>2
    <3> HIDE DEF s
    <3> DEFINE q == sent'
    <3>4. q \in Seq(Kinds) /\ Flow(q, s, Waiting)
      BY <1>4, <3>3
    <3> HIDE DEF q
    <3>5. Flow(q, SubSeq(s, 1, Len(a)), Waiting)
      BY <3>1, <3>3, <3>4, FlowTaken
    <3> QED
      BY <3>3, <3>5 DEF q
  <2>5. InFlow'
    BY <1>2, <2>1, <2>3, <2>4 DEF InFlow
  <2>6. out' \in Seq(Byte) /\ Len(out') <= outsize' /\ outsize' <= MaxSize /\ outsize' \in Nat /\ wire' \in Seq(Byte)
    BY <1>2, <1>8, <2>1
  <2> QED
    BY <1>1, <1>4, <2>1, <2>5, <2>6, SenderStep
<1> QED
  BY <1>12, <1>13

-----------------------------------------------------------------------------
(* The steps of the receiver.                                              *)

\* A step of the receiver leaves the sender alone.
LEMMA SentKept ==
  ASSUME SInv, UNCHANGED sender
  PROVE  /\ sent' = sent /\ open' = open /\ out' = out /\ outsize' = outsize
         /\ sent \in Seq(Kinds) /\ out \in Seq(Byte)
         /\ (wire' \in Seq(Byte) => Fits(Out)' /\ (~open' => out' = << >>))
BY DEF sender, SInv, Buffers, Fits, Outs, Out

\* The receiver closes.
LEMMA CloseStep ==
  ASSUME SInv, UNCHANGED sender, wire' \in Seq(Byte), CloseReceiver
  PROVE  SInv'
<1>1. /\ status' = "closed" /\ at' = "select" /\ in' = << >> /\ msglen' = 0 /\ oldbytes' = 0 /\ counted' = 0
      /\ insize' = insize /\ got' = got
  BY DEF CloseReceiver
<1>2. MsgLenOf(in)' = 0
  BY <1>1, Sizes DEF MsgLenOf
<1>3. Buffers'
  BY <1>1, <1>2, SentKept DEF SInv, Buffers
<1>4. Phases' /\ InFlow'
  BY <1>1 DEF Phases, InFlow
<1>5. Told'
  BY <1>1, Sizes DEF Told
<1> QED
  BY <1>3, <1>4, <1>5 DEF SInv

\* in_buffer after r bytes have come from the wire.
LEMMA FeedFacts ==
  ASSUME SInv, status # "closed", NEW limit \in Nat, Size <= MaxSize, NEW r \in 0 .. Least(Limit(limit), Len(wire))
  PROVE  LET s == in \o SubSeq(wire, 1, r)
             w == DropFirst(wire, r)
         IN  /\ s \in Seq(Byte) /\ w \in Seq(Byte) /\ Len(in) <= Len(s) /\ Len(s) <= Size
             /\ s \o w = in \o wire /\ Flow(sent, s, Waiting) /\ NewLen(s) = MsgLenOf(s)
             /\ \A i \in 1 .. Len(in) : s[i] = in[i]
             /\ Size \in Nat
<1> DEFINE a == SubSeq(wire, 1, r)
           s == in \o a
           w == DropFirst(wire, r)
<1>1. /\ in \in Seq(Byte) /\ wire \in Seq(Byte) /\ insize \in Nat /\ Len(in) \in Nat /\ Len(wire) \in Nat
      /\ Len(in) <= insize /\ sent \in Seq(Kinds) /\ msglen = MsgLenOf(in)
  BY DEF SInv, Buffers, Fits, Outs, Out
<1>2. Size \in Nat /\ Len(in) <= Size
  BY <1>1, Sizes DEF Size
<1>3. Limit(limit) \in Nat /\ Limit(limit) <= Size - Len(in)
  BY <1>1, <1>2 DEF Limit
<1>4. r \in 0 .. Len(wire) /\ r \in Nat /\ r <= Size - Len(in)
  BY <1>1, <1>2, <1>3 DEF Least
<1>5. a \in Seq(Byte) /\ Len(a) = r /\ w \in Seq(Byte)
  BY <1>1, <1>4, Taken
<1>6. s \o w = in \o wire
  BY <1>1, <1>4, Moved
<1> HIDE DEF a, w
<1>7. s \in Seq(Byte) /\ Len(s) = Len(in) + r /\ \A i \in 1 .. Len(in) : s[i] = in[i]
  BY <1>1, <1>5, Cat
<1>8. Flow(sent, s, Waiting)
  <2> DEFINE u == in \o wire
             t == s
  <2>1. Flow(sent, u, Waiting) /\ Waiting \in Nat
    BY InFlowPart DEF SInv
  <2>2. t \in Seq(Byte) /\ u = t \o w
    BY <1>6, <1>7
  <2> HIDE DEF t
  <2>3. Len(t) \in 0 .. Len(t \o w) /\ SubSeq(t \o w, 1, Len(t)) = t
    BY <1>5, <2>2, PrefixOfCat
  <2>4. Len(t) \in 0 .. Len(u) /\ SubSeq(u, 1, Len(t)) = t
    BY <2>2, <2>3
  <2> HIDE DEF u
  <2>5. Flow(sent, t, Waiting)
    BY <1>1, <2>1, <2>4, FlowTaken
  <2> QED
    BY <2>5 DEF t
<1> HIDE DEF s
<1>9. NewLen(s) = MsgLenOf(s)
  <2>1. CASE Len(in) < Pre
    BY <2>1 DEF NewLen
  <2>2. CASE ~(Len(in) < Pre)
    <3>1. 1 \in 1 .. Len(in) /\ Len(in) >= Pre /\ Len(s) >= Pre
      BY <1>1, <1>4, <1>7, <2>2, Sizes
    <3>2. s[1] = in[1]
      BY <1>7, <3>1
    <3> QED
      BY <1>1, <2>2, <3>1, <3>2 DEF NewLen, MsgLenOf, MsgLen
  <2> QED
    BY <2>1, <2>2
<1>10. Len(in) <= Len(s) /\ Len(s) <= Size
  BY <1>1, <1>2, <1>4, <1>7
<1> QED
  BY <1>2, <1>5, <1>6, <1>7, <1>8, <1>9, <1>10 DEF s, w, a

\* What the flow is when the bytes have moved from the wire to in_buffer.
LEMMA PipeKept ==
  ASSUME SInv, UNCHANGED <<sender, status, got>>, status # "closed", in' \in Seq(Byte), wire' \in Seq(Byte),
         in' \o wire' = in \o wire
  PROVE  InFlow'
<1>1. sent' = sent /\ open' = open /\ out' = out /\ got' = got /\ status' = status
  BY SentKept
<1>2. Pipe' = Pipe /\ Waiting' = Waiting
  BY <1>1 DEF Pipe, Waiting
<1> QED
  BY <1>1, <1>2 DEF SInv, InFlow, Flow, ToLast, Follows, SizeOf

\* RecvModule has fed in_buffer.
LEMMA FedStep ==
  ASSUME SInv, UNCHANGED sender, status = "success", counted = oldbytes,
         NEW s \in Seq(Byte), wire' \in Seq(Byte), s \o wire' = in \o wire, Flow(sent, s, Waiting),
         Len(in) <= Len(s), \A i \in 1 .. Len(in) : s[i] = in[i],
         insize' \in Nat, Len(s) <= insize', insize' <= MaxSize,
         NEW m, m = MsgLenOf(s), NEW isPiece \in BOOLEAN,
         isPiece <=> (m > PieceHead /\ Len(s) > Pre + PieceHead /\ TypeAt(s[Pre + 1]) = "piece"),
         oldbytes' = (IF isPiece THEN OldBytes(s, m) ELSE oldbytes),
         counted' = (IF isPiece THEN counted + Least(Len(s) - Pre, m) - PieceHead - oldbytes ELSE counted),
         Fed(s, m)
  PROVE  SInv'
<1> DEFINE n == Len(got) + 1
<1>1. in' = s /\ msglen' = m /\ at' = "loop" /\ UNCHANGED <<status, got>>
  BY DEF Fed
<1>2. /\ sent' = sent /\ sent \in Seq(Kinds) /\ n \in Nat \ {0} /\ Waiting = n /\ in \in Seq(Byte) /\ Len(in) \in Nat
      /\ Len(s) \in Nat /\ oldbytes \in 0 .. Slice /\ got \in Seq(Kinds)
      /\ Fits(Out)' /\ (~open' => out' = << >>) /\ open' \in BOOLEAN
  BY SentKept DEF SInv, Buffers, Waiting, Told
<1>3. /\ Len(s) < Pre => MsgLenOf(s) = 0 /\ HaveMessage(s, MsgLenOf(s)) = 0
      /\ s # << >> => n \in 1 .. Len(sent) /\ sent[n] \in Kinds /\ s[1] = <<n, 0>>
      /\ Len(s) >= Pre => /\ MsgLenOf(s) = LenOf(sent[n])
                          /\ SizeOf(sent, n) = Pre + MsgLenOf(s)
                          /\ HaveMessage(s, MsgLenOf(s)) = (IF Len(s) >= SizeOf(sent, n) THEN 1 ELSE 0)
      /\ MsgLenOf(s) \in 0 .. MaxLen
      /\ Len(s) > Pre /\ MsgLenOf(s) > 0 => TypeAt(s[Pre + 1]) = sent[n]
  BY <1>2, HeadFacts
<1> HIDE DEF n
<1>4. MsgLenOf(in)' = m
  BY <1>1, <1>2 DEF MsgLenOf, MsgLen
<1>5. PeekMessage("piece")' <=> m > 0 /\ Len(s) > Pre /\ TypeAt(s[Pre + 1]) = "piece"
  BY <1>1, <1>2 DEF PeekMessage, TypeAt
<1>6. HaveMessage(in, msglen)' = HaveMessage(s, m)
  BY <1>1 DEF HaveMessage
<1>7. m \in Nat /\ Len(s) \in Nat
  BY <1>2, <1>3
<1>8. Buffers' /\ Phases' /\ InFlow'
  BY <1>1, <1>2, <1>4, PipeKept DEF SInv, Buffers, Phases
<1>9. CASE isPiece
  <2>1. /\ sent[n] = "piece" /\ m = PieceHead + Slice
        /\ HaveMessage(s, m) = (IF Len(s) >= Pre + m THEN 1 ELSE 0)
    <3>1. Len(s) >= Pre /\ Len(s) > Pre /\ m > 0 /\ s # << >>
      BY <1>7, <1>9, Sizes
    <3>2. sent[n] = "piece" /\ sent[n] \in Kinds /\ m = LenOf(sent[n])
      BY <1>3, <1>9, <3>1
    <3> QED
      BY <1>3, <3>1, <3>2, LenOfFacts
  <2>2. oldbytes' = OldBytes(s, m) /\ counted' = oldbytes + Least(Len(s) - Pre, m) - PieceHead - oldbytes
    BY <1>9
  <2>3. oldbytes \in Nat /\ Len(s) > Pre + PieceHead
    BY <1>2, <1>9, Sizes
  <2>4. CASE Len(s) >= Pre + m
    <3>1. OldBytes(s, m) = 0
      BY <1>7, <2>4, Sizes DEF OldBytes
    <3>2. Least(Len(s) - Pre, m) = m
      BY <1>7, <2>4, Sizes DEF Least
    <3>3. oldbytes' = 0 /\ counted' = Slice
      BY <2>1, <2>2, <2>3, <3>1, <3>2, Sizes
    <3>4. HaveMessage(s, m) = 1
      BY <2>1, <2>4
    <3>5. Told'
      BY <1>1, <1>2, <1>6, <3>3, <3>4, Sizes DEF Told
    <3> QED
      BY <1>8, <3>5 DEF SInv
  <2>5. CASE ~(Len(s) >= Pre + m)
    <3>1. OldBytes(s, m) = Len(s) - Pre - PieceHead
      BY <1>7, <2>5, Sizes DEF OldBytes
    <3>2. Least(Len(s) - Pre, m) = Len(s) - Pre
      BY <1>7, <2>5, Sizes DEF Least
    <3>3. oldbytes' = Len(s) - Pre - PieceHead /\ counted' = Len(s) - Pre - PieceHead
      BY <1>7, <2>2, <2>3, <3>1, <3>2, Sizes
    <3>4. Len(s) - Pre - PieceHead \in 1 .. Slice
      BY <1>7, <2>1, <2>3, <2>5, Sizes
    <3>5. HaveMessage(s, m) = 0
      BY <2>1, <2>5
    <3>6. PeekMessage("piece")'
      BY <1>5, <1>7, <1>9, <2>1, <2>3, Sizes
    <3>7. oldbytes' \in 0 .. Slice /\ counted' = oldbytes' /\ oldbytes' <= Len(in') - Pre - PieceHead
      BY <1>1, <1>7, <3>3, <3>4, Sizes
    <3>8. Told'
      BY <1>1, <1>2, <1>6, <3>5, <3>6, <3>7 DEF Told
    <3> QED
      BY <1>8, <3>8 DEF SInv
  <2> QED
    BY <2>4, <2>5
<1>10. CASE ~isPiece
  <2>1. oldbytes' = oldbytes /\ counted' = oldbytes
    BY <1>10
  <2>2. oldbytes = 0
    <3> SUFFICES ASSUME oldbytes # 0 PROVE FALSE
      OBVIOUS
    <3>1. msglen > 0 /\ Len(in) > Pre /\ TypeAt(in[Pre + 1]) = "piece" /\ oldbytes <= Len(in) - Pre - PieceHead
      BY DEF SInv, Told, PeekMessage
    <3>2. Len(s) > Pre + PieceHead /\ Len(s) > Pre /\ Len(s) >= Pre /\ s # << >> /\ Pre + 1 \in 1 .. Len(in)
      BY <1>2, <3>1, Sizes, SMTT(60)
    <3>3. s[Pre + 1] = in[Pre + 1]
      BY <3>2
    <3>4. msglen = MsgLenOf(in) /\ Len(in) >= Pre
      BY <1>2, <3>1, Sizes DEF SInv, Buffers
    <3>5. 1 \in 1 .. Len(in)
      BY <1>2, <3>2, Sizes
    <3>6. MsgLenOf(s) = msglen
      BY <3>2, <3>4, <3>5 DEF MsgLenOf, MsgLen
    <3>7. sent[n] = "piece" /\ sent[n] \in Kinds
      BY <1>3, <3>1, <3>2, <3>3, <3>6
    <3>8. m > PieceHead
      BY <1>3, <3>2, <3>7, LenOfFacts, Sizes
    <3> QED
      BY <1>10, <3>1, <3>2, <3>3, <3>8
  <2> QED
    BY <1>1, <1>2, <1>6, <1>8, <2>1, <2>2, Sizes DEF SInv, Told
<1> QED
  BY <1>9, <1>10

\* HandShake has fed in_buffer.
LEMMA FedShakeStep ==
  ASSUME SInv, UNCHANGED sender, status = "handshake",
         NEW s \in Seq(Byte), wire' \in Seq(Byte), s \o wire' = in \o wire, Flow(sent, s, 0),
         insize' \in Nat, Len(s) <= insize', insize' <= MaxSize,
         NEW m, m = MsgLenOf(s), oldbytes' = 0, counted' = 0, FedShake(s, m)
  PROVE  SInv'
<1> DEFINE t == DropFirst(s, Shake)
<1>1. /\ sent' = sent /\ sent \in Seq(Kinds) /\ out' = out /\ open' = open /\ open \in BOOLEAN /\ out \in Seq(Byte)
      /\ got = << >> /\ got' = << >> /\ at = "select" /\ Waiting = 0 /\ Len(s) \in Nat /\ Shake \in Nat
      /\ Fits(Out)' /\ (~open' => out' = << >>)
  BY SentKept, Sizes DEF SInv, Buffers, Phases, FedShake, Waiting
<1>2. CASE Len(s) < Shake
  <2>1. in' = s /\ msglen' = m /\ status' = status /\ at' = at
    BY <1>2 DEF FedShake
  <2>2. MsgLenOf(in)' = m
    BY <1>1, <2>1 DEF MsgLenOf, MsgLen
  <2>3. InFlow'
    BY <1>1, <2>1, PipeKept
  <2>4. Buffers' /\ Phases'
    BY <1>1, <1>2, <2>1, <2>2 DEF SInv, Buffers, Phases
  <2>5. Told'
    BY <1>1, <2>1, Sizes DEF Told
  <2> QED
    BY <2>3, <2>4, <2>5 DEF SInv
<1>3. CASE ~(Len(s) < Shake)
  <2>1. /\ in' = t /\ msglen' = MsgLenOf(t) /\ status' = "success"
        /\ at' = IF HaveMessage(t, MsgLenOf(t)) = 1 THEN "recv" ELSE "select"
    BY <1>3 DEF FedShake
  <2>2. Shake \in 0 .. Len(s)
    BY <1>1, <1>3
  <2>3. t \in Seq(Byte) /\ Len(t) = Len(s) - Shake
    BY <2>2, Taken
  <2>4. 0 \in 0 .. Len(sent) /\ SizeOf(sent, 0) = Shake /\ 0 + 1 = 1
    BY <1>1, SizeOfFacts
  <2>5. Flow(sent, t, 1)
    <3>1. Flow(sent, DropFirst(s, SizeOf(sent, 0)), 0 + 1)
      BY <1>1, <1>3, <2>2, <2>4, FlowDropped
    <3> QED
      BY <2>4, <3>1
  <2>6. HaveMessage(t, MsgLenOf(t)) \in {0, 1}
    <3>1. 1 \in Nat \ {0} /\ t \in Seq(Byte) /\ Len(t) \in Nat /\ Pre \in Nat
      BY <2>3, Sizes
    <3> HIDE DEF t
    <3> QED
      BY <1>1, <2>5, <3>1, HeadFacts, SMTT(60)
  <2>7. InFlow'
    <3> DEFINE w == wire'
               u == s \o w
               v == u \o out
    <3>1. w \in Seq(Byte) /\ u = in \o wire /\ v = Pipe
      BY DEF Pipe
    <3> HIDE DEF w
    <3>2. u \in Seq(Byte) /\ Len(s) \in 0 .. Len(u) /\ Len(u) = Len(s) + Len(w) /\ Len(w) \in Nat
      <4>1. s \o w \in Seq(Byte) /\ Len(s \o w) = Len(s) + Len(w) /\ Len(w) \in Nat
        <5>1. w \in Seq(Byte)
          BY <3>1
        <5> HIDE DEF u
        <5>2. Len(w) \in Nat
          BY <5>1
        <5> QED
          BY <5>1, <5>2, Cat
      <4>2. u = s \o w
        OBVIOUS
      <4> QED
        BY <1>1, <4>1, <4>2
    <3>3. DropFirst(u, Shake) = t \o w
      BY <2>2, <3>1, DropOfCat
    <3>4. Shake \in 0 .. Len(u)
      BY <1>1, <2>2, <3>2
    <3> HIDE DEF u
    <3>5. DropFirst(v, Shake) = DropFirst(u, Shake) \o out
      BY <1>1, <3>2, <3>4, DropOfCat
    <3>6. v \in Seq(Byte) /\ Len(v) >= Shake
      BY <1>1, <3>2, <3>4
    <3>7. Flow(sent, v, 0) /\ (open => ToLast(sent, v, 0))
      BY <1>1, <3>1 DEF SInv, InFlow
    <3> HIDE DEF v, t
    <3>8. /\ Flow(sent, DropFirst(v, SizeOf(sent, 0)), 0 + 1)
          /\ open => ToLast(sent, DropFirst(v, SizeOf(sent, 0)), 0 + 1)
      BY <1>1, <2>4, <3>6, <3>7, FlowDropped
    <3>9. Flow(sent, (t \o w) \o out, 1) /\ (open => ToLast(sent, (t \o w) \o out, 1))
      BY <2>4, <3>3, <3>5, <3>8
    <3>10. Pipe' = (t \o w) \o out /\ Waiting' = 1
      BY <1>1, <2>1 DEF Pipe, Waiting, w
    <3> QED
      BY <1>1, <3>9, <3>10 DEF InFlow, Flow, ToLast, Follows, SizeOf
  <2>8. MsgLenOf(in)' = MsgLenOf(t)
    BY <1>1, <2>1 DEF MsgLenOf, MsgLen
  <2>9. Buffers' /\ Phases'
    <3>1. in' \in Seq(Byte) /\ Len(in') <= insize'
      BY <1>1, <2>1, <2>2, <2>3
    <3>2. status' = "success" /\ at' \in {"recv", "select"}
      BY <2>1
    <3> QED
      BY <1>1, <2>1, <2>8, <3>1, <3>2 DEF SInv, Buffers, Phases
  <2>10. Told'
    <3>1. HaveMessage(in, msglen)' = HaveMessage(t, MsgLenOf(t))
      BY <2>1 DEF HaveMessage
    <3> HIDE DEF t
    <3> QED
      BY <1>1, <2>1, <2>6, <3>1, Sizes DEF Told
  <2> QED
    BY <2>7, <2>9, <2>10 DEF SInv
<1> QED
  BY <1>2, <1>3

\* Feed, with what its callers do with what came.
LEMMA FeedStep ==
  ASSUME SInv, UNCHANGED sender, status # "closed", at # "loop", NEW limit \in Nat, NEW least, Feed(limit, least)
  PROVE  SInv'
<1>1. CASE Size > MaxSize
  <2>1. CloseReceiver /\ wire' = wire
    BY <1>1 DEF Feed
  <2> QED
    BY <2>1, CloseStep DEF SInv, Buffers, Fits, Outs, Out
<1>2. CASE ~(Size > MaxSize)
  <2> DEFINE S(r) == in \o SubSeq(wire, 1, r)
             P(r) == NewLen(S(r)) > PieceHead /\ Len(S(r)) > Pre + PieceHead /\ TypeAt(S(r)[Pre + 1]) = "piece"
  <2>1. PICK r \in 0 .. Least(Limit(limit), Len(wire)) :
          /\ wire' = DropFirst(wire, r)
          /\ \/ ~open /\ r < Limit(limit) /\ r = Len(wire) /\ CloseReceiver
             \/ /\ r >= least
                /\ insize' = Size
                /\ oldbytes' = IF P(r) THEN OldBytes(S(r), NewLen(S(r))) ELSE oldbytes
                /\ counted' = IF P(r) THEN counted + Least(Len(S(r)) - Pre, NewLen(S(r))) - PieceHead - oldbytes ELSE counted
                /\ IF status = "handshake" THEN FedShake(S(r), NewLen(S(r))) ELSE Fed(S(r), NewLen(S(r)))
    BY <1>2 DEF Feed
  <2> DEFINE s == S(r)
             m == NewLen(s)
             isPiece == P(r)
  <2>2. insize \in Nat /\ Len(in) \in Nat /\ Size \in Nat /\ Size <= MaxSize
    <3>1. insize \in Nat /\ Len(in) \in Nat
      BY DEF SInv, Buffers
    <3> QED
      BY <1>2, <3>1, Sizes DEF Size
  <2>3. /\ s \in Seq(Byte) /\ wire' \in Seq(Byte) /\ Len(in) <= Len(s) /\ Len(s) <= Size
        /\ s \o wire' = in \o wire /\ Flow(sent, s, Waiting) /\ m = MsgLenOf(s)
        /\ \A i \in 1 .. Len(in) : s[i] = in[i]
    BY <2>1, <2>2, FeedFacts
  <2>4. isPiece \in BOOLEAN /\ (isPiece <=> (m > PieceHead /\ Len(s) > Pre + PieceHead /\ TypeAt(s[Pre + 1]) = "piece"))
    OBVIOUS
  <2>5. \/ CloseReceiver
        \/ /\ insize' = Size
           /\ oldbytes' = IF isPiece THEN OldBytes(s, m) ELSE oldbytes
           /\ counted' = IF isPiece THEN counted + Least(Len(s) - Pre, m) - PieceHead - oldbytes ELSE counted
           /\ IF status = "handshake" THEN FedShake(s, m) ELSE Fed(s, m)
    BY <2>1
  <2> HIDE DEF isPiece, m, s
  <2>6. CASE CloseReceiver
    BY <2>3, <2>6, CloseStep
  <2>7. CASE ~CloseReceiver
    <3>1. /\ insize' = Size
          /\ oldbytes' = IF isPiece THEN OldBytes(s, m) ELSE oldbytes
          /\ counted' = IF isPiece THEN counted + Least(Len(s) - Pre, m) - PieceHead - oldbytes ELSE counted
          /\ IF status = "handshake" THEN FedShake(s, m) ELSE Fed(s, m)
      BY <2>5, <2>7
    <3>2. insize' \in Nat /\ Len(s) <= insize' /\ insize' <= MaxSize
      BY <2>2, <2>3, <3>1
    <3>3. CASE status = "handshake"
      <4>1. Flow(sent, s, 0)
        BY <2>3, <3>3 DEF Waiting
      <4>2. sent \in Seq(Kinds) /\ oldbytes = 0 /\ counted = 0
        BY <3>3 DEF SInv, Buffers, Told
      <4>3. ~isPiece
        <5> SUFFICES ASSUME isPiece PROVE FALSE
          OBVIOUS
        <5>1. Len(s) > Pre /\ TypeAt(s[Pre + 1]) = "piece"
          BY <2>3, <2>4, Sizes
        <5> QED
          BY <4>1, <4>2, <5>1, ShakeFacts
      <4>4. oldbytes' = 0 /\ counted' = 0 /\ FedShake(s, m)
        BY <3>1, <3>3, <4>2, <4>3
      <4> QED
        BY <2>3, <3>2, <3>3, <4>1, <4>4, FedShakeStep
    <3>4. CASE status # "handshake"
      <4>1. status = "success" /\ counted = oldbytes /\ Fed(s, m)
        BY <3>1, <3>4 DEF SInv, Phases, Told
      <4> QED
        BY <2>3, <2>4, <3>1, <3>2, <4>1, FedStep
    <3> QED
      BY <3>3, <3>4
  <2> QED
    BY <2>6, <2>7
<1> QED
  BY <1>1, <1>2

\* The message at the head of in_buffer is the next one sent.
LEMMA DeliverFacts ==
  ASSUME SInv, Deliver
  PROVE  LET n == Len(got) + 1
         IN  /\ status = "success" /\ n \in 1 .. Len(sent) /\ got' = Append(got, sent[n]) /\ sent[n] \in Kinds
             /\ in' = DropFirst(in, SizeOf(sent, n)) /\ Len(in) >= SizeOf(sent, n)
             /\ msglen' = MsgLenOf(in')
<1> DEFINE n == Len(got) + 1
<1>1. /\ at = "loop" /\ HaveMessage(in, msglen) = 1 /\ sent' = sent /\ sent \in Seq(Kinds)
      /\ n \in Nat \ {0} /\ in \in Seq(Byte) /\ Len(in) \in Nat /\ msglen = MsgLenOf(in)
      /\ got' = Append(got, IF msglen = 0 THEN "keepalive" ELSE TypeAt(in[Pre + 1]))
      /\ in' = Pick(in) /\ msglen' = MsgLenOf(Pick(in))
  BY SentKept DEF Deliver, SInv, Buffers
<1>2. status = "success"
  BY <1>1 DEF SInv, Phases
<1>3. Flow(sent, in, n)
  BY <1>2, InFlowPart DEF SInv, Waiting
<1> HIDE DEF n
<1>4. Len(in) >= Pre /\ in # << >>
  BY <1>1, Sizes DEF HaveMessage
<1>5. /\ n \in 1 .. Len(sent) /\ sent[n] \in Kinds /\ msglen = LenOf(sent[n]) /\ SizeOf(sent, n) = Pre + msglen
      /\ HaveMessage(in, msglen) = (IF Len(in) >= SizeOf(sent, n) THEN 1 ELSE 0)
      /\ msglen \in 0 .. MaxLen
      /\ Len(in) > Pre /\ msglen > 0 => TypeAt(in[Pre + 1]) = sent[n]
  BY <1>1, <1>3, <1>4, HeadFacts
<1>6. Len(in) >= SizeOf(sent, n) /\ msglen + Pre = SizeOf(sent, n)
  BY <1>1, <1>5, Sizes
<1>7. in' = DropFirst(in, SizeOf(sent, n)) /\ msglen' = MsgLenOf(in')
  BY <1>1, <1>6 DEF Pick
<1>8. (IF msglen = 0 THEN "keepalive" ELSE TypeAt(in[Pre + 1])) = sent[n]
  <2>1. CASE msglen = 0
    BY <1>5, <2>1, LenOfFacts
  <2>2. CASE msglen # 0
    <3>1. Len(in) > Pre /\ msglen > 0
      BY <1>1, <1>5, <1>6, <2>2, Sizes
    <3> QED
      BY <1>5, <2>2, <3>1
  <2> QED
    BY <2>1, <2>2
<1> QED
  BY <1>1, <1>2, <1>5, <1>6, <1>7, <1>8 DEF n

\* A message is delivered.
LEMMA DeliverStep ==
  ASSUME SInv, Deliver
  PROVE  SInv'
<1> DEFINE n == Len(got) + 1
           t == DropFirst(in, SizeOf(sent, n))
<1>1. /\ UNCHANGED <<sender, wire, status, insize, oldbytes, at>> /\ counted' = 0 /\ at = "loop" /\ HaveMessage(in, msglen) = 1
  BY DEF Deliver
<1>2. /\ sent' = sent /\ open' = open /\ out' = out /\ sent \in Seq(Kinds) /\ out \in Seq(Byte) /\ wire \in Seq(Byte)
      /\ wire' = wire /\ Fits(Out)' /\ (~open' => out' = << >>) /\ open \in BOOLEAN
      /\ in \in Seq(Byte) /\ Len(in) \in Nat /\ insize \in Nat /\ Len(in) <= insize /\ insize <= MaxSize
      /\ got \in Seq(Kinds) /\ Len(got) \in Nat /\ n \in Nat /\ Waiting = n
  <2>1. wire \in Seq(Byte) /\ wire' = wire
    BY <1>1 DEF SInv, Buffers, Fits, Outs, Out
  <2>2. status = "success"
    BY DeliverFacts
  <2> QED
    BY <1>1, <2>1, <2>2, SentKept DEF SInv, Buffers, Waiting
<1>3. /\ status = "success" /\ n \in 1 .. Len(sent) /\ got' = Append(got, sent[n]) /\ sent[n] \in Kinds
      /\ in' = t /\ Len(in) >= SizeOf(sent, n) /\ msglen' = MsgLenOf(in')
  BY DeliverFacts
<1> HIDE DEF n
<1>4. SizeOf(sent, n) \in 0 .. Len(in) /\ n \in 0 .. Len(sent)
  BY <1>2, <1>3, SizeOfFacts, Sizes
<1>5. t \in Seq(Byte) /\ Len(t) = Len(in) - SizeOf(sent, n)
  BY <1>2, <1>4, Taken
<1>6. got' \in Seq(Kinds) /\ Len(got') = n
  BY <1>2, <1>3 DEF n
<1>7. Flow(sent, Pipe, n) /\ (open => ToLast(sent, Pipe, n))
  BY <1>2, <1>3 DEF SInv, InFlow
<1>8. DropFirst(Pipe, SizeOf(sent, n)) = (t \o wire) \o out /\ Len(Pipe) >= SizeOf(sent, n)
  <2> DEFINE u == in \o wire
             z == SizeOf(sent, n)
  <2>1. u \in Seq(Byte) /\ Len(u) = Len(in) + Len(wire) /\ Len(wire) \in Nat
    BY <1>2
  <2>2. z \in 0 .. Len(in) /\ z \in 0 .. Len(u)
    BY <1>2, <1>4, <2>1
  <2> HIDE DEF z
  <2>3. DropFirst(u, z) = DropFirst(in, z) \o wire
    BY <1>2, <2>2, DropOfCat
  <2> HIDE DEF u
  <2>4. DropFirst(u \o out, z) = DropFirst(u, z) \o out
    BY <1>2, <2>1, <2>2, DropOfCat
  <2>5. Len(u \o out) >= z
    <3>1. Len(out) \in Nat /\ Len(u) \in Nat
      BY <1>2, <2>1
    <3>2. Len(u \o out) = Len(u) + Len(out)
      BY <1>2, <2>1, Cat
    <3> QED
      BY <2>2, <3>1, <3>2
  <2> QED
    BY <2>3, <2>4, <2>5 DEF Pipe, u, z
<1> HIDE DEF t
<1>9. Flow(sent, (t \o wire) \o out, n + 1) /\ (open => ToLast(sent, (t \o wire) \o out, n + 1))
  <2> DEFINE p == Pipe
  <2>1. Flow(sent, p, n) /\ Len(p) >= SizeOf(sent, n) /\ (open => ToLast(sent, p, n))
    BY <1>7, <1>8
  <2> HIDE DEF p
  <2>2. /\ Flow(sent, DropFirst(p, SizeOf(sent, n)), n + 1)
        /\ open => ToLast(sent, DropFirst(p, SizeOf(sent, n)), n + 1)
    BY <1>2, <1>4, <2>1, FlowDropped
  <2> QED
    BY <1>8, <2>2 DEF p
<1>10. Pipe' = (t \o wire) \o out /\ Waiting' = n + 1 /\ status' = "success"
  BY <1>1, <1>2, <1>3, <1>6 DEF Pipe, Waiting
<1>11. InFlow'
  BY <1>2, <1>9, <1>10 DEF InFlow, Flow, ToLast, Follows, SizeOf
<1>12. MsgLenOf(in)' = MsgLenOf(in')
  BY <1>2 DEF MsgLenOf, MsgLen
<1>13. Buffers' /\ Phases'
  <2>1. insize' = insize /\ Len(in') <= insize /\ in' \in Seq(Byte)
    BY <1>1, <1>2, <1>3, <1>4, <1>5
  <2> QED
    BY <1>1, <1>2, <1>3, <1>6, <1>10, <1>12, <2>1 DEF SInv, Buffers, Phases
<1>14. Told'
  <2>1. oldbytes' = 0 /\ at' = "loop"
    BY <1>1 DEF SInv, Told
  <2> QED
    BY <1>1, <1>10, <2>1, Sizes DEF Told
<1> QED
  BY <1>11, <1>13, <1>14 DEF SInv

\* A step that leaves the bytes alone.
LEMMA AloneStep ==
  ASSUME SInv, UNCHANGED <<sent, out, outsize, open, wire, status, in, msglen, oldbytes, counted, got>>,
         insize' \in Nat, Len(in) <= insize', insize' <= MaxSize,
         at' \in {"select", "recv", "loop"}, status = "success" \/ at' = at,
         Told'
  PROVE  SInv'
<1>1. Fits(Out)' /\ MsgLenOf(in)' = MsgLenOf(in)
  BY DEF SInv, Buffers, Fits, Outs, Out, MsgLenOf, MsgLen
<1>2. Buffers' /\ Phases'
  BY <1>1 DEF SInv, Buffers, Phases
<1>3. InFlow'
  BY DEF SInv, InFlow, Flow, ToLast, Follows, SizeOf, Pipe, Waiting
<1> QED
  BY <1>2, <1>3 DEF SInv

\* What PeekMessage and HaveMessage say, when the head of in_buffer is the same.
LEMMA ToldSame ==
  ASSUME SInv, UNCHANGED <<sent, status, in, msglen, oldbytes, counted>>
  PROVE  /\ PeekMessage("piece")' <=> PeekMessage("piece")
         /\ HaveMessage(in, msglen)' = HaveMessage(in, msglen)
BY DEF PeekMessage, TypeAt, HaveMessage

\* The size of in_buffer.
LEMMA InsizeFacts ==
  ASSUME SInv
  PROVE  insize \in Nat /\ Len(in) \in Nat /\ Len(in) <= insize /\ insize <= MaxSize /\ wire \in Seq(Byte)
BY DEF SInv, Buffers, Fits, Outs, Out

\* Every step keeps the invariant.
LEMMA InvInductive ==
  ASSUME SInv, [Next]_vars
  PROVE  SInv'
<1>1. CASE \E kind \in Kinds : Send(kind)
  BY <1>1, SendStep
<1>2. CASE Flush
  <2>1. open /\ out # << >> /\ UNCHANGED <<sent, open, receiver>> /\ \E r \in 1 .. Len(out) : SetOut(Flushed(Out, r))
    BY <1>2 DEF Flush
  <2> QED
    BY <2>1, FlushedStep
<1>3. CASE ShrinkOut
  BY <1>3, ShrinkOutStep
<1>4. CASE CloseSender
  BY <1>4, CloseSenderStep
<1>5. CASE HandShake
  <2>1. status # "closed" /\ at # "loop" /\ Feed(0, 1) /\ UNCHANGED sender /\ 0 \in Nat
    BY <1>5 DEF HandShake
  <2> QED
    BY <2>1, FeedStep
<1>6. CASE RecvModule
  <2> DEFINE l == IF PeekMessage("piece") THEN 0 ELSE DefSize
  <2>1. status # "closed" /\ at # "loop" /\ Feed(l, 1) /\ UNCHANGED sender
    BY <1>6 DEF RecvModule
  <2>2. l \in Nat
    BY Sizes
  <2> HIDE DEF l
  <2> QED
    BY <2>1, <2>2, FeedStep
<1>7. CASE RecvAtOnce
  <2>1. at = "recv" /\ UNCHANGED sender /\ status = "success" /\ oldbytes = 0 /\ counted = 0
    BY <1>7 DEF RecvAtOnce, SInv, Phases, Told
  <2>2. CASE Feed(0, 0)
    BY <2>1, <2>2, FeedStep
  <2>3. CASE at' = "loop" /\ UNCHANGED <<wire, status, buffer, got>>
    <3>1. UNCHANGED <<sent, out, outsize, open, wire, status, in, insize, msglen, oldbytes, counted, got>> /\ at' = "loop"
      BY <2>1, <2>3 DEF sender, buffer
    <3>2. Told'
      BY <2>1, <3>1, Sizes DEF Told
    <3> QED
      BY <2>1, <3>1, <3>2, InsizeFacts, AloneStep
  <2> QED
    BY <1>7, <2>2, <2>3 DEF RecvAtOnce
<1>8. CASE Deliver
  BY <1>8, DeliverStep
<1>9. CASE Reject
  BY <1>9, InsizeFacts, CloseStep DEF Reject
<1>10. CASE Done
  <2>1. /\ at = "loop" /\ HaveMessage(in, msglen) = 0 /\ at' = "select"
        /\ UNCHANGED <<sent, out, outsize, open, wire, status, in, insize, msglen, oldbytes, counted, got>>
    BY <1>10 DEF Done, LoopEnds, sender, buffer
  <2>2. status = "success"
    BY <2>1 DEF SInv, Phases
  <2>3. Told'
    BY <2>1, <2>2, ToldSame DEF SInv, Told
  <2> QED
    BY <2>1, <2>2, <2>3, InsizeFacts, AloneStep
<1>11. CASE ShrinkIn
  <2>1. UNCHANGED <<sent, out, outsize, open, wire, status, in, msglen, oldbytes, counted, at, got>>
    BY <1>11 DEF ShrinkIn, sender
  <2>2. insize' \in Nat /\ Len(in) <= insize' /\ insize' <= MaxSize
    BY <1>11, InsizeFacts, Sizes DEF ShrinkIn
  <2>3. Told'
    BY <2>1, ToldSame DEF SInv, Told
  <2>4. at' \in {"select", "recv", "loop"} /\ at' = at
    BY <2>1 DEF SInv, Phases
  <2> QED
    BY <2>1, <2>2, <2>3, <2>4, AloneStep
<1>12. CASE Break
  <2>1. CloseReceiver /\ UNCHANGED sender /\ wire' = << >>
    BY <1>12 DEF Break
  <2> QED
    BY <2>1, CloseStep
<1>13. CASE UNCHANGED vars
  <2>1. UNCHANGED <<sent, out, outsize, open, wire, status, in, insize, msglen, oldbytes, counted, at, got>>
    BY <1>13 DEF vars, sender, receiver, buffer
  <2>2. Told'
    BY <2>1, ToldSame DEF SInv, Told
  <2>3. at' \in {"select", "recv", "loop"} /\ at' = at
    BY <2>1 DEF SInv, Phases
  <2> QED
    BY <2>1, <2>2, <2>3, InsizeFacts, AloneStep
<1> QED
  BY <1>1, <1>2, <1>3, <1>4, <1>5, <1>6, <1>7, <1>8, <1>9, <1>10, <1>11, <1>12, <1>13 DEF Next

\* It holds at the start, with the handshake in out_buffer.
LEMMA InvInit ==
  ASSUME Init
  PROVE  SInv
<1> DEFINE b == Bytes(0, 0, Shake)
<1>1. /\ sent = << >> /\ open = TRUE /\ out = b /\ outsize = DefSize /\ wire = << >>
      /\ status = "handshake" /\ in = << >> /\ insize = DefSize
      /\ msglen = 0 /\ oldbytes = 0 /\ counted = 0 /\ at = "select" /\ got = << >>
  BY DEF Init
<1>2. b \in Seq(Byte) /\ Len(b) = Shake
  BY Sizes, BytesFromStart
<1>3. sent \in Seq(Kinds) /\ Len(sent) = 0 /\ 0 \in 0 .. Len(sent) /\ SizeOf(sent, 0) = Shake
  <2>1. sent \in Seq(Kinds) /\ Len(sent) = 0
    BY <1>1
  <2> QED
    BY <2>1 DEF SizeOf
<1>4. Flow(sent, b, 0) /\ ToLast(sent, b, 0)
  <2>1. Shake \in Nat /\ Shake <= SizeOf(sent, 0)
    BY <1>3, Sizes
  <2> QED
    BY <1>3, <2>1, FlowOfMessage
<1> HIDE DEF b
<1>5. Pipe = b
  <2>1. << >> \o b = b /\ in \o wire = << >>
    BY <1>1, <1>2
  <2> QED
    BY <1>1, <2>1 DEF Pipe
<1>6. MsgLenOf(in) = 0
  BY <1>1, Sizes DEF MsgLenOf
<1>7. Fits(Out)
  BY <1>1, <1>2, Sizes DEF Fits, Outs, Out
<1>8. Buffers
  BY <1>1, <1>3, <1>6, <1>7, Sizes DEF Buffers
<1>9. Phases /\ InFlow
  BY <1>1, <1>4, <1>5, Sizes DEF Phases, InFlow, Waiting
<1>10. Told
  BY <1>1, Sizes DEF Told
<1> QED
  BY <1>8, <1>9, <1>10 DEF SInv

\* It always holds.
LEMMA InvHolds == Spec => []SInv
<1>1. Init => SInv
  BY InvInit
<1>2. SInv /\ [Next]_vars => SInv'
  BY InvInductive
<1> QED
  BY <1>1, <1>2, PTL DEF Spec

\* m_msglen is always the length of the message at the head of in_buffer, no whole
\* message waits there while select sleeps, and PeekNextMessage sees a CHOKE behind the
\* message at the head if and only if its type is there (btStream and btPeer::RecvModule).
THEOREM FramingKept == Spec => []Framing
BY InvHolds, InvFraming, PTL

\* m_oldbytes never exceeds what there is of the piece at the head, so that the difference
\* RateAdd is given never wraps, and a whole piece is told as Slice bytes (btStream::Feed).
THEOREM RateTold == Spec => []RateExact
BY InvHolds, InvRateExact, PTL

\* Which steps are steps of the channel.
LEMMA StepInOrder ==
  ASSUME SInv, [Next]_vars
  PROVE  [Ordered!Next]_<<sent, got>>
<1>1. CASE \E kind \in Kinds : Send(kind)
  BY <1>1 DEF Send, receiver, Ordered!Next, Ordered!Send
<1>2. CASE Deliver
  <2>1. Len(got) + 1 \in 1 .. Len(sent) /\ got' = Append(got, sent[Len(got) + 1])
    BY <1>2, DeliverFacts
  <2>2. sent' = sent
    BY <1>2 DEF Deliver, sender
  <2>3. Len(got) < Len(sent)
    BY <2>1 DEF SInv, Buffers
  <2> QED
    BY <2>1, <2>2, <2>3 DEF Ordered!Next, Ordered!Receive
<1>3. CASE Flush \/ ShrinkOut \/ CloseSender
  BY <1>3 DEF Flush, ShrinkOut, CloseSender, receiver
<1>4. CASE HandShake \/ RecvModule \/ RecvAtOnce
  <2>1. UNCHANGED sender
    BY <1>4 DEF HandShake, RecvModule, RecvAtOnce
  <2>2. ASSUME NEW limit, NEW least, Feed(limit, least) PROVE got' = got
    BY <2>2 DEF Feed, CloseReceiver, FedShake, Fed
  <2>3. got' = got
    BY <1>4, <2>2 DEF HandShake, RecvModule, RecvAtOnce
  <2> QED
    BY <2>1, <2>3 DEF sender
<1>5. CASE Reject \/ Done \/ ShrinkIn \/ Break
  BY <1>5 DEF Reject, Done, ShrinkIn, Break, CloseReceiver, sender
<1>6. CASE UNCHANGED vars
  BY <1>6 DEF vars, sender, receiver
<1> QED
  BY <1>1, <1>2, <1>3, <1>4, <1>5, <1>6 DEF Next

\* Messages are delivered whole, in the order sent, none twice and none left out, however the
\* sockets cut the stream, until the connection is closed: Stream implements Channel.
THEOREM StreamIsChannel == Spec => InOrder
<1>1. Init => Ordered!Init
  BY DEF Init, Ordered!Init
<1>2. SInv /\ [Next]_vars => [Ordered!Next]_<<sent, got>>
  BY StepInOrder
<1> QED
  BY <1>1, <1>2, InvHolds, PTL DEF Spec, InOrder, Ordered!Spec
=============================================================================
