--------------------------- MODULE DownloadProofs ---------------------------
(***************************************************************************)
(* The request queues, for any peers, pieces and slices to a piece.        *)
(*                                                                         *)
(* Download's handlers are operators from a state to the set of states     *)
(* they may leave, so the inductive invariant is a set of states, Worlds,  *)
(* and the proof has a lemma for every handler: from a state of Worlds it  *)
(* goes to states of Worlds.  What is in Worlds is of two kinds.  Every    *)
(* queue is in order by itself (Typed): a piece is in one run (Lists), no  *)
(* slice is in it twice, and the cursor divides it (Divided); there is a   *)
(* lemma for every operation of a queue saying what it makes of that.  And *)
(* the queues, the marks, the count of duplicates and what is saved fit    *)
(* together (Almost); most handlers only take lists away (Shed) or move    *)
(* them (Swapped), which keeps that.  Loops are recursive functions; what  *)
(* holds after them is shown by the first round it would not hold after.   *)
(***************************************************************************)
EXTENDS Download, WellFoundedInduction, FiniteSetTheorems, SequenceTheorems, TLAPS

\* A set of numbers that is not empty has a least one.
LEMMA LeastNumber ==
  ASSUME NEW T \in SUBSET Nat, T # {}
  PROVE  \E n \in T : \A m \in T : n <= m
<1> DEFINE R == OpToRel(<, Nat)
<1>1. IsWellFoundedOn(R, Nat)
  BY NatLessThanWellFounded, Zenon
<1>2. \A m, n \in Nat : <<m, n>> \in R <=> m < n
  BY DEF OpToRel
<1> HIDE DEF R
<1>3. \E n \in T : \A m \in T : ~ (<<m, n>> \in R)
  BY <1>1, WFMin, Zenon
<1>4. PICK n \in T : \A m \in T : ~ (<<m, n>> \in R)
  BY <1>3
<1>5. ASSUME NEW m \in T
      PROVE  n <= m
  <2>1. ~ (m < n)
    BY <1>2, <1>4
  <2> QED
    BY <2>1
<1> QED
  BY <1>5

\* A bounded set of numbers has a greatest one.
LEMMA GreatestOne ==
  ASSUME NEW S \in SUBSET Nat, S # {}, NEW top \in Nat, \A y \in S : y <= top
  PROVE  \E x \in S : \A y \in S : y <= x
<1> DEFINE T == {n \in Nat : \A y \in S : y <= n}
<1>1. T # {} /\ T \in SUBSET Nat
  OBVIOUS
<1>2. PICK n \in T : \A m \in T : n <= m
  <2> HIDE DEF T
  <2> QED
    BY <1>1, LeastNumber
<1>3. n \in S
  <2>1. CASE n = 0
    <3>1. PICK y \in S : TRUE
      OBVIOUS
    <3>2. y \in Nat /\ y <= n
      BY <1>2
    <3> QED
      BY <2>1, <3>1, <3>2
  <2>2. CASE n # 0
    <3>1. n \in Nat /\ n - 1 \in Nat /\ ~ (n <= n - 1)
      BY <1>2, <2>2
    <3>2. n - 1 \notin T
      BY <1>2, <3>1
    <3>3. PICK y \in S : ~ (y <= n - 1)
      BY <3>1, <3>2
    <3>4. y <= n /\ y \in Nat
      BY <1>2
    <3> QED
      BY <3>1, <3>3, <3>4
  <2> QED
    BY <2>1, <2>2
<1> QED
  BY <1>2, <1>3

-----------------------------------------------------------------------------
(* Loops.                                                                  *)

\* f[n] is what n steps of a loop make of base; G[n] is what the n-th step does.
Recursion(f, base, G, N) == f = [n \in 0 .. N |-> IF n = 0 THEN base ELSE G[n][f[n - 1]]]

\* There is such a function: the least N for which there is none has a predecessor.
LEMMA LoopExists ==
  ASSUME NEW N \in Nat, NEW base, NEW G
  PROVE  \E f : Recursion(f, base, G, N)
<1> DEFINE ok(n) == \E f : Recursion(f, base, G, n)
           T == {n \in Nat : ~ ok(n)}
<1> SUFFICES ASSUME T # {} PROVE FALSE
  OBVIOUS
<1>1. PICK n \in T : \A m \in T : n <= m
  <2>1. T \in SUBSET Nat
    OBVIOUS
  <2> HIDE DEF T
  <2> QED
    BY <2>1, LeastNumber
<1>2. n \in Nat /\ ~ ok(n)
  BY <1>1
<1>3. CASE n = 0
  <2> DEFINE f == [i \in 0 .. 0 |-> base]
  <2>1. Recursion(f, base, G, 0)
    BY DEF Recursion
  <2> QED
    BY <1>2, <1>3, <2>1
<1>4. CASE n # 0
  <2>1. n - 1 \in Nat /\ ~ (n <= n - 1)
    BY <1>2, <1>4
  <2>2. ok(n - 1)
    <3>1. n - 1 \notin T
      BY <1>1, <2>1
    <3> HIDE DEF ok
    <3> QED
      BY <2>1, <3>1
  <2>3. PICK g : Recursion(g, base, G, n - 1)
    BY <2>2
  <2> DEFINE f == [i \in 0 .. n |-> IF i < n THEN g[i] ELSE G[n][g[n - 1]]]
  <2>4. ASSUME NEW i \in 0 .. n
        PROVE  f[i] = IF i = 0 THEN base ELSE G[i][f[i - 1]]
    <3>1. g = [k \in 0 .. n - 1 |-> IF k = 0 THEN base ELSE G[k][g[k - 1]]]
      BY <2>3 DEF Recursion
    <3>2. CASE i = n
      <4>1. f[i] = G[n][g[n - 1]] /\ f[i - 1] = g[n - 1]
        BY <1>2, <1>4, <3>2
      <4> QED
        BY <1>4, <3>2, <4>1
    <3>3. CASE i # n
      <4>1. i \in 0 .. n - 1 /\ f[i] = g[i]
        BY <1>2, <3>3
      <4>2. i # 0 => f[i - 1] = g[i - 1]
        BY <1>2, <3>3
      <4>3. g[i] = IF i = 0 THEN base ELSE G[i][g[i - 1]]
        BY <3>1, <4>1
      <4> QED
        BY <4>1, <4>2, <4>3
    <3> QED
      BY <3>2, <3>3
  <2>5. f = [i \in 0 .. n |-> IF i = 0 THEN base ELSE G[i][f[i - 1]]]
    <3>1. f = [i \in 0 .. n |-> f[i]]
      OBVIOUS
    <3> HIDE DEF f
    <3> QED
      BY <2>4, <3>1
  <2>6. Recursion(f, base, G, n)
    <3> HIDE DEF f
    <3> QED
      BY <2>5 DEF Recursion
  <2> HIDE DEF f
  <2> QED
    BY <1>2, <2>6
<1> QED
  BY <1>3, <1>4

\* What holds at first, and after each step if before, holds throughout.
LEMMA LoopWithin ==
  ASSUME NEW N \in Nat, NEW f, NEW D, f[0] \in D[0],
         \A n \in 1 .. N : f[n - 1] \in D[n - 1] => f[n] \in D[n]
  PROVE  \A n \in 0 .. N : f[n] \in D[n]
<1> DEFINE T == {n \in Nat : n <= N /\ f[n] \notin D[n]}
<1> SUFFICES ASSUME T # {} PROVE FALSE
  OBVIOUS
<1>1. PICK n \in T : \A m \in T : n <= m
  <2>1. T \in SUBSET Nat
    OBVIOUS
  <2> HIDE DEF T
  <2> QED
    BY <2>1, LeastNumber
<1>2. n \in Nat /\ n <= N /\ f[n] \notin D[n]
  BY <1>1
<1>3. n # 0
  BY <1>2
<1>4. n - 1 \in Nat /\ n - 1 <= N /\ ~ (n <= n - 1) /\ n \in 1 .. N
  BY <1>2, <1>3
<1>5. n - 1 \notin T
  BY <1>1, <1>4
<1>6. f[n - 1] \in D[n - 1]
  BY <1>4, <1>5
<1> QED
  BY <1>2, <1>4, <1>6

\* A loop whose n-th step leads from D[n - 1] to D[n] is a function, and ends in D[N].
LEMMA LoopSound ==
  ASSUME NEW N \in Nat, NEW D, NEW base, base \in D[0], NEW G,
         \A n \in 1 .. N : \A x \in D[n - 1] : G[n][x] \in D[n]
  PROVE  \E f : Recursion(f, base, G, N) /\ \A n \in 0 .. N : f[n] \in D[n]
<1>1. PICK f : Recursion(f, base, G, N)
  BY LoopExists
<1>2. f[0] \in D[0]
  BY <1>1 DEF Recursion
<1>3. ASSUME NEW n \in 1 .. N, f[n - 1] \in D[n - 1] PROVE f[n] \in D[n]
  <2>1. f[n] = G[n][f[n - 1]]
    BY <1>1 DEF Recursion
  <2> QED
    BY <1>3, <2>1
<1> QED
  BY <1>1, <1>2, <1>3, LoopWithin

-----------------------------------------------------------------------------
(* What a queue may look like.                                             *)

Request == [piece : Pieces, off : Offsets, sent : BOOLEAN]

\* No slice is listed twice, and those of one piece are next to each other.
Shape(l) ==
  \A j, k \in 1 .. Len(l) : j < k /\ l[j].piece = l[k].piece =>
    l[j].off # l[k].off /\ \A m \in j .. k : l[m].piece = l[j].piece
Lists  == {l \in Seq(Request) : Shape(l)}
Queues == {q \in [list : Lists, next : Nat] : q.next <= Len(q.list)}

\* What was sent comes before the cursor, what was not from there on.
Divided(q) == \A k \in 1 .. Len(q.list) : q.list[k].sent <=> q.next = 0 \/ k < q.next
PeerQueues == {q \in Queues : Divided(q)}

\* Nothing of it was sent.
Parked == {q \in Queues : \A k \in 1 .. Len(q.list) : ~ q.list[k].sent}

\* The slices of piece i that a queue lists.
Offs(q, i) == {q.list[k].off : k \in Where(q, i)}

\* Two sets of the same elements are one.
LEMMA Same ==
  ASSUME NEW A, NEW B, \A o : o \in A <=> o \in B
  PROVE  A = B
OBVIOUS

\* The number of requests that were sent.
Owed(q) == IF q.next = 0 THEN Len(q.list) ELSE q.next - 1

\* What a queue is made of.
LEMMA QueueIs ==
  ASSUME NEW q \in Queues
  PROVE  /\ q.list \in Seq(Request) /\ Len(q.list) \in Nat /\ DOMAIN q.list = 1 .. Len(q.list)
         /\ q.next \in Nat /\ q.next <= Len(q.list) /\ Shape(q.list)
         /\ \A k \in 1 .. Len(q.list) : /\ q.list[k] \in Request /\ q.list[k].piece \in Pieces
                                        /\ q.list[k].off \in Offsets /\ q.list[k].sent \in BOOLEAN
         /\ q = [list |-> q.list, next |-> q.next]
<1>1. q \in [list : Lists, next : Nat] /\ q.next <= Len(q.list) /\ q.list \in Seq(Request) /\ Shape(q.list)
  BY DEF Queues, Lists
<1>2. \A k \in 1 .. Len(q.list) : q.list[k] \in Request
  BY <1>1
<1>3. \A r \in Request : r.piece \in Pieces /\ r.off \in Offsets /\ r.sent \in BOOLEAN
  BY DEF Request
<1>4. Len(q.list) \in Nat /\ DOMAIN q.list = 1 .. Len(q.list)
  BY <1>1
<1>5. q = [list |-> q.list, next |-> q.next] /\ q.next \in Nat
  BY <1>1
<1> HIDE DEF Shape
<1> QED
  BY <1>1, <1>2, <1>3, <1>4, <1>5

\* Where a piece of the queue begins and ends.
LEMMA RunIs ==
  ASSUME NEW q \in Queues, NEW i, HasPiece(q, i)
  PROVE  /\ First(q, i) \in 1 .. Len(q.list) /\ Last(q, i) \in 1 .. Len(q.list)
         /\ First(q, i) <= Last(q, i)
         /\ Where(q, i) = First(q, i) .. Last(q, i)
         /\ \A k \in 1 .. Len(q.list) : q.list[k].piece = i <=> k \in First(q, i) .. Last(q, i)
<1> DEFINE W == Where(q, i)
           n == Len(q.list)
<1>1. /\ W \in SUBSET Nat /\ W # {} /\ \A k \in W : k <= n
      /\ n \in Nat /\ W = {k \in 1 .. n : q.list[k].piece = i}
  BY QueueIs DEF HasPiece, Where
<1> HIDE DEF W, n
<1>2. PICK a \in W : \A k \in W : a <= k
  BY <1>1, LeastNumber
<1>3. PICK b \in W : \A k \in W : k <= b
  <2>1. \E x \in W : \A y \in W : y <= x
    BY <1>1, GreatestOne
  <2> QED
    BY <2>1
<1>4. First(q, i) \in W /\ \A j \in 1 .. First(q, i) - 1 : q.list[j].piece # i
  <2>1. ASSUME NEW j \in 1 .. a - 1, q.list[j].piece = i PROVE FALSE
    BY <1>1, <1>2, <2>1
  <2>2. \E k \in W : \A j \in 1 .. k - 1 : q.list[j].piece # i
    BY <2>1
  <2> QED
    BY <2>2 DEF First, W
<1>5. Last(q, i) \in W /\ \A j \in Last(q, i) + 1 .. n : q.list[j].piece # i
  <2>1. ASSUME NEW j \in b + 1 .. n, q.list[j].piece = i PROVE FALSE
    <3>1. j \in W
      BY <1>1, <1>3, <2>1
    <3> QED
      BY <1>1, <1>3, <3>1
  <2>2. \E k \in W : \A j \in k + 1 .. n : q.list[j].piece # i
    BY <2>1
  <2> QED
    BY <2>2 DEF Last, W, n
<1> DEFINE f == First(q, i)
           l == Last(q, i)
<1> HIDE DEF f, l
<1>6. f \in 1 .. n /\ l \in 1 .. n /\ q.list[f].piece = i /\ q.list[l].piece = i
  BY <1>1, <1>4, <1>5 DEF f, l
<1>7. ASSUME NEW k \in 1 .. n, q.list[k].piece = i PROVE k \in f .. l
  BY <1>4, <1>5, <1>6, <1>7 DEF f, l
<1>8. f <= l
  BY <1>6, <1>7
<1>9. ASSUME NEW k \in f .. l PROVE q.list[k].piece = i
  <2>1. CASE f = l
    BY <1>6, <1>9, <2>1
  <2>2. CASE f # l
    <3>1. f < l
      BY <1>6, <1>8, <2>2
    <3>2. Shape(q.list)
      BY QueueIs
    <3> QED
      BY <1>6, <1>9, <3>1, <3>2 DEF Shape, n
  <2> QED
    BY <2>1, <2>2
<1>10. W = f .. l
  BY <1>1, <1>6, <1>7, <1>9
<1> QED
  BY <1>1, <1>6, <1>7, <1>8, <1>9, <1>10 DEF f, l, n, W

\* What a queue lists of a piece.
LEMMA OffsIs ==
  ASSUME NEW q \in Queues, NEW i
  PROVE  /\ \A o : o \in Offs(q, i) <=> \E k \in 1 .. Len(q.list) : q.list[k].piece = i /\ q.list[k].off = o
         /\ HasPiece(q, i) <=> Offs(q, i) # {}
         /\ \A o : HasSlice(q, i, o) <=> o \in Offs(q, i)
         /\ Offs(q, i) \in SUBSET Offsets
<1>1. DOMAIN q.list = 1 .. Len(q.list) /\ \A k \in 1 .. Len(q.list) : q.list[k].off \in Offsets
  BY QueueIs
<1> QED
  BY <1>1 DEF Offs, Where, HasPiece, HasSlice, At

-----------------------------------------------------------------------------
(* Slices leave a queue.                                                   *)

\* Elements of two sequences joined.
LEMMA Cat ==
  ASSUME NEW X, NEW s \in Seq(X), NEW t \in Seq(X)
  PROVE  /\ s \o t \in Seq(X) /\ Len(s \o t) = Len(s) + Len(t)
         /\ \A i \in 1 .. Len(s) : (s \o t)[i] = s[i]
         /\ \A i \in Len(s) + 1 .. Len(s) + Len(t) : (s \o t)[i] = t[i - Len(s)]
OBVIOUS

Cut(s, l, h) == SubSeq(s, 1, l - 1) \o SubSeq(s, h + 1, Len(s))
IsCut(c, s, l, h) ==
  /\ c \in Seq(Request) /\ Len(c) = Len(s) - (h - l + 1)
  /\ \A k \in 1 .. Len(c) : /\ k < l => c[k] = s[k]
                            /\ ~ (k < l) => c[k] = s[k + (h - l + 1)]

\* Elements of a sequence without those from the l-th to the h-th.
LEMMA CutIs ==
  ASSUME NEW s \in Seq(Request), NEW l \in 1 .. Len(s), NEW h \in l .. Len(s),
         NEW c, c = Cut(s, l, h)
  PROVE  IsCut(c, s, l, h)
<1> DEFINE a == SubSeq(s, 1, l - 1)
           b == SubSeq(s, h + 1, Len(s))
<1>1. \A k \in 1 .. Len(s) : s[k] \in Request
  OBVIOUS
<1>2. /\ a \in Seq(Request) /\ Len(a) = l - 1 /\ \A k \in 1 .. l - 1 : a[k] = s[k]
  <2>1. /\ 1 \in Int /\ l - 1 \in Int /\ \A k \in 1 .. l - 1 : s[k] \in Request
    BY <1>1
  <2>2. /\ a \in Seq(Request) /\ Len(a) = IF 1 <= l - 1 THEN l - 1 - 1 + 1 ELSE 0
        /\ \A k \in 1 .. l - 1 - 1 + 1 : a[k] = s[1 + k - 1]
    BY <2>1, SubSeqProperties
  <2> HIDE DEF a
  <2> QED
    BY <2>2
<1>3. /\ b \in Seq(Request) /\ Len(b) = Len(s) - h /\ \A k \in 1 .. Len(s) - h : b[k] = s[h + k]
  <2>1. /\ h + 1 \in Int /\ Len(s) \in Int /\ \A k \in h + 1 .. Len(s) : s[k] \in Request
    BY <1>1
  <2>2. /\ b \in Seq(Request) /\ Len(b) = IF h + 1 <= Len(s) THEN Len(s) - (h + 1) + 1 ELSE 0
        /\ \A k \in 1 .. Len(s) - (h + 1) + 1 : b[k] = s[h + 1 + k - 1]
    BY <2>1, SubSeqProperties
  <2> HIDE DEF b
  <2> QED
    BY <2>2
<1> HIDE DEF a, b
<1>4. /\ a \o b \in Seq(Request) /\ Len(a \o b) = Len(a) + Len(b)
      /\ \A k \in 1 .. Len(a) : (a \o b)[k] = a[k]
      /\ \A k \in Len(a) + 1 .. Len(a) + Len(b) : (a \o b)[k] = b[k - Len(a)]
  <2>1. a \in Seq(Request) /\ b \in Seq(Request)
    BY <1>2, <1>3
  <2> QED
    BY <2>1, Cat
<1>5. c = a \o b
  BY DEF a, b, Cut
<1>6. c \in Seq(Request) /\ Len(c) = Len(s) - (h - l + 1) /\ Len(s) \in Nat /\ l \in 1 .. Len(s) /\ h \in l .. Len(s)
  <2>1. Len(c) = (l - 1) + (Len(s) - h) /\ Len(s) \in Nat
    BY <1>2, <1>3, <1>4, <1>5
  <2> QED
    BY <1>4, <1>5, <2>1
<1>7. ASSUME NEW k \in 1 .. Len(c), k < l PROVE c[k] = s[k]
  <2>1. k \in 1 .. Len(a) /\ k \in 1 .. l - 1
    BY <1>2, <1>6, <1>7
  <2> QED
    BY <1>2, <1>4, <1>5, <2>1
<1>8. ASSUME NEW k \in 1 .. Len(c), ~ (k < l) PROVE c[k] = s[k + (h - l + 1)]
  <2>1. /\ k \in Len(a) + 1 .. Len(a) + Len(b) /\ k - Len(a) \in 1 .. Len(s) - h
        /\ h + (k - Len(a)) = k + (h - l + 1)
    BY <1>2, <1>3, <1>6, <1>8
  <2>2. c[k] = b[k - Len(a)]
    BY <1>4, <1>5, <2>1
  <2>3. b[k - Len(a)] = s[h + (k - Len(a))]
    BY <1>3, <2>1
  <2> QED
    BY <2>1, <2>2, <2>3
<1> QED
  BY <1>6, <1>7, <1>8 DEF IsCut

\* A list that picks some of another's slices, in their order, and perhaps marks them, has the shape.
LEMMA ShapeKept ==
  ASSUME NEW l \in Lists, NEW c \in Seq(Request), NEW g \in [1 .. Len(c) -> 1 .. Len(l)],
         \A k \in 1 .. Len(c) : c[k].piece = l[g[k]].piece /\ c[k].off = l[g[k]].off,
         \A j, k \in 1 .. Len(c) : j < k => g[j] < g[k]
  PROVE  c \in Lists
<1>1. Shape(l)
  BY DEF Lists
<1>2. ASSUME NEW j \in 1 .. Len(c), NEW k \in 1 .. Len(c), j < k, c[j].piece = c[k].piece
      PROVE  c[j].off # c[k].off /\ \A m \in j .. k : c[m].piece = c[j].piece
  <2>1. g[j] \in 1 .. Len(l) /\ g[k] \in 1 .. Len(l) /\ g[j] < g[k] /\ l[g[j]].piece = l[g[k]].piece
    BY <1>2
  <2>2. l[g[j]].off # l[g[k]].off /\ \A m \in g[j] .. g[k] : l[m].piece = l[g[j]].piece
    BY <1>1, <2>1 DEF Shape
  <2>3. ASSUME NEW m \in j .. k PROVE c[m].piece = c[j].piece
    <3>1. m \in 1 .. Len(c) /\ (j < m \/ j = m) /\ (m < k \/ m = k)
      BY <1>2, <2>3
    <3>2. g[m] \in 1 .. Len(l) /\ (g[j] < g[m] \/ g[j] = g[m]) /\ (g[m] < g[k] \/ g[m] = g[k])
      BY <3>1
    <3>3. g[m] \in g[j] .. g[k]
      BY <2>1, <3>2
    <3> QED
      BY <2>2, <3>1, <3>3
  <2> QED
    BY <2>2, <2>3
<1> QED
  BY <1>2 DEF Lists, Shape

\* A run taken out of a queue leaves a queue, with what was sent of it less owed.
LEMMA WithoutIs ==
  ASSUME NEW q \in Queues, NEW l \in 1 .. Len(q.list), NEW h \in l .. Len(q.list)
  PROVE  /\ Without(q, l, h) \in Queues
         /\ q \in Parked => Without(q, l, h) \in Parked
         /\ q \in PeerQueues =>
              /\ Without(q, l, h) \in PeerQueues
              /\ LET n == {k \in l .. h : q.list[k].sent}
                 IN  Cardinality(n) \in Nat /\ Owed(Without(q, l, h)) = Owed(q) - Cardinality(n)
         /\ \A i, o : o \in Offs(Without(q, l, h), i) <=>
              \E k \in 1 .. Len(q.list) : (k < l \/ h < k) /\ q.list[k].piece = i /\ q.list[k].off = o
<1> DEFINE s == q.list
           d == h - l + 1
           c == Cut(s, l, h)
           x == IF q.next < l THEN q.next
                ELSE IF q.next > h THEN q.next - d
                ELSE IF h < Len(s) THEN l ELSE 0
           g == [k \in 1 .. Len(c) |-> IF k < l THEN k ELSE k + d]
<1>1. /\ s \in Seq(Request) /\ Len(s) \in Nat /\ q.next \in Nat /\ q.next <= Len(s) /\ s \in Lists
      /\ \A k \in 1 .. Len(s) : s[k] \in Request /\ s[k].sent \in BOOLEAN
  BY QueueIs DEF Queues
<1>2. Without(q, l, h) = [list |-> c, next |-> x]
  BY DEF Without, Cut
<1> HIDE DEF s
<1>3. /\ c \in Seq(Request) /\ Len(c) = Len(s) - d
      /\ \A k \in 1 .. Len(c) : c[k] = IF k < l THEN s[k] ELSE s[k + d]
  <2>1. l \in 1 .. Len(s) /\ h \in l .. Len(s)
    BY DEF s
  <2> QED
    <3>1. s \in Seq(Request) /\ c = Cut(s, l, h)
      BY <1>1 DEF c
    <3> HIDE DEF c, d, x, g
    <3>2. IsCut(c, s, l, h)
      BY <2>1, <3>1, CutIs, Zenon
    <3> QED
      BY <3>2 DEF d, IsCut
<1> HIDE DEF c
<1>4. d \in Nat /\ d > 0 /\ l \in 1 .. Len(s) /\ h \in l .. Len(s) /\ Len(c) \in Nat
  BY <1>1, <1>3 DEF s
<1>5. x \in Nat /\ x <= Len(c)
  BY <1>1, <1>3, <1>4, SMTT(60)
<1>6. c \in Lists
  <2>1. g \in [1 .. Len(c) -> 1 .. Len(s)]
    BY <1>1, <1>3, <1>4
  <2>2. ASSUME NEW k \in 1 .. Len(c) PROVE c[k] = s[g[k]]
    BY <1>3
  <2>3. ASSUME NEW j \in 1 .. Len(c), NEW k \in 1 .. Len(c), j < k PROVE g[j] < g[k]
    BY <1>4, <2>3
  <2> HIDE DEF g
  <2> QED
    BY <1>1, <1>3, <2>1, <2>2, <2>3, ShapeKept
<1>7. [list |-> c, next |-> x] \in Queues
  BY <1>5, <1>6 DEF Queues
<1>8. ASSUME q \in Parked PROVE [list |-> c, next |-> x] \in Parked
  <2>1. \A k \in 1 .. Len(s) : ~ s[k].sent
    BY <1>8 DEF Parked, s
  <2>2. ASSUME NEW k \in 1 .. Len(c) PROVE ~ c[k].sent
    <3>1. \E m \in 1 .. Len(s) : c[k] = s[m]
      <4>1. CASE k < l
        BY <1>3, <1>4, <4>1
      <4>2. CASE ~ (k < l)
        <5>1. c[k] = s[k + d] /\ k + d \in 1 .. Len(s)
          BY <1>3, <1>4, <4>2
        <5> QED
          BY <5>1
      <4> QED
        BY <4>1, <4>2
    <3> QED
      BY <2>1, <3>1
  <2> QED
    BY <1>7, <2>2 DEF Parked
<1>9. ASSUME q \in PeerQueues
      PROVE  [list |-> c, next |-> x] \in PeerQueues
  <2>1. \A k \in 1 .. Len(s) : s[k].sent <=> q.next = 0 \/ k < q.next
    BY <1>9 DEF PeerQueues, Divided, s
  <2>2. ASSUME NEW k \in 1 .. Len(c) PROVE c[k].sent <=> x = 0 \/ k < x
    <3>1. CASE k < l
      <4>1. c[k] = s[k] /\ k \in 1 .. Len(s)
        BY <1>3, <1>4, <3>1
      <4> QED
        BY <1>1, <1>3, <1>4, <2>1, <3>1, <4>1
    <3>2. CASE ~ (k < l)
      <4>1. c[k] = s[k + d] /\ k + d \in 1 .. Len(s)
        BY <1>3, <1>4, <3>2
      <4>2. c[k].sent <=> q.next = 0 \/ k + d < q.next
        BY <2>1, <4>1
      <4> QED
        BY <1>1, <1>3, <1>4, <3>2, <4>2, SMTT(60)
    <3> QED
      BY <3>1, <3>2
  <2> HIDE DEF x
  <2> QED
    BY <1>7, <2>2 DEF PeerQueues, Divided
<1>10. ASSUME q \in PeerQueues
       PROVE  LET n == {k \in l .. h : q.list[k].sent}
              IN  Cardinality(n) \in Nat /\ Owed([list |-> c, next |-> x]) = Owed(q) - Cardinality(n)
  <2> DEFINE n == {k \in l .. h : q.list[k].sent}
             e == IF q.next = 0 \/ h < q.next THEN h ELSE q.next - 1
  <2>1. \A k \in 1 .. Len(s) : s[k].sent <=> q.next = 0 \/ k < q.next
    BY <1>10 DEF PeerQueues, Divided, s
  <2>2. n = l .. e
    <3>1. n = {k \in l .. h : q.next = 0 \/ k < q.next}
      BY <1>4, <2>1 DEF s
    <3>2. {k \in l .. h : q.next = 0 \/ k < q.next} = l .. e
      BY <1>1, <1>4
    <3> QED
      BY <3>1, <3>2
  <2>3. Cardinality(n) = IF l > e THEN 0 ELSE e - l + 1
    <3>1. l \in Int /\ e \in Int
      BY <1>1, <1>4
    <3> HIDE DEF n, e
    <3> QED
      BY <2>2, <3>1, FS_Interval
  <2> HIDE DEF n
  <2>4. Owed([list |-> c, next |-> x]) = IF x = 0 THEN Len(c) ELSE x - 1
    BY DEF Owed
  <2>5. Owed(q) = IF q.next = 0 THEN Len(s) ELSE q.next - 1
    BY DEF Owed, s
  <2>6. Cardinality(n) \in Nat
    BY <1>1, <1>4, <2>3
  <2>7. Owed([list |-> c, next |-> x]) = Owed(q) - Cardinality(n)
    <3>1. CASE q.next = 0
      BY <1>1, <1>3, <1>4, <2>3, <2>4, <2>5, <3>1
    <3>2. CASE q.next > h
      BY <1>1, <1>3, <1>4, <2>3, <2>4, <2>5, <3>2
    <3>3. CASE q.next # 0 /\ q.next < l
      BY <1>1, <1>3, <1>4, <2>3, <2>4, <2>5, <3>3
    <3>4. CASE l <= q.next /\ q.next <= h
      BY <1>1, <1>3, <1>4, <2>3, <2>4, <2>5, <3>4
    <3> QED
      BY <1>1, <1>4, <3>1, <3>2, <3>3, <3>4
  <2> QED
    BY <2>6, <2>7 DEF n
<1>11. ASSUME NEW i, NEW o
       PROVE  o \in Offs([list |-> c, next |-> x], i) <=>
                \E k \in 1 .. Len(q.list) : (k < l \/ h < k) /\ q.list[k].piece = i /\ q.list[k].off = o
  <2>1. o \in Offs([list |-> c, next |-> x], i) <=> \E k \in 1 .. Len(c) : c[k].piece = i /\ c[k].off = o
    <3> DEFINE u == [list |-> c, next |-> x]
    <3>1. u \in Queues /\ u.list = c
      BY <1>7
    <3> HIDE DEF u
    <3> QED
      BY <3>1, OffsIs DEF u
  <2>2. ASSUME NEW k \in 1 .. Len(c)
        PROVE  \E m \in 1 .. Len(s) : (m < l \/ h < m) /\ c[k] = s[m]
    <3>1. CASE k < l
      BY <1>3, <1>4, <3>1
    <3>2. CASE ~ (k < l)
      <4>1. c[k] = s[k + d] /\ k + d \in 1 .. Len(s) /\ h < k + d
        BY <1>3, <1>4, <3>2
      <4> QED
        BY <4>1
    <3> QED
      BY <3>1, <3>2
  <2>3. ASSUME NEW m \in 1 .. Len(s), m < l \/ h < m
        PROVE  \E k \in 1 .. Len(c) : c[k] = s[m]
    <3>1. CASE m < l
      <4>1. m \in 1 .. Len(c)
        BY <1>1, <1>3, <1>4, <3>1
      <4> QED
        BY <1>3, <3>1, <4>1
    <3>2. CASE h < m
      <4>1. m - d \in 1 .. Len(c) /\ ~ (m - d < l) /\ m - d + d = m
        BY <1>1, <1>3, <1>4, <3>2
      <4> QED
        BY <1>3, <4>1
    <3> QED
      BY <2>3, <3>1, <3>2
  <2> QED
    BY <2>1, <2>2, <2>3, ZenonT(60) DEF s
<1> QED
  BY <1>2, <1>7, <1>8, <1>9, <1>10, <1>11

\* Nothing of the piece was sent.
Fresh(q, i) == \A k \in 1 .. Len(q.list) : q.list[k].piece = i => ~ q.list[k].sent

\* Slices of piece i, as they lie in a queue.
Runs(i) ==
  {s \in Seq(Request) : /\ s # << >>
                        /\ \A k \in 1 .. Len(s) : s[k].piece = i
                        /\ \A j, k \in 1 .. Len(s) : j < k => s[j].off # s[k].off
                        /\ \A j, k \in 1 .. Len(s) : j < k /\ s[k].sent => s[j].sent}

\* A piece is in a queue when a slice of it is.
LEMMA HasIs ==
  ASSUME NEW q \in Queues, NEW i
  PROVE  HasPiece(q, i) <=> \E k \in 1 .. Len(q.list) : q.list[k].piece = i
BY QueueIs DEF HasPiece, Where

\* The slices of a piece, taken together, are a run of it.
LEMMA SegmentIs ==
  ASSUME NEW q \in PeerQueues \union Parked, NEW i, HasPiece(q, i)
  PROVE  /\ Segment(q, i) \in Runs(i)
         /\ \A o : o \in Offs(q, i) <=> \E k \in 1 .. Len(Segment(q, i)) : Segment(q, i)[k].off = o
<1> DEFINE s == q.list
           f == First(q, i)
           l == Last(q, i)
           c == SubSeq(s, f, l)
<1>1. q \in Queues
  BY DEF PeerQueues, Parked
<1>2. /\ s \in Seq(Request) /\ Len(s) \in Nat /\ Shape(s)
      /\ \A k \in 1 .. Len(s) : s[k] \in Request
  BY <1>1, QueueIs
<1>3. /\ f \in 1 .. Len(s) /\ l \in 1 .. Len(s) /\ f <= l
      /\ \A k \in 1 .. Len(s) : s[k].piece = i <=> k \in f .. l
  BY <1>1, RunIs
<1>4. \A j, k \in 1 .. Len(s) : j < k /\ s[k].sent => s[j].sent
  <2>1. CASE q \in Parked
    BY <2>1 DEF Parked
  <2>2. CASE q \in PeerQueues
    <3>1. \A k \in 1 .. Len(s) : s[k].sent <=> q.next = 0 \/ k < q.next
      BY <2>2 DEF PeerQueues, Divided
    <3>2. q.next \in Nat
      BY <1>1, QueueIs
    <3> HIDE DEF s
    <3> QED
      BY <1>2, <3>1, <3>2
  <2> QED
    BY <2>1, <2>2
<1>5. c = Segment(q, i)
  BY DEF Segment
<1> HIDE DEF s, f, l
<1>6. c \in Seq(Request) /\ Len(c) = l - f + 1 /\ \A k \in 1 .. l - f + 1 : c[k] = s[f + k - 1]
  <2>1. f \in Int /\ l \in Int /\ \A k \in f .. l : s[k] \in Request
    BY <1>2, <1>3
  <2>2. /\ c \in Seq(Request) /\ Len(c) = IF f <= l THEN l - f + 1 ELSE 0
        /\ \A k \in 1 .. l - f + 1 : c[k] = s[f + k - 1]
    BY <2>1, SubSeqProperties
  <2> HIDE DEF c
  <2> QED
    BY <1>3, <2>2
<1> HIDE DEF c
<1>7. \A k \in 1 .. Len(c) : f + k - 1 \in 1 .. Len(s) /\ f + k - 1 \in f .. l /\ c[k] = s[f + k - 1]
  BY <1>3, <1>6
<1>8. \A k \in 1 .. Len(c) : c[k].piece = i
  BY <1>3, <1>7
<1>9. ASSUME NEW j \in 1 .. Len(c), NEW k \in 1 .. Len(c), j < k
      PROVE  c[j].off # c[k].off /\ (c[k].sent => c[j].sent)
  <2> DEFINE a == f + j - 1
             b == f + k - 1
  <2>1. a \in 1 .. Len(s) /\ b \in 1 .. Len(s) /\ a < b
    BY <1>3, <1>7, <1>9
  <2>2. c[j] = s[a] /\ c[k] = s[b] /\ s[a].piece = s[b].piece
    BY <1>7, <1>8
  <2> HIDE DEF a, b
  <2> QED
    BY <1>2, <1>4, <2>1, <2>2 DEF Shape
<1>10. c # << >>
  BY <1>3, <1>6
<1>11. ASSUME NEW o PROVE o \in Offs(q, i) <=> \E k \in 1 .. Len(c) : c[k].off = o
  <2>1. o \in Offs(q, i) <=> \E k \in 1 .. Len(s) : s[k].piece = i /\ s[k].off = o
    BY <1>1, OffsIs DEF s
  <2>2. ASSUME NEW k \in 1 .. Len(s), s[k].piece = i PROVE \E m \in 1 .. Len(c) : c[m] = s[k]
    <3>1. k \in f .. l
      BY <1>3, <2>2
    <3>2. k - f + 1 \in 1 .. Len(c) /\ f + (k - f + 1) - 1 = k
      BY <1>3, <1>6, <3>1
    <3> QED
      BY <1>7, <3>2
  <2> QED
    BY <1>7, <1>8, <2>1, <2>2
<1> QED
  BY <1>5, <1>6, <1>8, <1>9, <1>10, <1>11 DEF Runs

\* A piece that is not in the list yet may be put behind it.
LEMMA Joined ==
  ASSUME NEW l \in Lists, NEW u \in Seq(Request), NEW i,
         \A k \in 1 .. Len(l) : l[k].piece # i, \A k \in 1 .. Len(u) : u[k].piece = i,
         \A j, k \in 1 .. Len(u) : j < k => u[j].off # u[k].off
  PROVE  l \o u \in Lists
<1> DEFINE c == l \o u
<1>1. l \in Seq(Request) /\ Shape(l) /\ Len(l) \in Nat /\ Len(u) \in Nat
  BY DEF Lists
<1>2. /\ c \in Seq(Request) /\ Len(c) = Len(l) + Len(u)
      /\ \A k \in 1 .. Len(l) : c[k] = l[k]
      /\ \A k \in Len(l) + 1 .. Len(l) + Len(u) : c[k] = u[k - Len(l)]
  BY <1>1, Cat
<1> HIDE DEF c
<1>3. ASSUME NEW j \in 1 .. Len(c), NEW k \in 1 .. Len(c), j < k, c[j].piece = c[k].piece
      PROVE  c[j].off # c[k].off /\ \A m \in j .. k : c[m].piece = c[j].piece
  <2>1. CASE k <= Len(l)
    <3>1. j \in 1 .. Len(l) /\ k \in 1 .. Len(l) /\ \A m \in j .. k : m \in 1 .. Len(l)
      BY <1>1, <1>2, <1>3, <2>1
    <3>2. c[j] = l[j] /\ c[k] = l[k] /\ \A m \in j .. k : c[m] = l[m]
      BY <1>2, <3>1
    <3>3. l[j].off # l[k].off /\ \A m \in j .. k : l[m].piece = l[j].piece
      BY <1>1, <1>3, <3>1, <3>2 DEF Shape
    <3> QED
      BY <3>2, <3>3
  <2>2. CASE ~ (k <= Len(l)) /\ j <= Len(l)
    <3>1. /\ j \in 1 .. Len(l) /\ k \in Len(l) + 1 .. Len(l) + Len(u) /\ k - Len(l) \in 1 .. Len(u)
      BY <1>1, <1>2, <2>2
    <3>2. c[j] = l[j] /\ c[k] = u[k - Len(l)]
      BY <1>2, <3>1
    <3> QED
      BY <1>3, <3>1, <3>2
  <2>3. CASE ~ (j <= Len(l))
    <3>1. \A m \in j .. k : m \in Len(l) + 1 .. Len(l) + Len(u) /\ m - Len(l) \in 1 .. Len(u)
      BY <1>1, <1>2, <1>3, <2>3
    <3>2. \A m \in j .. k : c[m] = u[m - Len(l)] /\ c[m].piece = i
      BY <1>2, <3>1
    <3>3. j \in j .. k /\ k \in j .. k /\ j - Len(l) < k - Len(l)
      BY <1>1, <1>2, <1>3
    <3> QED
      BY <3>1, <3>2, <3>3
  <2> QED
    BY <1>1, <1>2, <2>1, <2>2, <2>3
<1> QED
  BY <1>2, <1>3 DEF Lists, Shape, c

\* A run of a new piece enters at the end, and nothing of it counts as sent.
LEMMA EnterIs ==
  ASSUME NEW q \in Queues, NEW i, NEW seg \in Runs(i), ~ HasPiece(q, i)
  PROVE  /\ Enter(q, seg) \in Queues
         /\ Fresh(Enter(q, seg), i)
         /\ HasPiece(Enter(q, seg), i)
         /\ q \in Parked => Enter(q, seg) \in Parked
         /\ q \in PeerQueues => Enter(q, seg) \in PeerQueues /\ Owed(Enter(q, seg)) = Owed(q)
         /\ \A o : o \in Offs(Enter(q, seg), i) <=> \E k \in 1 .. Len(seg) : seg[k].off = o
         /\ \A j : j # i => Offs(Enter(q, seg), j) = Offs(q, j)
<1> DEFINE lead == {k \in DOMAIN seg : \A j \in 1 .. k : seg[j].sent}
           u == [k \in DOMAIN seg |-> IF k \in lead THEN [seg[k] EXCEPT !.sent = FALSE] ELSE seg[k]]
           l == q.list
           c == l \o u
           x == IF q.next = 0 THEN Len(l) + 1 ELSE q.next
<1>1. /\ seg \in Seq(Request) /\ Len(seg) \in Nat /\ Len(seg) > 0 /\ DOMAIN seg = 1 .. Len(seg)
      /\ \A k \in 1 .. Len(seg) : seg[k].piece = i /\ seg[k] \in Request
      /\ \A j, k \in 1 .. Len(seg) : j < k => seg[j].off # seg[k].off
      /\ \A j, k \in 1 .. Len(seg) : j < k /\ seg[k].sent => seg[j].sent
  BY DEF Runs
<1>2. \A k \in 1 .. Len(seg) : k \notin lead => ~ seg[k].sent
  <2>1. ASSUME NEW k \in 1 .. Len(seg), seg[k].sent PROVE k \in lead
    <3>1. ASSUME NEW j \in 1 .. k PROVE seg[j].sent
      <4>1. j \in 1 .. Len(seg) /\ (j < k \/ j = k)
        BY <1>1
      <4> QED
        BY <1>1, <2>1, <4>1
    <3> QED
      BY <1>1, <3>1
  <2> QED
    BY <2>1
<1>3. /\ u \in Seq(Request) /\ Len(u) = Len(seg)
      /\ \A k \in 1 .. Len(u) : u[k].piece = i /\ u[k].off = seg[k].off /\ ~ u[k].sent
  <2> HIDE DEF lead
  <2>1. \A k \in 1 .. Len(seg) : LET r == IF k \in lead THEN [seg[k] EXCEPT !.sent = FALSE] ELSE seg[k]
                                 IN  /\ r \in Request /\ r.piece = i /\ r.off = seg[k].off /\ ~ r.sent
    BY <1>1, <1>2 DEF Request
  <2>2. u = [k \in 1 .. Len(seg) |-> IF k \in lead THEN [seg[k] EXCEPT !.sent = FALSE] ELSE seg[k]]
    BY <1>1
  <2>3. \A k \in 1 .. Len(seg) : u[k] \in Request /\ u[k].piece = i /\ u[k].off = seg[k].off /\ ~ u[k].sent
    BY <2>1, <2>2
  <2>4. u \in Seq(Request) /\ Len(u) = Len(seg)
    BY <1>1, <2>1, <2>2
  <2> HIDE DEF u
  <2> QED
    BY <2>3, <2>4
<1> HIDE DEF lead, u
<1>4. /\ l \in Lists /\ l \in Seq(Request) /\ Len(l) \in Nat /\ q.next \in Nat /\ q.next <= Len(l)
      /\ \A k \in 1 .. Len(l) : l[k].piece # i
  BY QueueIs, HasIs DEF Queues
<1> HIDE DEF l
<1>5. c \in Lists
  <2>1. l \in Lists /\ u \in Seq(Request) /\ \A k \in 1 .. Len(l) : l[k].piece # i
    BY <1>3, <1>4
  <2>2. \A k \in 1 .. Len(u) : u[k].piece = i
    BY <1>3
  <2>3. \A j, k \in 1 .. Len(u) : j < k => u[j].off # u[k].off
    BY <1>1, <1>3
  <2> QED
    BY <2>1, <2>2, <2>3, Joined
<1>6. /\ Len(c) = Len(l) + Len(u)
      /\ \A k \in 1 .. Len(l) : c[k] = l[k]
      /\ \A k \in Len(l) + 1 .. Len(l) + Len(u) : c[k] = u[k - Len(l)]
  <2>1. l \in Seq(Request) /\ u \in Seq(Request)
    BY <1>3, <1>4
  <2> QED
    BY <2>1, Cat
<1>7. Enter(q, seg) = [list |-> c, next |-> x]
  BY DEF Enter, c, x, l, u, lead
<1> HIDE DEF c
<1>8. x \in Nat /\ x <= Len(c) /\ x # 0
  BY <1>1, <1>3, <1>4, <1>6
<1>9. [list |-> c, next |-> x] \in Queues
  BY <1>5, <1>8 DEF Queues
<1>10. ASSUME NEW k \in 1 .. Len(c), ~ (k <= Len(l)) PROVE ~ c[k].sent /\ c[k].piece = i
  <2>1. k \in Len(l) + 1 .. Len(l) + Len(u) /\ k - Len(l) \in 1 .. Len(u)
    BY <1>3, <1>4, <1>6, <1>10
  <2> QED
    BY <1>3, <1>6, <2>1
<1>11. ASSUME NEW k \in 1 .. Len(c), k <= Len(l) PROVE c[k] = l[k] /\ k \in 1 .. Len(l)
  BY <1>4, <1>6, <1>11
<1>12. Fresh([list |-> c, next |-> x], i)
  BY <1>4, <1>10, <1>11 DEF Fresh
<1>13. HasPiece([list |-> c, next |-> x], i)
  <2>1. Len(c) \in 1 .. Len(c) /\ ~ (Len(c) <= Len(l))
    BY <1>1, <1>3, <1>4, <1>6
  <2> QED
    BY <1>9, <1>10, <2>1, HasIs
<1>14. ASSUME q \in Parked PROVE [list |-> c, next |-> x] \in Parked
  <2>1. \A k \in 1 .. Len(l) : ~ l[k].sent
    BY <1>14 DEF Parked, l
  <2> QED
    BY <1>9, <1>10, <1>11, <2>1 DEF Parked
<1>15. ASSUME q \in PeerQueues PROVE [list |-> c, next |-> x] \in PeerQueues
  <2>1. \A k \in 1 .. Len(l) : l[k].sent <=> q.next = 0 \/ k < q.next
    BY <1>15 DEF PeerQueues, Divided, l
  <2>2. ASSUME NEW k \in 1 .. Len(c) PROVE c[k].sent <=> x = 0 \/ k < x
    <3>1. CASE k <= Len(l)
      <4>1. c[k] = l[k] /\ k \in 1 .. Len(l)
        BY <1>11, <3>1
      <4> QED
        BY <1>4, <2>1, <3>1, <4>1
    <3>2. CASE ~ (k <= Len(l))
      BY <1>4, <1>8, <1>10, <3>2
    <3> QED
      BY <3>1, <3>2
  <2> HIDE DEF x
  <2> QED
    BY <1>9, <2>2 DEF PeerQueues, Divided
<1>16. Owed([list |-> c, next |-> x]) = Owed(q)
  BY <1>4, <1>6, <1>8 DEF Owed, l
<1> DEFINE w == [list |-> c, next |-> x]
<1>17. w \in Queues /\ w.list = c /\ q.list = l
  BY <1>9 DEF l
<1> HIDE DEF w
<1>18. \A j, o : o \in Offs(w, j) <=> \E k \in 1 .. Len(c) : c[k].piece = j /\ c[k].off = o
  BY <1>17, OffsIs
<1>19. ASSUME NEW o PROVE o \in Offs(w, i) <=> \E k \in 1 .. Len(seg) : seg[k].off = o
  <2>1. ASSUME NEW k \in 1 .. Len(c), c[k].piece = i PROVE \E m \in 1 .. Len(seg) : seg[m].off = c[k].off
    <3>1. ~ (k <= Len(l))
      BY <1>4, <1>11, <2>1
    <3>2. k \in Len(l) + 1 .. Len(l) + Len(u) /\ k - Len(l) \in 1 .. Len(u)
      BY <1>3, <1>4, <1>6, <3>1
    <3> QED
      BY <1>3, <1>6, <3>2
  <2>2. ASSUME NEW m \in 1 .. Len(seg) PROVE \E k \in 1 .. Len(c) : c[k].piece = i /\ c[k].off = seg[m].off
    <3>1. /\ m + Len(l) \in Len(l) + 1 .. Len(l) + Len(u) /\ m + Len(l) \in 1 .. Len(c)
          /\ m + Len(l) - Len(l) = m /\ m \in 1 .. Len(u)
      BY <1>3, <1>4, <1>6
    <3>2. c[m + Len(l)] = u[m]
      BY <1>6, <3>1
    <3> QED
      BY <1>3, <3>1, <3>2
  <2> QED
    BY <1>18, <2>1, <2>2
<1>20. ASSUME NEW j, j # i PROVE Offs(w, j) = Offs(q, j)
  <2>1. \A o : o \in Offs(q, j) <=> \E k \in 1 .. Len(l) : l[k].piece = j /\ l[k].off = o
    BY <1>17, OffsIs
  <2>2. ASSUME NEW k \in 1 .. Len(c), c[k].piece = j PROVE k \in 1 .. Len(l) /\ c[k] = l[k]
    BY <1>10, <1>11, <1>20, <2>2
  <2>3. ASSUME NEW k \in 1 .. Len(l) PROVE k \in 1 .. Len(c) /\ c[k] = l[k]
    BY <1>3, <1>4, <1>6
  <2>4. \A o : o \in Offs(w, j) <=> o \in Offs(q, j)
    BY <1>18, <2>1, <2>2, <2>3
  <2> QED
    BY <2>4, Same
<1> QED
  BY <1>7, <1>9, <1>12, <1>13, <1>14, <1>15, <1>16, <1>19, <1>20 DEF w

\* Delete: the piece is gone, and what was sent of it is owed no more.
LEMMA DeleteIs ==
  ASSUME NEW q \in Queues, NEW i
  PROVE  /\ Delete(q, i) \in Queues
         /\ q \in Parked => Delete(q, i) \in Parked
         /\ q \in PeerQueues =>
              /\ Delete(q, i) \in PeerQueues
              /\ LET n == {k \in Where(q, i) : q.list[k].sent}
                 IN  Cardinality(n) \in Nat /\ Owed(Delete(q, i)) = Owed(q) - Cardinality(n)
         /\ Offs(Delete(q, i), i) = {}
         /\ \A j : j # i => Offs(Delete(q, i), j) = Offs(q, j)
<1>1. CASE HasPiece(q, i)
  <2> DEFINE l == First(q, i)
             h == Last(q, i)
  <2>1. /\ l \in 1 .. Len(q.list) /\ h \in 1 .. Len(q.list) /\ l <= h /\ Where(q, i) = l .. h
        /\ \A k \in 1 .. Len(q.list) : q.list[k].piece = i <=> k \in l .. h
    BY <1>1, RunIs
  <2>2. Delete(q, i) = Without(q, l, h)
    BY <1>1 DEF Delete
  <2> HIDE DEF l, h
  <2>3. h \in l .. Len(q.list) /\ Len(q.list) \in Nat
    BY <2>1, QueueIs
  <2>4. \A j, o : o \in Offs(Without(q, l, h), j) <=>
          \E k \in 1 .. Len(q.list) : (k < l \/ h < k) /\ q.list[k].piece = j /\ q.list[k].off = o
    <3>1. l \in 1 .. Len(q.list)
      BY <2>1
    <3> QED
      BY <2>3, <3>1, WithoutIs, ZenonT(60)
  <2>5. \A k \in 1 .. Len(q.list) : (k < l \/ h < k) <=> q.list[k].piece # i
    BY <2>1, <2>3
  <2>6. \A j, o : o \in Offs(q, j) <=> \E k \in 1 .. Len(q.list) : q.list[k].piece = j /\ q.list[k].off = o
    BY OffsIs
  <2>7. Offs(Without(q, l, h), i) = {}
    BY <2>4, <2>5
  <2>8. ASSUME NEW j, j # i PROVE Offs(Without(q, l, h), j) = Offs(q, j)
    <3>1. \A o : o \in Offs(Without(q, l, h), j) <=> o \in Offs(q, j)
      BY <2>4, <2>5, <2>6, <2>8
    <3> QED
      BY <3>1, Same
  <2>9. /\ Without(q, l, h) \in Queues
        /\ q \in Parked => Without(q, l, h) \in Parked
        /\ q \in PeerQueues =>
             /\ Without(q, l, h) \in PeerQueues
             /\ LET n == {k \in l .. h : q.list[k].sent}
                IN  Cardinality(n) \in Nat /\ Owed(Without(q, l, h)) = Owed(q) - Cardinality(n)
    BY <2>1, <2>3, WithoutIs
  <2> QED
    BY <2>1, <2>2, <2>7, <2>8, <2>9
<1>2. CASE ~ HasPiece(q, i)
  <2>1. Delete(q, i) = q
    BY <1>2 DEF Delete
  <2>2. {k \in Where(q, i) : q.list[k].sent} = {}
    BY <1>2 DEF HasPiece
  <2>3. Cardinality({}) = 0 /\ Owed(q) \in Int
    BY FS_EmptySet, QueueIs DEF Owed
  <2> DEFINE n == {k \in Where(q, i) : q.list[k].sent}
  <2>4. Cardinality(n) = 0
    BY <2>2, <2>3
  <2> HIDE DEF n
  <2>5. Cardinality(n) \in Nat /\ Owed(q) = Owed(q) - Cardinality(n)
    BY <2>3, <2>4
  <2>6. Offs(q, i) = {}
    BY <1>2, OffsIs
  <2> QED
    BY <2>1, <2>5, <2>6 DEF n
<1> QED
  BY <1>1, <1>2

\* A slice that is listed has one place.
LEMMA PlaceIs ==
  ASSUME NEW q \in Queues, NEW i, NEW o, HasSlice(q, i, o)
  PROVE  /\ Lowest(At(q, i, o)) \in 1 .. Len(q.list)
         /\ At(q, i, o) = {Lowest(At(q, i, o))}
         /\ q.list[Lowest(At(q, i, o))].piece = i /\ q.list[Lowest(At(q, i, o))].off = o
<1> DEFINE A == At(q, i, o)
<1>1. /\ A = {k \in 1 .. Len(q.list) : q.list[k].piece = i /\ q.list[k].off = o}
      /\ A # {} /\ A \in SUBSET Nat /\ Shape(q.list)
  BY QueueIs DEF HasSlice, At, Where
<1> HIDE DEF A
<1>2. \E k \in A : \A j \in A : k <= j
  BY <1>1, LeastNumber
<1>3. Lowest(A) \in A
  BY <1>2 DEF Lowest
<1>4. ASSUME NEW j \in A, NEW k \in A PROVE j = k
  <2>1. j \in 1 .. Len(q.list) /\ k \in 1 .. Len(q.list) /\ (j < k \/ k < j \/ j = k)
    BY <1>1
  <2> QED
    BY <1>1, <2>1 DEF Shape
<1>5. A = {Lowest(A)}
  BY <1>3, <1>4
<1> QED
  BY <1>1, <1>3, <1>5 DEF A

\* Remove: the slice is gone, and one less is owed if it was sent.
LEMMA RemoveIs ==
  ASSUME NEW q \in Queues, NEW i, NEW o
  PROVE  /\ Remove(q, i, o) \in Queues
         /\ q \in Parked => Remove(q, i, o) \in Parked
         /\ q \in PeerQueues =>
              /\ Remove(q, i, o) \in PeerQueues
              /\ IsSent(q, i, o) => Owed(Remove(q, i, o)) = Owed(q) - 1
              /\ ~ IsSent(q, i, o) => Owed(Remove(q, i, o)) = Owed(q)
         /\ Offs(Remove(q, i, o), i) = Offs(q, i) \ {o}
         /\ \A j : j # i => Offs(Remove(q, i, o), j) = Offs(q, j)
<1>0. Owed(q) \in Int
  BY QueueIs DEF Owed
<1>1. CASE HasSlice(q, i, o)
  <2> DEFINE a == Lowest(At(q, i, o))
             n == {k \in a .. a : q.list[k].sent}
  <2>1. a \in 1 .. Len(q.list) /\ At(q, i, o) = {a}
    BY <1>1, PlaceIs
  <2>2. Remove(q, i, o) = Without(q, a, a)
    BY <1>1 DEF Remove
  <2> HIDE DEF a
  <2>3. a \in a .. Len(q.list) /\ a .. a = {a}
    BY <2>1, QueueIs
  <2>4. (IsSent(q, i, o) => n = {a}) /\ (~ IsSent(q, i, o) => n = {})
    BY <2>1, <2>3 DEF IsSent
  <2>5. Cardinality({a}) = 1 /\ Cardinality({}) = 0
    BY FS_EmptySet, FS_Singleton
  <2>6. q \in PeerQueues => Owed(Without(q, a, a)) = Owed(q) - Cardinality(n)
    BY <2>1, <2>3, WithoutIs
  <2>7. /\ Without(q, a, a) \in Queues
        /\ q \in Parked => Without(q, a, a) \in Parked
        /\ q \in PeerQueues => Without(q, a, a) \in PeerQueues
    BY <2>1, <2>3, WithoutIs
  <2>8. \A j, e : e \in Offs(Without(q, a, a), j) <=>
          \E k \in 1 .. Len(q.list) : (k < a \/ a < k) /\ q.list[k].piece = j /\ q.list[k].off = e
    BY <2>1, <2>3, WithoutIs, ZenonT(60)
  <2>9. \A j, e : e \in Offs(q, j) <=> \E k \in 1 .. Len(q.list) : q.list[k].piece = j /\ q.list[k].off = e
    BY OffsIs
  <2>10. \A k \in 1 .. Len(q.list) : q.list[k].piece = i /\ q.list[k].off = o <=> k = a
    <3>1. At(q, i, o) = {k \in 1 .. Len(q.list) : q.list[k].piece = i /\ q.list[k].off = o}
      BY QueueIs DEF At, Where
    <3> QED
      BY <2>1, <3>1
  <2>11. \A k \in 1 .. Len(q.list) : (k < a \/ a < k) <=> k # a
    BY <2>1
  <2>12. Offs(Without(q, a, a), i) = Offs(q, i) \ {o}
    <3>1. \A e : e \in Offs(Without(q, a, a), i) <=> e \in Offs(q, i) \ {o}
      BY <2>8, <2>9, <2>10, <2>11
    <3> QED
      BY <3>1, Same
  <2>13. ASSUME NEW j, j # i PROVE Offs(Without(q, a, a), j) = Offs(q, j)
    <3>1. \A e : e \in Offs(Without(q, a, a), j) <=> e \in Offs(q, j)
      BY <2>8, <2>9, <2>10, <2>11, <2>13
    <3> QED
      BY <3>1, Same
  <2> HIDE DEF n
  <2> QED
    BY <1>0, <2>2, <2>4, <2>5, <2>6, <2>7, <2>12, <2>13
<1>2. CASE ~ HasSlice(q, i, o)
  <2>1. Remove(q, i, o) = q /\ ~ IsSent(q, i, o)
    BY <1>2 DEF Remove, IsSent, HasSlice
  <2>2. o \notin Offs(q, i)
    BY <1>2, OffsIs
  <2> QED
    BY <2>1, <2>2
<1> QED
  BY <1>1, <1>2

-----------------------------------------------------------------------------
(* Slices enter a queue, or are sent.                                      *)

\* Add, for all slices of a new piece.
LEMMA AddPieceIs ==
  ASSUME NEW q \in PeerQueues, NEW i \in Pieces, ~ HasPiece(q, i)
  PROVE  /\ AddPiece(q, i) \in PeerQueues /\ Owed(AddPiece(q, i)) = Owed(q)
         /\ \A j : Offs(AddPiece(q, i), j) = IF j = i THEN Offsets ELSE Offs(q, j)
<1> DEFINE s == [o \in Offsets |-> [piece |-> i, off |-> o, sent |-> FALSE]]
<1>1. SlicesPerPiece \in Nat /\ SlicesPerPiece > 0 /\ Offsets = 1 .. SlicesPerPiece
  BY DownloadAssumption DEF Offsets
<1>2. \A o \in Offsets : [piece |-> i, off |-> o, sent |-> FALSE] \in Request
  BY DEF Request
<1>3. s \in Seq(Request) /\ Len(s) = SlicesPerPiece
  BY <1>1, <1>2
<1>4. \A k \in 1 .. Len(s) : s[k].piece = i /\ s[k].off = k /\ ~ s[k].sent
  BY <1>1, <1>3
<1> HIDE DEF s
<1>5. s \in Runs(i)
  <2>1. s # << >>
    BY <1>1, <1>3
  <2> QED
    BY <1>3, <1>4, <2>1 DEF Runs
<1>6. q \in Queues
  BY DEF PeerQueues
<1>7. \A o : o \in Offsets <=> \E k \in 1 .. Len(s) : s[k].off = o
  BY <1>1, <1>3, <1>4
<1>8. AddPiece(q, i) = Enter(q, s)
  BY DEF AddPiece, s
<1>9. /\ \A o : o \in Offs(Enter(q, s), i) <=> \E k \in 1 .. Len(s) : s[k].off = o
      /\ \A j : j # i => Offs(Enter(q, s), j) = Offs(q, j)
  BY <1>5, <1>6, EnterIs
<1>10. Offs(Enter(q, s), i) = Offsets
  BY <1>7, <1>9
<1> QED
  BY <1>5, <1>6, <1>8, <1>9, <1>10, EnterIs

\* A copy of a run, with nothing sent, is a run.
LEMMA UnsentIs ==
  ASSUME NEW i, NEW s \in Runs(i)
  PROVE  /\ Unsent(s) \in Runs(i)
         /\ \A o : (\E k \in 1 .. Len(Unsent(s)) : Unsent(s)[k].off = o) <=> \E k \in 1 .. Len(s) : s[k].off = o
<1> DEFINE u == Unsent(s)
<1>1. /\ s \in Seq(Request) /\ Len(s) \in Nat /\ s # << >>
      /\ \A k \in 1 .. Len(s) : s[k] \in Request /\ s[k].piece = i
      /\ \A j, k \in 1 .. Len(s) : j < k => s[j].off # s[k].off
  BY DEF Runs
<1>2. u = [k \in 1 .. Len(s) |-> [s[k] EXCEPT !.sent = FALSE]]
  BY <1>1 DEF Unsent
<1>3. \A k \in 1 .. Len(s) : LET r == [s[k] EXCEPT !.sent = FALSE]
                             IN  r \in Request /\ r.piece = i /\ r.off = s[k].off /\ ~ r.sent
  BY <1>1 DEF Request
<1>4. \A k \in 1 .. Len(s) : u[k] \in Request /\ u[k].piece = i /\ u[k].off = s[k].off /\ ~ u[k].sent
  BY <1>2, <1>3
<1>5. u \in Seq(Request) /\ Len(u) = Len(s)
  BY <1>1, <1>2, <1>3
<1> HIDE DEF u
<1>6. u # << >>
  BY <1>1, <1>5
<1> QED
  BY <1>1, <1>4, <1>5, <1>6 DEF Runs, u

\* Copy: the piece comes into the other queue with nothing sent.
LEMMA CopyIs ==
  ASSUME NEW q \in PeerQueues, NEW d \in PeerQueues, NEW i, HasPiece(q, i), ~ HasPiece(d, i)
  PROVE  /\ Copy(q, d, i) \in PeerQueues /\ Owed(Copy(q, d, i)) = Owed(d)
         /\ Fresh(Copy(q, d, i), i) /\ HasPiece(Copy(q, d, i), i)
         /\ \A j : Offs(Copy(q, d, i), j) = Offs(IF j = i THEN q ELSE d, j)
<1> DEFINE s == Segment(q, i)
<1>1. /\ Unsent(s) \in Runs(i)
      /\ \A o : o \in Offs(q, i) <=> \E k \in 1 .. Len(Unsent(s)) : Unsent(s)[k].off = o
  <2>1. s \in Runs(i) /\ \A o : o \in Offs(q, i) <=> \E k \in 1 .. Len(s) : s[k].off = o
    BY SegmentIs
  <2> HIDE DEF s
  <2> QED
    BY <2>1, UnsentIs
<1>2. Copy(q, d, i) = Enter(d, Unsent(Segment(q, i)))
  BY DEF Copy
<1>3. d \in Queues
  BY DEF PeerQueues
<1> DEFINE u == Unsent(s)
<1> HIDE DEF u
<1>4. u \in Runs(i) /\ Copy(q, d, i) = Enter(d, u)
  BY <1>1, <1>2 DEF u
<1>5. /\ \A o : o \in Offs(Enter(d, u), i) <=> \E k \in 1 .. Len(u) : u[k].off = o
      /\ \A j : j # i => Offs(Enter(d, u), j) = Offs(d, j)
  BY <1>3, <1>4, EnterIs
<1>6. Offs(Enter(d, u), i) = Offs(q, i)
  BY <1>1, <1>5 DEF u
<1> QED
  BY <1>3, <1>4, <1>5, <1>6, EnterIs

\* Sent, n times from the cursor on: n more are owed.
LEMMA SentIs ==
  ASSUME NEW q \in PeerQueues, NEW n \in Nat \ {0}, q.next # 0, q.next + n - 1 <= Len(q.list)
  PROVE  /\ Sent(q, n) \in PeerQueues /\ Owed(Sent(q, n)) = Owed(q) + n
         /\ \A i : Offs(Sent(q, n), i) = Offs(q, i)
<1> DEFINE s == q.list
           c == [k \in DOMAIN q.list |->
                  IF k \in q.next .. q.next + n - 1 THEN [q.list[k] EXCEPT !.sent = TRUE] ELSE q.list[k]]
           x == IF q.next + n <= Len(q.list) THEN q.next + n ELSE 0
<1>1. q \in Queues
  BY DEF PeerQueues
<1>2. /\ s \in Seq(Request) /\ Len(s) \in Nat /\ DOMAIN s = 1 .. Len(s) /\ q.next \in Nat
      /\ s \in Lists /\ \A k \in 1 .. Len(s) : s[k] \in Request
  BY <1>1, QueueIs DEF Queues
<1>3. \A k \in 1 .. Len(s) : s[k].sent <=> k < q.next
  BY DEF PeerQueues, Divided
<1>4. /\ c \in Seq(Request) /\ Len(c) = Len(s)
      /\ \A k \in 1 .. Len(s) : c[k].piece = s[k].piece /\ c[k].off = s[k].off
      /\ \A k \in 1 .. Len(s) : c[k].sent <=> s[k].sent \/ k \in q.next .. q.next + n - 1
  <2>1. \A r \in Request : LET t == [r EXCEPT !.sent = TRUE]
                           IN  t \in Request /\ t.piece = r.piece /\ t.off = r.off /\ t.sent
    BY DEF Request
  <2>2. c = [k \in 1 .. Len(s) |->
               IF k \in q.next .. q.next + n - 1 THEN [s[k] EXCEPT !.sent = TRUE] ELSE s[k]]
    BY <1>2
  <2> HIDE DEF s, c
  <2>3. \A k \in 1 .. Len(s) : c[k] \in Request
    BY <1>2, <2>1, <2>2
  <2>4. c \in Seq(Request) /\ Len(c) = Len(s)
    BY <1>2, <2>2, <2>3
  <2>5. \A k \in 1 .. Len(s) : c[k].piece = s[k].piece /\ c[k].off = s[k].off
    BY <1>2, <2>1, <2>2
  <2>6. \A k \in 1 .. Len(s) : c[k].sent <=> s[k].sent \/ k \in q.next .. q.next + n - 1
    <3>1. ASSUME NEW k \in 1 .. Len(s) PROVE c[k].sent <=> s[k].sent \/ k \in q.next .. q.next + n - 1
      <4>1. CASE k \in q.next .. q.next + n - 1
        BY <1>2, <2>1, <2>2, <4>1
      <4>2. CASE k \notin q.next .. q.next + n - 1
        BY <2>2, <4>2
      <4> QED
        BY <4>1, <4>2
    <3> QED
      BY <3>1
  <2> QED
    BY <2>4, <2>5, <2>6
<1>5. Sent(q, n) = [list |-> c, next |-> x]
  BY DEF Sent
<1> HIDE DEF s, c
<1>6. c \in Lists
  BY <1>2, <1>4 DEF Lists, Shape
<1>7. x \in Nat /\ x <= Len(c)
  BY <1>2, <1>4 DEF s
<1>8. \A k \in 1 .. Len(c) : c[k].sent <=> x = 0 \/ k < x
  <2>1. q.next + n - 1 <= Len(s) /\ q.next > 0
    BY <1>2 DEF s
  <2>2. x = IF q.next + n <= Len(s) THEN q.next + n ELSE 0
    BY DEF s
  <2>3. ASSUME NEW k \in 1 .. Len(c) PROVE c[k].sent <=> k < q.next + n
    <3>1. k \in 1 .. Len(s) /\ (c[k].sent <=> k < q.next \/ k \in q.next .. q.next + n - 1)
      BY <1>3, <1>4 DEF s
    <3> QED
      BY <1>2, <2>1, <3>1
  <2> HIDE DEF x
  <2> QED
    BY <1>2, <1>4, <2>1, <2>2, <2>3
<1>9. [list |-> c, next |-> x] \in PeerQueues
  <2>1. [list |-> c, next |-> x] \in Queues
    BY <1>6, <1>7 DEF Queues
  <2> HIDE DEF x
  <2> QED
    BY <1>8, <2>1 DEF PeerQueues, Divided
<1>10. Owed([list |-> c, next |-> x]) = Owed(q) + n
  <2>1. Owed([list |-> c, next |-> x]) = IF x = 0 THEN Len(c) ELSE x - 1
    BY DEF Owed
  <2>2. Owed(q) = q.next - 1
    BY DEF Owed
  <2>3. q.next + n - 1 <= Len(s) /\ q.next > 0 /\ x = IF q.next + n <= Len(s) THEN q.next + n ELSE 0
    BY <1>2 DEF s
  <2> HIDE DEF x
  <2>4. Len(c) = Len(s) /\ Len(s) \in Nat /\ q.next \in Nat /\ n \in Nat
    BY <1>2, <1>4
  <2>5. CASE q.next + n <= Len(s)
    <3>1. x = q.next + n /\ x # 0
      BY <2>3, <2>4, <2>5
    <3> QED
      BY <2>1, <2>2, <2>4, <3>1
  <2>6. CASE ~ (q.next + n <= Len(s))
    <3>1. x = 0 /\ Len(s) = q.next + n - 1
      BY <2>3, <2>4, <2>6
    <3> QED
      BY <2>1, <2>2, <2>4, <3>1
  <2> QED
    BY <2>5, <2>6
<1>11. ASSUME NEW i PROVE Offs([list |-> c, next |-> x], i) = Offs(q, i)
  <2> DEFINE w == [list |-> c, next |-> x]
  <2>1. w \in Queues /\ w.list = c /\ q.list = s
    BY <1>9 DEF PeerQueues, s
  <2> HIDE DEF w
  <2>2. \A o : /\ o \in Offs(w, i) <=> \E k \in 1 .. Len(c) : c[k].piece = i /\ c[k].off = o
               /\ o \in Offs(q, i) <=> \E k \in 1 .. Len(s) : s[k].piece = i /\ s[k].off = o
    BY <1>1, <2>1, OffsIs
  <2>3. \A o : o \in Offs(w, i) <=> o \in Offs(q, i)
    BY <1>4, <2>2
  <2> QED
    BY <2>3, Same DEF w
<1> QED
  BY <1>5, <1>9, <1>10, <1>11

-----------------------------------------------------------------------------
(* Slices of a piece that nothing was sent of change their order.          *)

\* A piece nothing was sent of may have its slices in any order.
LEMMA Reordered ==
  ASSUME NEW q \in PeerQueues, NEW i, Fresh(q, i),
         NEW c \in Seq(Request), Len(c) = Len(q.list),
         NEW g \in [1 .. Len(c) -> 1 .. Len(c)], \A j, k \in 1 .. Len(c) : j # k => g[j] # g[k],
         \A k \in 1 .. Len(c) : /\ c[k].piece = q.list[k].piece
                                /\ q.list[g[k]].piece = q.list[k].piece
                                /\ c[k].off = q.list[g[k]].off
                                /\ c[k].piece # i => (c[k].sent <=> q.list[k].sent)
                                /\ c[k].piece = i => ~ c[k].sent
  PROVE  /\ [list |-> c, next |-> q.next] \in PeerQueues /\ Fresh([list |-> c, next |-> q.next], i)
         /\ \A j : Offs([list |-> c, next |-> q.next], j) = Offs(q, j)
<1> DEFINE s == q.list
<1>1. q \in Queues
  BY DEF PeerQueues
<1>2. /\ s \in Seq(Request) /\ Len(s) \in Nat /\ q.next \in Nat /\ q.next <= Len(s) /\ Shape(s)
  BY <1>1, QueueIs
<1>3. \A k \in 1 .. Len(s) : s[k].sent <=> q.next = 0 \/ k < q.next
  BY DEF PeerQueues, Divided
<1>4. \A k \in 1 .. Len(s) : s[k].piece = i => ~ s[k].sent
  BY DEF Fresh
<1> HIDE DEF s
<1>5. /\ Len(c) = Len(s)
      /\ \A k \in 1 .. Len(s) : c[k].piece = s[k].piece
      /\ \A k \in 1 .. Len(s) : g[k] \in 1 .. Len(s) /\ s[g[k]].piece = s[k].piece /\ c[k].off = s[g[k]].off
      /\ \A k \in 1 .. Len(s) : c[k].piece # i => (c[k].sent <=> s[k].sent)
      /\ \A k \in 1 .. Len(s) : c[k].piece = i => ~ c[k].sent
  BY DEF s
<1>6. ASSUME NEW j \in 1 .. Len(c), NEW k \in 1 .. Len(c), j < k, c[j].piece = c[k].piece
      PROVE  c[j].off # c[k].off /\ \A m \in j .. k : c[m].piece = c[j].piece
  <2>1. s[j].piece = s[k].piece /\ j \in 1 .. Len(s) /\ k \in 1 .. Len(s)
    BY <1>5, <1>6
  <2>2. \A m \in j .. k : m \in 1 .. Len(c) /\ s[m].piece = s[j].piece
    BY <1>2, <1>5, <1>6, <2>1 DEF Shape
  <2>3. g[j] \in 1 .. Len(s) /\ g[k] \in 1 .. Len(s) /\ g[j] # g[k] /\ s[g[j]].piece = s[g[k]].piece
    BY <1>5, <1>6, <2>1
  <2>4. s[g[j]].off # s[g[k]].off
    <3>1. g[j] < g[k] \/ g[k] < g[j]
      BY <2>3
    <3> QED
      BY <1>2, <2>3, <3>1 DEF Shape
  <2> QED
    BY <1>5, <1>6, <2>2, <2>4
<1>7. [list |-> c, next |-> q.next] \in Queues
  <2>1. c \in Lists
    BY <1>6 DEF Lists, Shape
  <2> QED
    BY <1>2, <1>5, <2>1 DEF Queues
<1>8. \A k \in 1 .. Len(c) : c[k].sent <=> q.next = 0 \/ k < q.next
  <2>1. ASSUME NEW k \in 1 .. Len(c) PROVE c[k].sent <=> q.next = 0 \/ k < q.next
    <3>1. CASE c[k].piece # i
      BY <1>3, <1>5, <3>1
    <3>2. CASE c[k].piece = i
      BY <1>3, <1>4, <1>5, <3>2
    <3> QED
      BY <3>1, <3>2
  <2> QED
    BY <2>1
<1>9. [list |-> c, next |-> q.next] \in PeerQueues
  BY <1>7, <1>8 DEF PeerQueues, Divided
<1>10. \A k \in 1 .. Len(s) : \E m \in 1 .. Len(s) : g[m] = k
  <2> DEFINE T == 1 .. Len(s)
  <2>0. g \in [T -> T] /\ \A j, k \in T : j # k => g[j] # g[k]
    BY <1>5
  <2>1. IsFiniteSet(T) /\ g \in Injection(T, T)
    <3>1. IsFiniteSet(T)
      BY <1>2, FS_Interval
    <3> HIDE DEF T
    <3> QED
      BY <2>0, <3>1 DEF Injection, IsInjective
  <2> HIDE DEF T
  <2>2. g \in Surjection(T, T)
    BY <2>1, FS_Injection
  <2> QED
    BY <2>2 DEF T, Surjection
<1>11. ASSUME NEW j PROVE Offs([list |-> c, next |-> q.next], j) = Offs(q, j)
  <2> DEFINE w == [list |-> c, next |-> q.next]
  <2>1. w \in Queues /\ w.list = c /\ q.list = s
    BY <1>9 DEF PeerQueues, s
  <2> HIDE DEF w
  <2>2. \A o : /\ o \in Offs(w, j) <=> \E k \in 1 .. Len(c) : c[k].piece = j /\ c[k].off = o
               /\ o \in Offs(q, j) <=> \E k \in 1 .. Len(s) : s[k].piece = j /\ s[k].off = o
    BY <1>1, <2>1, OffsIs
  <2>3. ASSUME NEW k \in 1 .. Len(s), s[k].piece = j
        PROVE  \E m \in 1 .. Len(c) : c[m].piece = j /\ c[m].off = s[k].off
    <3>1. PICK m \in 1 .. Len(s) : g[m] = k
      BY <1>10
    <3>2. c[m].piece = s[m].piece /\ s[k].piece = s[m].piece /\ c[m].off = s[k].off /\ m \in 1 .. Len(c)
      BY <1>5, <3>1
    <3> QED
      BY <2>3, <3>2
  <2>4. ASSUME NEW m \in 1 .. Len(c), c[m].piece = j
        PROVE  \E k \in 1 .. Len(s) : s[k].piece = j /\ s[k].off = c[m].off
    BY <1>5, <2>4
  <2>5. ASSUME NEW o PROVE o \in Offs(w, j) <=> o \in Offs(q, j)
    <3>1. ASSUME o \in Offs(w, j) PROVE o \in Offs(q, j)
      <4>1. PICK m \in 1 .. Len(c) : c[m].piece = j /\ c[m].off = o
        BY <2>2, <3>1
      <4>2. \E k \in 1 .. Len(s) : s[k].piece = j /\ s[k].off = o
        BY <2>4, <4>1
      <4> QED
        BY <2>2, <4>2
    <3>2. ASSUME o \in Offs(q, j) PROVE o \in Offs(w, j)
      <4>1. PICK k \in 1 .. Len(s) : s[k].piece = j /\ s[k].off = o
        BY <2>2, <3>2
      <4>2. \E m \in 1 .. Len(c) : c[m].piece = j /\ c[m].off = o
        BY <2>3, <4>1
      <4> QED
        BY <2>2, <4>2
    <3> QED
      BY <3>1, <3>2
  <2> QED
    BY <2>5, Same DEF w
<1> QED
  BY <1>5, <1>9, <1>11 DEF Fresh

\* The cursor is not behind the first slice of such a piece.
LEMMA FreshIs ==
  ASSUME NEW q \in PeerQueues, NEW i, Fresh(q, i), HasPiece(q, i)
  PROVE  q.next # 0 /\ q.next <= First(q, i)
<1>1. q \in Queues
  BY DEF PeerQueues
<1>2. First(q, i) \in 1 .. Len(q.list) /\ q.list[First(q, i)].piece = i /\ q.next \in Nat /\ Len(q.list) \in Nat
  BY <1>1, RunIs, QueueIs
<1>3. ~ q.list[First(q, i)].sent
  BY <1>2 DEF Fresh
<1> QED
  BY <1>2, <1>3 DEF PeerQueues, Divided

\* MoveLast of a slice of such a piece.
LEMMA MoveLastIs ==
  ASSUME NEW q \in PeerQueues, NEW i, NEW o, Fresh(q, i)
  PROVE  /\ MoveLast(q, i, o) \in PeerQueues /\ Fresh(MoveLast(q, i, o), i)
         /\ Owed(MoveLast(q, i, o)) = Owed(q)
         /\ HasPiece(q, i) => HasPiece(MoveLast(q, i, o), i)
         /\ \A j : Offs(MoveLast(q, i, o), j) = Offs(q, j)
<1> DEFINE s == q.list
           k == Lowest(At(q, i, o))
           last == Last(q, i)
           r == [q.list[k] EXCEPT !.sent = FALSE]
           a == SubSeq(s, 1, k - 1)
           b == SubSeq(s, k + 1, last)
           d == SubSeq(s, last + 1, Len(s))
           c == a \o b \o <<r>> \o d
           x == IF k < q.next /\ q.next <= last THEN q.next - 1 ELSE q.next
<1>0. q \in Queues
  BY DEF PeerQueues
<1>1. CASE ~ HasSlice(q, i, o) \/ k = last
  BY <1>1 DEF MoveLast
<1>2. CASE ~ (~ HasSlice(q, i, o) \/ k = last)
  <2>1. HasPiece(q, i)
    BY <1>2 DEF HasSlice, HasPiece, At
  <2>2. /\ k \in 1 .. Len(s) /\ s[k].piece = i
    BY <1>0, <1>2, PlaceIs
  <2>3. /\ last \in 1 .. Len(s) /\ First(q, i) \in 1 .. Len(s) /\ First(q, i) <= last
        /\ \A m \in 1 .. Len(s) : s[m].piece = i <=> m \in First(q, i) .. last
    BY <1>0, <2>1, RunIs
  <2>4. q.next # 0 /\ q.next <= First(q, i) /\ q.next \in Nat
    BY <1>0, <2>1, FreshIs, QueueIs
  <2>5. First(q, i) <= k /\ k < last /\ Len(s) \in Nat
    <3>1. k \in First(q, i) .. last /\ k # last
      BY <1>2, <2>2, <2>3
    <3> QED
      BY <1>0, <2>3, <3>1, QueueIs
  <2>6. MoveLast(q, i, o) = [list |-> c, next |-> q.next]
    <3>1. x = q.next
      <4>1. ~ (k < q.next)
        <5> HIDE DEF s, k, last
        <5>1. First(q, i) \in Nat /\ k \in Int
          BY <2>2, <2>3
        <5> QED
          BY <2>4, <2>5, <5>1
      <4> QED
        BY <4>1
    <3>2. MoveLast(q, i, o) = [list |-> c, next |-> x]
      BY <1>2 DEF MoveLast
    <3> QED
      BY <3>1, <3>2
  <2>7. /\ s \in Seq(Request) /\ Len(s) \in Nat /\ \A m \in 1 .. Len(s) : s[m] \in Request
    BY <1>0, QueueIs
  <2>8. r \in Request /\ r.piece = i /\ r.off = s[k].off /\ ~ r.sent
    <3>1. s[k] \in Request /\ s[k].piece = i
      BY <2>2, <2>7
    <3> QED
      BY <3>1 DEF Request
  <2> DEFINE u == a \o b
             v == u \o <<r>>
             g == [m \in 1 .. Len(s) |-> IF m = last THEN k ELSE IF m \in k .. last THEN m + 1 ELSE m]
  <2> HIDE DEF s, k, last, r
  <2>9. /\ a \in Seq(Request) /\ Len(a) = k - 1 /\ \A m \in 1 .. k - 1 : a[m] = s[m]
    <3>1. /\ 1 \in Int /\ k - 1 \in Int /\ \A m \in 1 .. k - 1 : s[m] \in Request
      BY <2>2, <2>7
    <3>2. /\ a \in Seq(Request) /\ Len(a) = IF 1 <= k - 1 THEN k - 1 - 1 + 1 ELSE 0
          /\ \A m \in 1 .. k - 1 - 1 + 1 : a[m] = s[1 + m - 1]
      BY <3>1, SubSeqProperties
    <3> HIDE DEF a
    <3> QED
      BY <2>2, <3>2
  <2>10. /\ b \in Seq(Request) /\ Len(b) = last - k /\ \A m \in 1 .. last - k : b[m] = s[k + m]
    <3>1. /\ k + 1 \in Int /\ last \in Int /\ \A m \in k + 1 .. last : s[m] \in Request
      BY <2>2, <2>3, <2>7
    <3>2. /\ b \in Seq(Request) /\ Len(b) = IF k + 1 <= last THEN last - (k + 1) + 1 ELSE 0
          /\ \A m \in 1 .. last - (k + 1) + 1 : b[m] = s[k + 1 + m - 1]
      BY <3>1, SubSeqProperties
    <3> HIDE DEF b
    <3> QED
      BY <2>2, <2>3, <2>5, <3>2
  <2>11. /\ d \in Seq(Request) /\ Len(d) = Len(s) - last /\ \A m \in 1 .. Len(s) - last : d[m] = s[last + m]
    <3>1. /\ last + 1 \in Int /\ Len(s) \in Int /\ \A m \in last + 1 .. Len(s) : s[m] \in Request
      BY <2>2, <2>3, <2>7
    <3>2. /\ d \in Seq(Request) /\ Len(d) = IF last + 1 <= Len(s) THEN Len(s) - (last + 1) + 1 ELSE 0
          /\ \A m \in 1 .. Len(s) - (last + 1) + 1 : d[m] = s[last + 1 + m - 1]
      BY <3>1, SubSeqProperties
    <3> HIDE DEF d
    <3> QED
      BY <2>2, <2>3, <2>5, <2>7, <3>2
  <2> HIDE DEF a, b, d
  <2>12. /\ u \in Seq(Request) /\ Len(u) = last - 1
         /\ \A m \in 1 .. last - 1 : u[m] = IF m < k THEN s[m] ELSE s[m + 1]
    <3>1. a \in Seq(Request) /\ b \in Seq(Request)
      BY <2>9, <2>10
    <3>2. /\ u \in Seq(Request) /\ Len(u) = Len(a) + Len(b)
          /\ \A m \in 1 .. Len(a) : u[m] = a[m]
          /\ \A m \in Len(a) + 1 .. Len(a) + Len(b) : u[m] = b[m - Len(a)]
      BY <3>1, Cat
    <3> HIDE DEF u
    <3>3. Len(u) = last - 1
      BY <2>2, <2>3, <2>9, <2>10, <3>2
    <3>4. ASSUME NEW m \in 1 .. last - 1 PROVE u[m] = IF m < k THEN s[m] ELSE s[m + 1]
      <4>1. CASE m < k
        <5>1. m \in 1 .. k - 1 /\ m \in 1 .. Len(a)
          BY <2>2, <2>9, <4>1
        <5> QED
          BY <2>9, <3>2, <4>1, <5>1
      <4>2. CASE ~ (m < k)
        <5>1. /\ m \in Len(a) + 1 .. Len(a) + Len(b) /\ m - Len(a) \in 1 .. last - k
              /\ k + (m - Len(a)) = m + 1
          <6>1. k \in Nat /\ last \in Nat
            BY <2>2, <2>3
          <6>2. Len(a) = k - 1 /\ Len(b) = last - k
            BY <2>9, <2>10
          <6> QED
            BY <4>2, <6>1, <6>2
        <5>2. u[m] = b[m - Len(a)] /\ b[m - Len(a)] = s[k + (m - Len(a))]
          BY <2>10, <3>2, <5>1
        <5> QED
          BY <4>2, <5>1, <5>2
      <4> QED
        BY <4>1, <4>2
    <3> QED
      BY <3>2, <3>3, <3>4
  <2> HIDE DEF u
  <2>13. /\ v \in Seq(Request) /\ Len(v) = last /\ v[last] = r
         /\ \A m \in 1 .. last - 1 : v[m] = u[m]
    <3>1. <<r>> \in Seq(Request) /\ Len(<<r>>) = 1 /\ <<r>>[1] = r
      BY <2>8
    <3>2. /\ v \in Seq(Request) /\ Len(v) = Len(u) + Len(<<r>>)
          /\ \A m \in 1 .. Len(u) : v[m] = u[m]
          /\ \A m \in Len(u) + 1 .. Len(u) + Len(<<r>>) : v[m] = <<r>>[m - Len(u)]
      BY <2>12, <3>1, Cat
    <3> HIDE DEF v
    <3>3. last \in Len(u) + 1 .. Len(u) + Len(<<r>>) /\ last - Len(u) = 1
      BY <2>3, <2>12, <3>1
    <3> QED
      BY <2>3, <2>12, <3>1, <3>2, <3>3
  <2> HIDE DEF v
  <2>14. /\ c \in Seq(Request) /\ Len(c) = Len(s)
         /\ \A m \in 1 .. last : c[m] = v[m]
         /\ \A m \in last + 1 .. Len(s) : c[m] = s[m]
    <3>1. c = v \o d
      BY DEF v, u
    <3> HIDE DEF c
    <3>2. v \in Seq(Request) /\ d \in Seq(Request)
      BY <2>11, <2>13
    <3>3. /\ c \in Seq(Request) /\ Len(c) = Len(v) + Len(d)
          /\ \A m \in 1 .. Len(v) : c[m] = v[m]
          /\ \A m \in Len(v) + 1 .. Len(v) + Len(d) : c[m] = d[m - Len(v)]
      BY <3>1, <3>2, Cat
    <3>4. Len(c) = Len(s) /\ Len(v) = last /\ Len(d) = Len(s) - last
      BY <2>3, <2>5, <2>11, <2>13, <3>3
    <3>5. ASSUME NEW m \in last + 1 .. Len(s) PROVE c[m] = s[m]
      <4>1. m \in Len(v) + 1 .. Len(v) + Len(d) /\ m - Len(v) \in 1 .. Len(s) - last /\ last + (m - Len(v)) = m
        BY <2>3, <2>5, <3>4
      <4>2. c[m] = d[m - Len(v)] /\ d[m - Len(v)] = s[last + (m - Len(v))]
        BY <2>11, <3>3, <4>1
      <4> QED
        BY <4>1, <4>2
    <3> QED
      BY <3>3, <3>4, <3>5
  <2> HIDE DEF c
  <2>15. g \in [1 .. Len(c) -> 1 .. Len(c)] /\ \A j, m \in 1 .. Len(c) : j # m => g[j] # g[m]
    BY <2>2, <2>3, <2>5, <2>14
  <2>16. ASSUME NEW m \in 1 .. Len(c)
         PROVE  /\ c[m].piece = s[m].piece
                /\ s[g[m]].piece = s[m].piece
                /\ c[m].off = s[g[m]].off
                /\ c[m].piece # i => (c[m].sent <=> s[m].sent)
                /\ c[m].piece = i => ~ c[m].sent
    <3>1. \A j \in 1 .. Len(s) : s[j].piece = i => ~ s[j].sent
      BY DEF Fresh, s
    <3>2. CASE m = last
      <4>1. c[m] = r /\ g[m] = k /\ s[m].piece = i
        BY <2>3, <2>13, <2>14, <3>2
      <4> QED
        BY <2>2, <2>8, <4>1
    <3>3. CASE m < last /\ m < k
      <4>1. c[m] = s[m] /\ g[m] = m
        BY <2>2, <2>3, <2>12, <2>13, <2>14, <3>3
      <4> QED
        BY <2>14, <3>1, <4>1
    <3>4. CASE m < last /\ ~ (m < k)
      <4>0. m \in 1 .. last - 1 /\ m \in 1 .. last /\ m \in k .. last /\ m # last /\ m \in 1 .. Len(s)
        BY <2>2, <2>3, <2>14, <3>4
      <4>1. c[m] = s[m + 1] /\ g[m] = m + 1
        <5>1. c[m] = v[m] /\ v[m] = u[m] /\ u[m] = s[m + 1]
          BY <2>12, <2>13, <2>14, <3>4, <4>0
        <5> QED
          BY <4>0, <5>1
      <4>2. m \in First(q, i) .. last /\ m + 1 \in First(q, i) .. last /\ m \in 1 .. Len(s) /\ m + 1 \in 1 .. Len(s)
        BY <2>2, <2>3, <2>5, <2>14, <3>4
      <4>3. s[m].piece = i /\ s[m + 1].piece = i
        BY <2>3, <4>2
      <4> QED
        BY <3>1, <4>1, <4>2, <4>3
    <3>5. CASE m > last
      <4>1. c[m] = s[m] /\ g[m] = m
        BY <2>2, <2>3, <2>5, <2>14, <3>5
      <4> QED
        BY <2>14, <3>1, <4>1
    <3> QED
      BY <2>3, <2>14, <3>2, <3>3, <3>4, <3>5
  <2> HIDE DEF g
  <2>17. /\ [list |-> c, next |-> q.next] \in PeerQueues /\ Fresh([list |-> c, next |-> q.next], i)
         /\ \A j : Offs([list |-> c, next |-> q.next], j) = Offs(q, j)
    <3>1. Len(c) = Len(q.list)
      BY <2>14 DEF s
    <3> QED
      BY <2>14, <2>15, <2>16, <3>1, Reordered DEF s
  <2>18. Owed([list |-> c, next |-> q.next]) = Owed(q)
    BY <2>14 DEF Owed, s
  <2>19. HasPiece([list |-> c, next |-> q.next], i)
    <3>1. last \in 1 .. Len(c) /\ c[last].piece = i
      BY <2>3, <2>8, <2>13, <2>14
    <3>2. [list |-> c, next |-> q.next] \in Queues
      BY <2>17 DEF PeerQueues
    <3> QED
      BY <3>1, <3>2, HasIs
  <2> QED
    BY <2>6, <2>17, <2>18, <2>19 DEF c, s, k, last, r, a, b, d
<1> QED
  BY <1>1, <1>2

\* Shuffle of such a piece.
LEMMA ShuffleIs ==
  ASSUME NEW q \in PeerQueues, NEW i, Fresh(q, i), HasPiece(q, i), NEW u \in Shuffle(q, i)
  PROVE  /\ u \in PeerQueues /\ Fresh(u, i) /\ Owed(u) = Owed(q) /\ HasPiece(u, i)
         /\ \A j : Offs(u, j) = Offs(q, j)
<1> DEFINE w == Where(q, i)
           f == First(q, i)
           s == q.list
<1>0. q \in Queues
  BY DEF PeerQueues
<1>1. CASE Cardinality(w) < 2
  BY <1>1 DEF Shuffle
<1>2. CASE ~ (Cardinality(w) < 2)
  <2>1. PICK g \in [w -> w] :
          /\ \A j, k \in w : j # k => g[j] # g[k]
          /\ u = [list |-> [k \in DOMAIN q.list |-> IF k \in w THEN q.list[g[k]] ELSE q.list[k]],
                  next |-> IF q.next \in w THEN f ELSE q.next]
    BY <1>2 DEF Shuffle
  <2> DEFINE c == [k \in DOMAIN q.list |-> IF k \in w THEN q.list[g[k]] ELSE q.list[k]]
             h == [k \in 1 .. Len(s) |-> IF k \in w THEN g[k] ELSE k]
  <2>2. /\ s \in Seq(Request) /\ Len(s) \in Nat /\ DOMAIN s = 1 .. Len(s)
        /\ \A k \in 1 .. Len(s) : s[k] \in Request
    BY <1>0, QueueIs
  <2>3. /\ w \in SUBSET (1 .. Len(s)) /\ \A k \in 1 .. Len(s) : s[k].piece = i <=> k \in w
        /\ \A k \in w : f <= k
    <3>1. /\ f \in 1 .. Len(s) /\ Last(q, i) \in 1 .. Len(s) /\ w = f .. Last(q, i)
          /\ \A k \in 1 .. Len(s) : s[k].piece = i <=> k \in f .. Last(q, i)
      BY <1>0, RunIs
    <3> HIDE DEF w, s, f
    <3> QED
      BY <2>2, <3>1
  <2>4. q.next # 0 /\ q.next <= f /\ q.next \in Nat
    BY <1>0, FreshIs, QueueIs
  <2>5. f \in Nat /\ u = [list |-> c, next |-> q.next]
    <3>1. f \in Nat
      BY <1>0, RunIs, QueueIs
    <3>2. q.next \in w => f = q.next
      BY <2>3, <2>4, <3>1
    <3> QED
      BY <2>1, <3>1, <3>2
  <2> HIDE DEF w, s, f
  <2>6. c = [k \in 1 .. Len(s) |-> IF k \in w THEN s[g[k]] ELSE s[k]]
    BY <2>2 DEF s
  <2> HIDE DEF c
  <2>7. \A k \in 1 .. Len(s) : h[k] \in 1 .. Len(s) /\ c[k] = s[h[k]] /\ s[h[k]].piece = s[k].piece
    <3>1. ASSUME NEW k \in 1 .. Len(s)
          PROVE  h[k] \in 1 .. Len(s) /\ c[k] = s[h[k]] /\ s[h[k]].piece = s[k].piece
      <4>1. CASE k \in w
        <5>1. g[k] \in w /\ h[k] = g[k] /\ c[k] = s[g[k]]
          BY <2>6, <4>1
        <5> QED
          BY <2>3, <4>1, <5>1
      <4>2. CASE k \notin w
        BY <2>6, <4>2
      <4> QED
        BY <4>1, <4>2
    <3> QED
      BY <3>1
  <2>8. \A j, k \in 1 .. Len(s) : j # k => h[j] # h[k]
    BY <2>1, <2>3
  <2>9. c \in Seq(Request) /\ Len(c) = Len(s)
    <3>1. \A k \in 1 .. Len(s) : c[k] \in Request
      BY <2>2, <2>7
    <3> QED
      BY <2>2, <2>6, <3>1
  <2>10. h \in [1 .. Len(c) -> 1 .. Len(c)]
    BY <2>7, <2>9
  <2>11. \A k \in 1 .. Len(s) : (s[k].piece # i => h[k] = k)
    BY <2>3
  <2> HIDE DEF h
  <2>12. \A k \in 1 .. Len(s) : s[k].piece = i => ~ s[k].sent
    BY DEF Fresh, s
  <2>13. ASSUME NEW k \in 1 .. Len(c)
         PROVE  /\ c[k].piece = q.list[k].piece
                /\ q.list[h[k]].piece = q.list[k].piece
                /\ c[k].off = q.list[h[k]].off
                /\ c[k].piece # i => (c[k].sent <=> q.list[k].sent)
                /\ c[k].piece = i => ~ c[k].sent
    <3>1. /\ k \in 1 .. Len(s) /\ h[k] \in 1 .. Len(s) /\ c[k] = s[h[k]] /\ s[h[k]].piece = s[k].piece
      BY <2>7, <2>9
    <3> QED
      BY <2>11, <2>12, <3>1 DEF s
  <2>14. /\ [list |-> c, next |-> q.next] \in PeerQueues /\ Fresh([list |-> c, next |-> q.next], i)
         /\ \A j : Offs([list |-> c, next |-> q.next], j) = Offs(q, j)
    <3>1. Len(c) = Len(q.list) /\ \A j, k \in 1 .. Len(c) : j # k => h[j] # h[k]
      BY <2>8, <2>9 DEF s
    <3> QED
      BY <2>9, <2>10, <2>13, <3>1, Reordered
  <2>15. Owed([list |-> c, next |-> q.next]) = Owed(q)
    BY <2>9 DEF Owed, s
  <2>16. HasPiece([list |-> c, next |-> q.next], i)
    <3>1. PICK k \in 1 .. Len(s) : s[k].piece = i
      BY <1>0, HasIs DEF s
    <3>2. k \in 1 .. Len(c) /\ c[k].piece = i
      BY <2>7, <2>9, <3>1
    <3>3. [list |-> c, next |-> q.next] \in Queues
      BY <2>14 DEF PeerQueues
    <3> QED
      BY <3>2, <3>3, HasIs
  <2> QED
    BY <2>5, <2>14, <2>15, <2>16
<1> QED
  BY <1>1, <1>2

-----------------------------------------------------------------------------
(* PENDING.                                                                *)

\* What may become of d when pieces of q come into it that it has not got.
Gains(q, d) ==
  {x \in Parked : \A j : Offs(x, j) = Offs(d, j) \/ (Offs(d, j) = {} /\ Offs(x, j) = Offs(q, j))}

\* Transfer of a piece to PENDING, or its refusal.
LEMMA TransferIs ==
  ASSUME NEW q \in PeerQueues, NEW d \in Parked, NEW i, HasPiece(q, i)
  PROVE  Transfer(q, d, i) \in Gains(q, d)
<1>1. CASE Refused(q, d, i)
  BY <1>1 DEF Transfer, Gains
<1>2. CASE ~ Refused(q, d, i)
  <2>1. ~ HasPiece(d, i) /\ Transfer(q, d, i) = Enter(d, Segment(q, i))
    BY <1>2 DEF Refused, Transfer
  <2> DEFINE g == Segment(q, i)
  <2>2. g \in Runs(i) /\ d \in Queues /\ \A o : o \in Offs(q, i) <=> \E k \in 1 .. Len(g) : g[k].off = o
    BY SegmentIs DEF Parked
  <2> HIDE DEF g
  <2>3. /\ Enter(d, g) \in Parked
        /\ \A o : o \in Offs(Enter(d, g), i) <=> \E k \in 1 .. Len(g) : g[k].off = o
        /\ \A j : j # i => Offs(Enter(d, g), j) = Offs(d, j)
    BY <2>1, <2>2, EnterIs
  <2>4. Offs(Enter(d, g), i) = Offs(q, i)
    BY <2>2, <2>3
  <2>5. Offs(d, i) = {}
    BY <2>1, <2>2, OffsIs
  <2> QED
    BY <2>1, <2>3, <2>4, <2>5 DEF Gains, g
<1> QED
  BY <1>1, <1>2

\* Transfer of all pieces: a loop over the queue.
LEMMA TransferQueueIs ==
  ASSUME NEW q \in PeerQueues, NEW d \in Parked
  PROVE  TransferQueue(q, d).pend \in Gains(q, d)
<1> DEFINE N == Len(q.list)
           first(k) == k = First(q, q.list[k].piece)
           step(k, x) == IF first(k) THEN Transfer(q, x, q.list[k].piece) ELSE x
           D == [n \in 0 .. N |-> Gains(q, d)]
           G == [n \in 1 .. N |-> [x \in Gains(q, d) |-> step(n, x)]]
           to == CHOOSE f : f = [k \in 0 .. N |-> IF k = 0 THEN d
                                                   ELSE IF first(k) THEN Transfer(q, f[k - 1], q.list[k].piece)
                                                   ELSE f[k - 1]]
<1>1. TransferQueue(q, d).pend = to[N]
  BY Zenon DEF TransferQueue
<1>2. N \in Nat /\ q \in Queues /\ d \in D[0]
  <2>1. q \in Queues /\ d \in Gains(q, d)
    BY DEF PeerQueues, Gains
  <2> QED
    BY <2>1, QueueIs
<1>3. ASSUME NEW n \in 1 .. N, NEW x \in D[n - 1]
      PROVE  G[n][x] \in D[n] /\ G[n][x] = step(n, x)
  <2>1. HasPiece(q, q.list[n].piece)
    BY <1>2, HasIs
  <2>2. x \in Gains(q, d) /\ x \in Parked
    BY <1>2 DEF Gains
  <2>3. Transfer(q, x, q.list[n].piece) \in Gains(q, x)
    BY <2>1, <2>2, TransferIs
  <2>4. Gains(q, x) \subseteq Gains(q, d)
    BY <2>2 DEF Gains
  <2>5. step(n, x) \in Gains(q, d)
    BY <2>2, <2>3, <2>4
  <2> HIDE DEF step
  <2> QED
    BY <2>2, <2>5
<1> HIDE DEF N
<1>4. PICK f : Recursion(f, d, G, N) /\ \A n \in 0 .. N : f[n] \in D[n]
  <2>1. \A n \in 1 .. N : \A x \in D[n - 1] : G[n][x] \in D[n]
    BY <1>3
  <2> HIDE DEF D, G
  <2> QED
    BY <1>2, <2>1, LoopSound
<1> HIDE DEF D, G, first
<1>5. f = [k \in 0 .. N |-> IF k = 0 THEN d ELSE step(k, f[k - 1])]
  <2>1. ASSUME NEW k \in 0 .. N, k # 0
        PROVE  G[k][f[k - 1]] = step(k, f[k - 1])
    <3>1. k \in 1 .. N /\ k - 1 \in 0 .. N
      BY <1>2, <2>1
    <3> HIDE DEF step
    <3> QED
      BY <1>3, <1>4, <3>1
  <2>2. f = [k \in 0 .. N |-> IF k = 0 THEN d ELSE G[k][f[k - 1]]]
    BY <1>4 DEF Recursion
  <2> HIDE DEF step
  <2> QED
    BY <2>1, <2>2
<1>6. to = [k \in 0 .. N |-> IF k = 0 THEN d ELSE step(k, to[k - 1])]
  BY <1>5, Zenon
<1> HIDE DEF to
<1>7. \A n \in 0 .. N : to[n] \in D[n]
  <2>1. to[0] \in D[0]
    BY <1>2, <1>6
  <2>2. ASSUME NEW n \in 1 .. N, to[n - 1] \in D[n - 1] PROVE to[n] \in D[n]
    <3>1. n \in 0 .. N /\ n # 0
      BY <1>2
    <3>2. to[n] = step(n, to[n - 1])
      BY <1>6, <3>1
    <3> HIDE DEF step
    <3> QED
      BY <1>3, <2>2, <3>2
  <2> QED
    BY <1>2, <2>1, <2>2, LoopWithin
<1> QED
  BY <1>1, <1>2, <1>7 DEF D

-----------------------------------------------------------------------------
(* Peers, as the peer list has them.                                       *)

\* A peer as the peer list has it: what is asked of it is in its queue, and only while
\* it is of interest; and, but for writes that are refused, m_req_out counts what it owes.
Records ==
  {r \in [status : {"up", "failed", "gone"}, int : BOOLEAN, choked : BOOLEAN, bf : SUBSET Pieces,
          q : PeerQueues, out : Int, depth : Nat, standby : BOOLEAN, last : Pieces \union {None},
          grace : BOOLEAN] :
     /\ r.int \/ r.q.list = << >>
     /\ "write" \in Upsets \/ r.out = Owed(r.q)}

\* States of which every record and queue is in order.
Typed ==
  [peer : [Peers -> Records], pend : Parked, mult : SUBSET Pieces, have : SUBSET Pieces,
   store : [Slices -> {"none", "good", "bad"}], dups : Int, endgame : BOOLEAN, failed : BOOLEAN,
   paused : BOOLEAN, blamed : SUBSET (Peers \X Pieces), upsets : Nat]

\* Where a piece may be listed: with a peer, or in PENDING.
Park  == CHOOSE x : x \notin Peers
Slots == Peers \union {Park}
Part(t, s, i) == IF s \in Peers THEN Offs(Q(t, s), i) ELSE Offs(t.pend, i)

\* The pieces that are listed twice, those m_dup_req_pieces is about.
Twice(t, i) == \E s, x \in Slots : s # x /\ Part(t, s, i) # {} /\ Part(t, x, i) # {}
Twices(t)   == {i \in Pieces : Twice(t, i)}

\* Nothing is asked of those that are not connected.
Idle(t) == \A p \in Peers : t.peer[p].status = "up" \/ Q(t, p).list = << >>

\* A piece that is complete is not listed; whoever lists another lists all of it that is
\* missing; and what an honest peer is the only one to be asked for and does not list any
\* more, has come from it.
Kept(t, i) ==
  /\ i \in t.have => \A s \in Slots : Part(t, s, i) = {}
  /\ i \notin t.have => \A s \in Slots, o \in Offsets :
       Part(t, s, i) # {} /\ t.store[<<i, o>>] = "none" => o \in Part(t, s, i)
  /\ "write" \notin Upsets /\ i \notin t.have /\ i \notin t.mult =>
       \A p \in Peers \ Liars, o \in Offsets :
         Part(t, p, i) # {} => o \in Part(t, p, i) \/ t.store[<<i, o>>] = "good"

\* How the lists, the marks and the count are linked, but for what is kept of piece k.
Almost(t, k) ==
  /\ Idle(t)
  /\ \A i \in Pieces : Twice(t, i) => i \in t.mult
  /\ \A i \in Pieces : i # k => Kept(t, i)
  /\ t.dups >= Cardinality(Twices(t))
  /\ "write" \in Upsets \/ \A b \in t.blamed : b[1] \in Liars
Nearly(k) == {t \in Typed : Almost(t, k)}
Worlds    == Nearly(None)

\* The inductive invariant.
Inv == Cur \in Worlds

\* Sent and leading sent slices are those before the cursor, in a peer's queue.
LEMMA OwedIs ==
  ASSUME NEW q \in PeerQueues
  PROVE  /\ Owed(q) \in Nat /\ Owed(q) <= Len(q.list)
         /\ SentSlices(q) = 1 .. Owed(q) /\ LeadingSent(q) = 1 .. Owed(q)
         /\ Cardinality(SentSlices(q)) = Owed(q) /\ Cardinality(LeadingSent(q)) = Owed(q)
<1>1. /\ Len(q.list) \in Nat /\ DOMAIN q.list = 1 .. Len(q.list) /\ q.next \in Nat /\ q.next <= Len(q.list)
  BY QueueIs DEF PeerQueues
<1>2. Owed(q) \in Nat /\ Owed(q) <= Len(q.list)
  BY <1>1 DEF Owed
<1>3. \A k \in 1 .. Len(q.list) : q.list[k].sent <=> k <= Owed(q)
  BY <1>1 DEF PeerQueues, Divided, Owed
<1>4. SentSlices(q) = 1 .. Owed(q)
  BY <1>1, <1>2, <1>3 DEF SentSlices
<1>5. LeadingSent(q) = 1 .. Owed(q)
  BY <1>1, <1>2, <1>3 DEF LeadingSent
<1>6. Cardinality(1 .. Owed(q)) = Owed(q)
  BY <1>2, FS_Interval
<1> QED
  BY <1>2, <1>4, <1>5, <1>6

\* An empty queue owes nothing.
LEMMA EmptyIs ==
  /\ EmptyQueue \in PeerQueues /\ EmptyQueue \in Parked /\ EmptyQueue.list = << >> /\ Owed(EmptyQueue) = 0
  /\ \A q \in PeerQueues : q.list = << >> => Owed(q) = 0
<1>1. EmptyQueue \in Queues /\ Len(EmptyQueue.list) = 0
  BY DEF EmptyQueue, Queues, Lists, Shape
<1>2. EmptyQueue \in PeerQueues /\ EmptyQueue \in Parked
  BY <1>1 DEF PeerQueues, Parked, Divided
<1>3. \A q \in PeerQueues : q.list = << >> => Owed(q) = 0
  <2>1. ASSUME NEW q \in PeerQueues, q.list = << >> PROVE Owed(q) = 0
    <3>1. q.next \in Nat /\ q.next <= 0
      BY <2>1, QueueIs DEF PeerQueues
    <3> QED
      BY <2>1, <3>1 DEF Owed
  <2> QED
    BY <2>1
<1> QED
  BY <1>2, <1>3 DEF EmptyQueue

\* What a peer's record is made of.
LEMMA RecordIs ==
  ASSUME NEW r \in Records
  PROVE  /\ r.status \in {"up", "failed", "gone"} /\ r.int \in BOOLEAN /\ r.choked \in BOOLEAN
         /\ r.bf \in SUBSET Pieces /\ r.q \in PeerQueues /\ r.q \in Queues /\ r.out \in Int /\ r.depth \in Nat
         /\ r.standby \in BOOLEAN /\ r.last \in Pieces \union {None} /\ r.grace \in BOOLEAN
         /\ r.int \/ r.q.list = << >>
         /\ "write" \in Upsets \/ r.out = Owed(r.q)
<1>1. r.q \in PeerQueues
  BY DEF Records
<1>2. r.q \in Queues
  BY <1>1 DEF PeerQueues
<1> QED
  BY <1>1, <1>2 DEF Records

\* Changes of a record that leave its queue alone.
LEMMA RecordChanged ==
  ASSUME NEW r \in Records
  PROVE  /\ \A v \in BOOLEAN : [r EXCEPT !.standby = v] \in Records
         /\ \A v \in BOOLEAN : [r EXCEPT !.grace = v] \in Records
         /\ \A v \in Nat : [r EXCEPT !.depth = v] \in Records
         /\ \A v \in SUBSET Pieces : [r EXCEPT !.bf = v] \in Records
         /\ \A v \in Pieces \union {None} : [r EXCEPT !.last = v] \in Records
         /\ \A v \in {"up", "failed", "gone"} : [r EXCEPT !.status = v] \in Records
BY DEF Records

\* The queue is replaced; what is asked of the peer in addition is sent later.
LEMMA Requeued ==
  ASSUME NEW r \in Records, NEW q \in PeerQueues, r.int \/ q.list = << >>
  PROVE  /\ Owed(q) = Owed(r.q) => [r EXCEPT !.q = q] \in Records
         /\ \A o \in Int : o = Owed(q) \/ "write" \in Upsets => [r EXCEPT !.q = q, !.out = o] \in Records
BY DEF Records

\* A peer whose queue is emptied owes nothing.
LEMMA EmptiedIs ==
  ASSUME NEW r \in Records
  PROVE  [r EXCEPT !.q = EmptyQueue, !.out = 0] \in Records
<1>1. \A o \in Int : o = 0 => [r EXCEPT !.q = EmptyQueue, !.out = o] \in Records
  BY EmptyIs DEF Records
<1> DEFINE o == 0
<1>2. o \in Int /\ o = 0
  OBVIOUS
<1> HIDE DEF o
<1>3. [r EXCEPT !.q = EmptyQueue, !.out = o] \in Records
  BY <1>1, <1>2
<1> QED
  BY <1>3 DEF o

\* Cancelled requests are subtracted from those outstanding.
LEMMA LessIs ==
  ASSUME NEW out \in Int, NEW n \in Nat
  PROVE  Less(out, n) \in Int /\ (n <= out => Less(out, n) = out - n)
BY DEF Less

\* CancelRequest cancels all that was sent, as the sent slices lead the queue.
LEMMA UninterestedIs ==
  ASSUME NEW r \in Records
  PROVE  /\ Uninterested(r) \in Records /\ Uninterested(r).q.list = << >>
         /\ Uninterested(r).status = r.status /\ Uninterested(r).bf = r.bf
<1> DEFINE n == Cardinality(LeadingSent(r.q))
<1>0. r.q \in PeerQueues /\ r.out \in Int /\ r.grace \in BOOLEAN
  BY RecordIs
<1>1. CASE ~ r.int
  BY <1>1, RecordIs DEF Uninterested
<1>2. CASE r.int
  <2>1. Uninterested(r) = [r EXCEPT !.int = FALSE, !.q = EmptyQueue, !.out = Less(r.out, n),
                                    !.grace = r.grace \/ n > 0]
    BY <1>2 DEF Uninterested
  <2>2. n \in Nat /\ n = Owed(r.q)
    BY <1>0, OwedIs
  <2>3. Less(r.out, n) \in Int /\ (r.out = n => Less(r.out, n) = 0)
    BY <1>0, <2>2, LessIs
  <2>4. (r.grace \/ n > 0) \in BOOLEAN
    BY <1>0
  <2>5. "write" \in Upsets \/ Less(r.out, n) = 0
    BY <2>2, <2>3, RecordIs
  <2> HIDE DEF n
  <2> QED
    BY <2>1, <2>3, <2>4, <2>5, EmptyIs DEF Records
<1> QED
  BY <1>0, <1>1, <1>2

\* The piece's requests that were sent are subtracted, and leave the queue.
LEMMA PieceCancelledIs ==
  ASSUME NEW r \in Records, NEW i
  PROVE  /\ PieceCancelled(r, i) \in Records /\ PieceCancelled(r, i).int = r.int
         /\ PieceCancelled(r, i).status = r.status
         /\ Offs(PieceCancelled(r, i).q, i) = {}
         /\ \A j : j # i => Offs(PieceCancelled(r, i).q, j) = Offs(r.q, j)
<1> DEFINE s == {k \in Where(r.q, i) : r.q.list[k].sent}
           n == Cardinality(s)
           q == Delete(r.q, i)
<1>1. CASE ~ HasPiece(r.q, i)
  <2>1. Offs(r.q, i) = {}
    BY <1>1, RecordIs, OffsIs
  <2> QED
    BY <1>1, <2>1 DEF PieceCancelled
<1>2. CASE HasPiece(r.q, i)
  <2>1. PieceCancelled(r, i) = [r EXCEPT !.q = q, !.out = Less(r.out, n), !.grace = r.grace \/ n > 0,
                                         !.standby = r.standby /\ q.list # << >>]
    BY <1>2 DEF PieceCancelled
  <2>2. r.q \in PeerQueues /\ r.q \in Queues /\ r.out \in Int /\ r.grace \in BOOLEAN /\ r.standby \in BOOLEAN
    BY RecordIs
  <2>3. r.int
    <3>1. r.q.list # << >>
      BY <1>2 DEF HasPiece, Where
    <3> QED
      BY <3>1, RecordIs
  <2>4. /\ q \in PeerQueues /\ n \in Nat /\ Owed(q) = Owed(r.q) - n
        /\ Offs(q, i) = {} /\ \A j : j # i => Offs(q, j) = Offs(r.q, j)
    BY <2>2, DeleteIs
  <2> HIDE DEF q, n
  <2>5. Less(r.out, n) \in Int /\ (n <= r.out => Less(r.out, n) = r.out - n)
    BY <2>2, <2>4, LessIs
  <2>6. "write" \in Upsets \/ Less(r.out, n) = Owed(q)
    <3>1. Owed(q) \in Nat /\ Owed(r.q) \in Nat
      BY <2>2, <2>4, OwedIs
    <3> QED
      BY <2>4, <2>5, <3>1, RecordIs
  <2>7. (r.grace \/ n > 0) \in BOOLEAN /\ (r.standby /\ q.list # << >>) \in BOOLEAN
    BY <2>2
  <2>9. LET u == PieceCancelled(r, i) IN u \in Records /\ u.int = r.int /\ u.status = r.status /\ u.q = q
    BY <2>1, <2>3, <2>4, <2>5, <2>6, <2>7 DEF Records
  <2> QED
    BY <2>4, <2>9
<1> QED
  BY <1>1, <1>2

\* The same of a slice.
LEMMA SliceCancelledIs ==
  ASSUME NEW r \in Records, NEW i, NEW o
  PROVE  /\ SliceCancelled(r, i, o) \in Records /\ SliceCancelled(r, i, o).status = r.status
         /\ Offs(SliceCancelled(r, i, o).q, i) = Offs(r.q, i) \ {o}
         /\ \A j : j # i => Offs(SliceCancelled(r, i, o).q, j) = Offs(r.q, j)
<1> DEFINE n == IF IsSent(r.q, i, o) THEN 1 ELSE 0
           q == Remove(r.q, i, o)
<1>1. CASE ~ HasSlice(r.q, i, o)
  <2>1. o \notin Offs(r.q, i)
    BY <1>1, RecordIs, OffsIs
  <2>2. Offs(r.q, i) = Offs(r.q, i) \ {o}
    BY <2>1
  <2> QED
    BY <1>1, <2>2 DEF SliceCancelled
<1>2. CASE HasSlice(r.q, i, o)
  <2>1. SliceCancelled(r, i, o) = [r EXCEPT !.q = q, !.out = Less(r.out, n), !.grace = r.grace \/ n > 0,
                                            !.standby = r.standby /\ q.list # << >>]
    BY <1>2 DEF SliceCancelled
  <2>2. r.q \in PeerQueues /\ r.q \in Queues /\ r.out \in Int /\ r.grace \in BOOLEAN /\ r.standby \in BOOLEAN
    BY RecordIs
  <2>3. r.int
    <3>1. r.q.list # << >>
      BY <1>2 DEF HasSlice, At, Where
    <3> QED
      BY <3>1, RecordIs
  <2>4. q \in PeerQueues /\ n \in Nat /\ Owed(q) = Owed(r.q) - n
    <3>1. Owed(r.q) \in Nat
      BY <2>2, OwedIs
    <3> QED
      BY <2>2, <3>1, RemoveIs
  <2>8. Offs(q, i) = Offs(r.q, i) \ {o} /\ \A j : j # i => Offs(q, j) = Offs(r.q, j)
    BY <2>2, RemoveIs
  <2> HIDE DEF q, n
  <2>5. Less(r.out, n) \in Int /\ (n <= r.out => Less(r.out, n) = r.out - n)
    BY <2>2, <2>4, LessIs
  <2>6. "write" \in Upsets \/ Less(r.out, n) = Owed(q)
    <3>1. Owed(q) \in Nat /\ Owed(r.q) \in Nat
      BY <2>2, <2>4, OwedIs
    <3> QED
      BY <2>4, <2>5, <3>1, RecordIs
  <2>7. (r.grace \/ n > 0) \in BOOLEAN /\ (r.standby /\ q.list # << >>) \in BOOLEAN
    BY <2>2
  <2>9. LET u == SliceCancelled(r, i, o) IN u \in Records /\ u.status = r.status /\ u.q = q
    BY <2>1, <2>3, <2>4, <2>5, <2>6, <2>7 DEF Records
  <2> QED
    BY <2>8, <2>9
<1> QED
  BY <1>1, <1>2

\* A peer comes, and goes, with an empty queue.
LEMMA NewPeerIs ==
  /\ \A bf \in SUBSET Pieces : NewPeer(bf) \in Records /\ NewPeer(bf).out = 0
  /\ Gone \in Records
<1>1. \A bf \in SUBSET Pieces : NewPeer(bf) \in Records /\ NewPeer(bf).out = 0
  BY EmptyIs DEF NewPeer, Records
<1>2. NewPeer({}) \in Records
  BY <1>1
<1>3. Gone \in Records
  BY <1>2 DEF Gone, Records
<1> QED
  BY <1>1, <1>3

\* What SendRequest sends is what it adds to m_req_out.
LEMMA RequestsSentIs ==
  ASSUME NEW r \in Records, r.int
  PROVE  /\ RequestsSent(r) \in Records /\ RequestsSent(r).int /\ RequestsSent(r).out >= 0
         /\ RequestsSent(r).status = r.status
         /\ \A i : Offs(RequestsSent(r).q, i) = Offs(r.q, i)
<1> DEFINE out == IF r.out < 0 THEN 0 ELSE r.out
           room == IF r.depth > out THEN r.depth - out ELSE 0
           left == IF PeekSend(r.q) THEN Len(r.q.list) - r.q.next + 1 ELSE 0
           n == Lowest({5, room, left})
<1>1. /\ r.q \in PeerQueues /\ r.q \in Queues /\ r.out \in Int /\ r.depth \in Nat
      /\ ("write" \in Upsets \/ r.out = Owed(r.q)) /\ Owed(r.q) \in Nat
  BY RecordIs, OwedIs
<1>2. Len(r.q.list) \in Nat /\ r.q.next \in Nat /\ r.q.next <= Len(r.q.list)
  BY <1>1, QueueIs
<1>3. out \in Nat /\ room \in Nat /\ left \in Nat /\ ("write" \in Upsets \/ out = Owed(r.q))
  BY <1>1, <1>2, SMTT(60)
<1>4. n \in Nat /\ n <= left
  <2>1. \E k \in {5, room, left} : \A j \in {5, room, left} : k <= j
    <3>1. {5, room, left} # {} /\ {5, room, left} \in SUBSET Nat
      BY <1>3
    <3> HIDE DEF room, left
    <3> QED
      BY <3>1, LeastNumber
  <2>2. n \in {5, room, left} /\ \A j \in {5, room, left} : n <= j
    BY <2>1 DEF Lowest
  <2> QED
    BY <1>3, <2>2
<1>5. RequestsSent(r) = IF n = 0 THEN [r EXCEPT !.out = out]
                        ELSE [r EXCEPT !.q = Sent(r.q, n), !.out = out + n,
                                       !.last = r.q.list[r.q.next + n - 1].piece]
  BY DEF RequestsSent
<1> HIDE DEF n, out, room
<1>6. CASE n = 0
  BY <1>3, <1>5, <1>6 DEF Records
<1>7. CASE n # 0
  <2>1. r.q.next # 0 /\ n <= Len(r.q.list) - r.q.next + 1
    BY <1>4, <1>7 DEF PeekSend
  <2>2. r.q.next + n - 1 <= Len(r.q.list) /\ r.q.next + n - 1 \in 1 .. Len(r.q.list) /\ n \in Nat \ {0}
    BY <1>2, <1>4, <1>7, <2>1
  <2>3. /\ Sent(r.q, n) \in PeerQueues /\ Owed(Sent(r.q, n)) = Owed(r.q) + n
        /\ \A i : Offs(Sent(r.q, n), i) = Offs(r.q, i)
    BY <1>1, <2>1, <2>2, SentIs
  <2>4. r.q.list[r.q.next + n - 1].piece \in Pieces
    BY <1>1, <2>2, QueueIs
  <2>5. out + n \in Int /\ out + n >= 0 /\ ("write" \in Upsets \/ out + n = Owed(Sent(r.q, n)))
    BY <1>3, <1>4, <2>3
  <2> QED
    BY <1>5, <1>7, <2>3, <2>4, <2>5 DEF Records
<1> QED
  BY <1>6, <1>7

-----------------------------------------------------------------------------
(* The whole.                                                              *)

\* PENDING is no peer.
LEMMA ParkIs == Park \notin Peers
<1>1. \E x : x \notin Peers
  BY NoSetContainsEverything
<1> QED
  BY <1>1 DEF Park

\* What a world is made of.
LEMMA WorldIs ==
  ASSUME NEW t, t \in Typed \/ t \in Worlds \/ \E k : t \in Nearly(k)
  PROVE  /\ t \in Typed
         /\ t.peer \in [Peers -> Records] /\ \A p \in Peers : t.peer[p] \in Records /\ Q(t, p) \in PeerQueues
         /\ t.pend \in Parked /\ t.pend \in Queues /\ t.mult \in SUBSET Pieces /\ t.have \in SUBSET Pieces
         /\ t.store \in [Slices -> {"none", "good", "bad"}] /\ t.dups \in Int
         /\ t.endgame \in BOOLEAN /\ t.failed \in BOOLEAN /\ t.paused \in BOOLEAN
         /\ t.blamed \in SUBSET (Peers \X Pieces) /\ t.upsets \in Nat
<1>0. t \in Typed
  BY DEF Worlds, Nearly
<1>1. t.peer \in [Peers -> Records] /\ t.pend \in Parked
  BY <1>0 DEF Typed
<1>2. \A p \in Peers : t.peer[p] \in Records /\ Q(t, p) \in PeerQueues
  BY <1>1, RecordIs DEF Q
<1>3. t.pend \in Queues
  BY <1>1 DEF Parked
<1> QED
  BY <1>0, <1>1, <1>2, <1>3 DEF Typed

\* What is more than the types of it.
LEMMA LinkedIs ==
  ASSUME NEW t \in Worlds
  PROVE  /\ t \in Typed /\ Idle(t)
         /\ \A i \in Pieces : (Twice(t, i) => i \in t.mult) /\ Kept(t, i)
         /\ t.dups >= Cardinality(Twices(t))
         /\ "write" \in Upsets \/ \A b \in t.blamed : b[1] \in Liars
<1>1. \A i \in Pieces : i # None
  BY DownloadAssumption DEF None
<1> QED
  BY <1>1 DEF Worlds, Nearly, Almost

\* The pieces that are listed twice are finitely many.
LEMMA TwicesIs ==
  ASSUME NEW t
  PROVE  IsFiniteSet(Twices(t)) /\ Cardinality(Twices(t)) \in Nat
<1>1. IsFiniteSet(Twices(t))
  BY DownloadAssumption, FS_Subset DEF Twices
<1> QED
  BY <1>1, FS_CardinalityType

\* What lists pieces, and which slices of them.
LEMMA PartIs ==
  ASSUME NEW t \in Typed, NEW s \in Slots, NEW i
  PROVE  /\ Part(t, s, i) \in SUBSET Offsets
         /\ s \in Peers => Part(t, s, i) = Offs(Q(t, s), i) /\ Part(t, s, i) = Offs(t.peer[s].q, i)
         /\ s = Park => Part(t, s, i) = Offs(t.pend, i)
         /\ s \in Peers => (HasPiece(Q(t, s), i) <=> Part(t, s, i) # {})
         /\ s = Park => (HasPiece(t.pend, i) <=> Part(t, s, i) # {})
         /\ \A o : s \in Peers => (HasSlice(Q(t, s), i, o) <=> o \in Part(t, s, i))
         /\ \A o : s = Park => (HasSlice(t.pend, i, o) <=> o \in Part(t, s, i))
<1>1. s \in Peers => Q(t, s) \in Queues
  BY WorldIs DEF PeerQueues
<1>2. t.pend \in Queues
  BY WorldIs
<1>3. s \in Peers => /\ Part(t, s, i) = Offs(Q(t, s), i) /\ Part(t, s, i) = Offs(t.peer[s].q, i)
  BY DEF Part, Q
<1>4. s = Park => Part(t, s, i) = Offs(t.pend, i)
  BY ParkIs DEF Part
<1>5. s \in Peers \/ s = Park
  BY DEF Slots
<1> QED
  BY <1>1, <1>2, <1>3, <1>4, <1>5, OffsIs

\* An empty list lists nothing.
LEMMA NothingIs ==
  ASSUME NEW q \in Queues, q.list = << >>
  PROVE  \A i : Offs(q, i) = {}
BY DEF Offs, Where

\* A world with another value of a variable is one, as far as types go.
LEMMA WorldChanged ==
  ASSUME NEW t \in Typed
  PROVE  /\ \A v \in Parked : [t EXCEPT !.pend = v] \in Typed
         /\ \A v \in SUBSET Pieces : [t EXCEPT !.mult = v] \in Typed /\ [t EXCEPT !.have = v] \in Typed
         /\ \A v \in Int : [t EXCEPT !.dups = v] \in Typed
         /\ \A v \in [Slices -> {"none", "good", "bad"}] : [t EXCEPT !.store = v] \in Typed
         /\ \A v \in BOOLEAN : /\ [t EXCEPT !.endgame = v] \in Typed /\ [t EXCEPT !.failed = v] \in Typed
                               /\ [t EXCEPT !.paused = v] \in Typed
         /\ \A v \in SUBSET (Peers \X Pieces) : [t EXCEPT !.blamed = v] \in Typed
         /\ \A v \in Nat : [t EXCEPT !.upsets = v] \in Typed
BY DEF Typed

\* So it is with another record of a peer,
LEMMA PeerChanged ==
  ASSUME NEW t \in Typed, NEW p \in Peers, NEW r \in Records
  PROVE  LET u == [t EXCEPT !.peer[p] = r]
         IN  /\ u \in Typed /\ u.peer[p] = r
             /\ \A x \in Peers : x # p => u.peer[x] = t.peer[x]
             /\ u.pend = t.pend /\ u.mult = t.mult /\ u.have = t.have /\ u.store = t.store
             /\ u.dups = t.dups /\ u.endgame = t.endgame /\ u.failed = t.failed /\ u.blamed = t.blamed
BY DEF Typed

\* and of all connected ones.
LEMMA PeersChanged ==
  ASSUME NEW t \in Typed, NEW f, f \in [Up(t) -> Records]
  PROVE  LET u == WithPeers(t, f)
         IN  /\ u \in Typed
             /\ \A p \in Peers : /\ p \in Up(t) => u.peer[p] = f[p]
                                 /\ p \notin Up(t) => u.peer[p] = t.peer[p]
             /\ u.pend = t.pend /\ u.mult = t.mult /\ u.have = t.have /\ u.store = t.store
             /\ u.dups = t.dups /\ u.endgame = t.endgame /\ u.failed = t.failed /\ u.blamed = t.blamed
<1> DEFINE g == [p \in Peers |-> IF p \in Up(t) THEN f[p] ELSE t.peer[p]]
<1>1. t.peer \in [Peers -> Records]
  BY WorldIs
<1>2. g \in [Peers -> Records] /\ \A x \in Peers : /\ x \in Up(t) => g[x] = f[x]
                                                   /\ x \notin Up(t) => g[x] = t.peer[x]
  <2> HIDE DEF Up
  <2> QED
    BY <1>1
<1>3. WithPeers(t, f) = [t EXCEPT !.peer = g]
  BY DEF WithPeers
<1> HIDE DEF g
<1> DEFINE u == [t EXCEPT !.peer = g]
<1>4. /\ u \in Typed /\ u.peer = g
      /\ u.pend = t.pend /\ u.mult = t.mult /\ u.have = t.have /\ u.store = t.store
      /\ u.dups = t.dups /\ u.endgame = t.endgame /\ u.failed = t.failed /\ u.blamed = t.blamed
  BY <1>2 DEF Typed
<1> HIDE DEF u
<1> QED
  BY <1>2, <1>3, <1>4 DEF u

-----------------------------------------------------------------------------
(* Lists that move, and lists that shrink.                                 *)

\* Of piece i, what a and b listed is exchanged, and some lists are gone.
Swapped(t, u, i, a, b) ==
  /\ \A s \in Slots : s # a /\ s # b => Part(u, s, i) = {} \/ Part(u, s, i) = Part(t, s, i)
  /\ Part(u, a, i) = {} \/ Part(u, a, i) = Part(t, b, i)
  /\ Part(u, b, i) = {} \/ Part(u, b, i) = Part(t, a, i)

\* A peer lists of i what it did, if anything, or i is marked.
Marked(t, u, i) ==
  \A p \in Peers : Part(u, p, i) = {} \/ Part(u, p, i) = Part(t, p, i) \/ i \in u.mult

\* A piece that is listed twice was.
LEMMA TwiceMoved ==
  ASSUME NEW t, NEW u, NEW i, NEW a \in Slots, NEW b \in Slots, Swapped(t, u, i, a, b), Twice(u, i)
  PROVE  Twice(t, i)
<1>1. PICK s \in Slots, x \in Slots : s # x /\ Part(u, s, i) # {} /\ Part(u, x, i) # {}
  BY DEF Twice
<1> DEFINE of(y) == IF y = a THEN b ELSE IF y = b THEN a ELSE y
<1>2. \A y \in Slots : of(y) \in Slots /\ (Part(u, y, i) # {} => Part(u, y, i) = Part(t, of(y), i))
  BY DEF Swapped
<1>3. of(s) # of(x)
  BY <1>1
<1> HIDE DEF of
<1>4. of(s) \in Slots /\ of(x) \in Slots /\ Part(t, of(s), i) # {} /\ Part(t, of(x), i) # {}
  BY <1>1, <1>2
<1> QED
  BY <1>3, <1>4 DEF Twice

\* Fewer pieces that are listed twice make a lower count.
LEMMA FewerTwices ==
  ASSUME NEW t, NEW u, \A i \in Pieces : Twice(u, i) => Twice(t, i)
  PROVE  Cardinality(Twices(u)) <= Cardinality(Twices(t))
<1>1. Twices(u) \subseteq Twices(t)
  BY DEF Twices
<1> QED
  BY <1>1, TwicesIs, FS_Subset

\* What is kept of a piece stays kept when its lists move.
LEMMA KeptMoved ==
  ASSUME NEW t, NEW u, NEW i, NEW a \in Slots, NEW b \in Slots, Kept(t, i), Swapped(t, u, i, a, b),
         Marked(t, u, i), u.have = t.have, u.store = t.store, t.mult \subseteq u.mult
  PROVE  Kept(u, i)
<1> DEFINE of(y) == IF y = a THEN b ELSE IF y = b THEN a ELSE y
<1>1. \A y \in Slots : of(y) \in Slots /\ (Part(u, y, i) # {} => Part(u, y, i) = Part(t, of(y), i))
  BY DEF Swapped
<1> HIDE DEF of
<1>2. i \in u.have => \A s \in Slots : Part(u, s, i) = {}
  BY <1>1 DEF Kept
<1>3. ASSUME i \notin u.have, NEW s \in Slots, NEW o \in Offsets, Part(u, s, i) # {}, u.store[<<i, o>>] = "none"
      PROVE  o \in Part(u, s, i)
  <2>1. Part(u, s, i) = Part(t, of(s), i) /\ of(s) \in Slots
    BY <1>1, <1>3
  <2> QED
    BY <1>3, <2>1 DEF Kept
<1>4. ASSUME "write" \notin Upsets, i \notin u.have, i \notin u.mult,
             NEW p \in Peers \ Liars, NEW o \in Offsets, Part(u, p, i) # {}
      PROVE  o \in Part(u, p, i) \/ u.store[<<i, o>>] = "good"
  <2>1. Part(u, p, i) = Part(t, p, i) /\ i \notin t.have /\ i \notin t.mult
    BY <1>4 DEF Marked
  <2> QED
    BY <1>4, <2>1 DEF Kept
<1> QED
  BY <1>2, <1>3, <1>4 DEF Kept

\* A world whose lists move is one.
LEMMA MovedIs ==
  ASSUME NEW k, NEW t \in Nearly(k), NEW u \in Typed, Idle(u),
         u.have = t.have, u.store = t.store, u.blamed = t.blamed, t.mult \subseteq u.mult,
         u.dups >= t.dups \/ u.dups >= Cardinality(Twices(u)),
         \A i \in Pieces : Marked(t, u, i) /\ \E a, b \in Slots : Swapped(t, u, i, a, b)
  PROVE  u \in Nearly(k)
<1>1. Almost(t, k) /\ t \in Typed
  BY DEF Nearly
<1>2. \A i \in Pieces : Twice(u, i) => Twice(t, i)
  BY TwiceMoved
<1>3. \A i \in Pieces : Twice(u, i) => i \in u.mult
  BY <1>1, <1>2 DEF Almost
<1>4. ASSUME NEW i \in Pieces, i # k PROVE Kept(u, i)
  <2>1. Kept(t, i)
    BY <1>1, <1>4 DEF Almost
  <2> QED
    BY <2>1, KeptMoved
<1>5. u.dups >= Cardinality(Twices(u))
  <2>1. Cardinality(Twices(u)) <= Cardinality(Twices(t)) /\ Cardinality(Twices(t)) \in Nat /\ Cardinality(Twices(u)) \in Nat
    BY <1>2, FewerTwices, TwicesIs
  <2>2. t.dups >= Cardinality(Twices(t)) /\ t.dups \in Int /\ u.dups \in Int
    BY <1>1, WorldIs DEF Almost
  <2> QED
    BY <2>1, <2>2
<1>6. "write" \in Upsets \/ \A b \in u.blamed : b[1] \in Liars
  BY <1>1 DEF Almost
<1> QED
  BY <1>3, <1>4, <1>5, <1>6 DEF Almost, Nearly

\* What t becomes when lists go, and nothing else of what is linked changes.
Shed(t) ==
  {u \in Typed : /\ Idle(u) /\ u.have = t.have /\ u.store = t.store /\ u.blamed = t.blamed
                 /\ t.mult \subseteq u.mult /\ u.dups >= t.dups
                 /\ \A i \in Pieces, s \in Slots : Part(u, s, i) = {} \/ Part(u, s, i) = Part(t, s, i)}

\* A world whose lists shrink is one.
LEMMA ShedIs ==
  ASSUME NEW k, NEW t \in Nearly(k), NEW u \in Shed(t)
  PROVE  u \in Nearly(k)
<1>1. /\ u \in Typed /\ Idle(u) /\ u.have = t.have /\ u.store = t.store /\ u.blamed = t.blamed
      /\ t.mult \subseteq u.mult /\ u.dups >= t.dups
      /\ \A i \in Pieces, s \in Slots : Part(u, s, i) = {} \/ Part(u, s, i) = Part(t, s, i)
  BY DEF Shed
<1>2. Park \in Slots
  BY DEF Slots
<1>3. \A i \in Pieces : Marked(t, u, i) /\ Swapped(t, u, i, Park, Park)
  BY <1>1, <1>2 DEF Marked, Swapped, Slots
<1> QED
  BY <1>1, <1>2, <1>3, MovedIs

\* So it may do again and again.
LEMMA ShedTwice ==
  ASSUME NEW t \in Typed, NEW u \in Shed(t), NEW w \in Shed(u)
  PROVE  w \in Shed(t)
<1>1. u.dups \in Int /\ t.dups \in Int /\ w.dups \in Int
  BY WorldIs DEF Shed
<1>2. /\ u.mult \subseteq w.mult /\ t.mult \subseteq u.mult /\ w.dups >= u.dups /\ u.dups >= t.dups
      /\ w \in Typed /\ Idle(w) /\ w.have = t.have /\ w.store = t.store /\ w.blamed = t.blamed
      /\ \A i \in Pieces, s \in Slots : Part(u, s, i) = {} \/ Part(u, s, i) = Part(t, s, i)
      /\ \A i \in Pieces, s \in Slots : Part(w, s, i) = {} \/ Part(w, s, i) = Part(u, s, i)
  BY DEF Shed
<1>3. w.dups >= t.dups
  BY <1>1, <1>2
<1>4. ASSUME NEW i \in Pieces, NEW s \in Slots PROVE Part(w, s, i) = {} \/ Part(w, s, i) = Part(t, s, i)
  BY <1>2
<1> QED
  BY <1>2, <1>3, <1>4 DEF Shed

\* The peers of u list no more than those of t, and nobody else has changed.
LEMMA PeersShed ==
  ASSUME NEW t \in Typed, NEW u \in Typed, Idle(u),
         u.pend = t.pend, u.have = t.have, u.store = t.store, u.blamed = t.blamed,
         t.mult \subseteq u.mult, u.dups >= t.dups,
         \A p \in Peers : \/ \A i \in Pieces : Offs(u.peer[p].q, i) = {} \/ Offs(u.peer[p].q, i) = Offs(t.peer[p].q, i)
                          \/ u.peer[p].q.list = << >>
  PROVE  u \in Shed(t)
<1>1. ASSUME NEW i \in Pieces, NEW s \in Slots PROVE Part(u, s, i) = {} \/ Part(u, s, i) = Part(t, s, i)
  <2>1. CASE s \in Peers
    <3>1. Part(u, s, i) = Offs(u.peer[s].q, i) /\ Part(t, s, i) = Offs(t.peer[s].q, i)
      BY <2>1, PartIs
    <3>2. u.peer[s].q.list = << >> => Offs(u.peer[s].q, i) = {}
      BY DEF Offs, Where
    <3> QED
      BY <2>1, <3>1, <3>2
  <2>2. CASE s = Park
    BY <2>2, PartIs
  <2> QED
    BY <2>1, <2>2 DEF Slots
<1> QED
  BY <1>1 DEF Shed

\* A peer's list, and no more than a list, changes to less.
LEMMA PeerShed ==
  ASSUME NEW t \in Typed, Idle(t), NEW p \in Peers, NEW r \in Records,
         \/ r.q.list = << >>
         \/ /\ \/ r.status = "up"
               \/ r.status = t.peer[p].status /\ (t.peer[p].q.list = << >> => r.q.list = << >>)
            /\ \A i \in Pieces : Offs(r.q, i) = {} \/ Offs(r.q, i) = Offs(t.peer[p].q, i)
  PROVE  [t EXCEPT !.peer[p] = r] \in Shed(t)
<1> DEFINE u == [t EXCEPT !.peer[p] = r]
<1>1. /\ u \in Typed /\ u.peer[p] = r
      /\ \A x \in Peers : x # p => u.peer[x] = t.peer[x]
      /\ u.pend = t.pend /\ u.mult = t.mult /\ u.have = t.have /\ u.store = t.store
      /\ u.dups = t.dups /\ u.blamed = t.blamed
  BY PeerChanged
<1> HIDE DEF u
<1>2. Idle(u)
  BY <1>1 DEF Idle, Q
<1>3. t.mult \subseteq u.mult /\ u.dups >= t.dups
  BY <1>1, WorldIs
<1>4. ASSUME NEW x \in Peers
      PROVE  \/ \A i \in Pieces : Offs(u.peer[x].q, i) = {} \/ Offs(u.peer[x].q, i) = Offs(t.peer[x].q, i)
             \/ u.peer[x].q.list = << >>
  BY <1>1
<1> QED
  BY <1>1, <1>2, <1>3, <1>4, PeersShed DEF u

\* So do the lists of all connected peers.
LEMMA AllShed ==
  ASSUME NEW t \in Typed, Idle(t), NEW f, f \in [Up(t) -> Records],
         \A p \in Up(t) : \/ f[p].q.list = << >>
                          \/ /\ f[p].status = "up"
                             /\ \A i \in Pieces : Offs(f[p].q, i) = {} \/ Offs(f[p].q, i) = Offs(t.peer[p].q, i)
  PROVE  WithPeers(t, f) \in Shed(t)
<1> DEFINE u == WithPeers(t, f)
<1>1. /\ u \in Typed
      /\ \A p \in Peers : /\ p \in Up(t) => u.peer[p] = f[p]
                          /\ p \notin Up(t) => u.peer[p] = t.peer[p]
      /\ u.pend = t.pend /\ u.mult = t.mult /\ u.have = t.have /\ u.store = t.store
      /\ u.dups = t.dups /\ u.blamed = t.blamed
  BY PeersChanged
<1> HIDE DEF u
<1>2. Idle(u)
  BY <1>1 DEF Idle, Q
<1>3. t.mult \subseteq u.mult /\ u.dups >= t.dups
  BY <1>1, WorldIs
<1>4. ASSUME NEW x \in Peers
      PROVE  \/ \A i \in Pieces : Offs(u.peer[x].q, i) = {} \/ Offs(u.peer[x].q, i) = Offs(t.peer[x].q, i)
             \/ u.peer[x].q.list = << >>
  BY <1>1
<1> QED
  BY <1>1, <1>2, <1>3, <1>4, PeersShed DEF u

\* What is not linked may change.
LEMMA LooseChanged ==
  ASSUME NEW t \in Typed, Idle(t)
  PROVE  /\ \A v \in BOOLEAN : /\ [t EXCEPT !.endgame = v] \in Shed(t) /\ [t EXCEPT !.failed = v] \in Shed(t)
                               /\ [t EXCEPT !.paused = v] \in Shed(t)
         /\ \A v \in Nat : [t EXCEPT !.upsets = v] \in Shed(t)
         /\ \A v \in SUBSET Pieces : t.mult \subseteq v => [t EXCEPT !.mult = v] \in Shed(t)
         /\ \A v \in Int : v >= t.dups => [t EXCEPT !.dups = v] \in Shed(t)
         /\ t \in Shed(t)
<1>1. ASSUME NEW u \in Typed, u.peer = t.peer, u.pend = t.pend, u.have = t.have, u.store = t.store,
             u.blamed = t.blamed, t.mult \subseteq u.mult, u.dups >= t.dups
      PROVE  u \in Shed(t)
  BY <1>1 DEF Shed, Part, Q, Idle
<1>2. t.dups \in Int /\ t.dups >= t.dups
  BY WorldIs
<1> QED
  BY <1>1, <1>2 DEF Typed

\* A record of a peer with the same queue.
LEMMA RecordKept ==
  ASSUME NEW t \in Worlds, NEW p \in Peers, NEW r \in Records,
         r.q = t.peer[p].q, r.status = t.peer[p].status \/ r.status = "up"
  PROVE  [t EXCEPT !.peer[p] = r] \in Worlds /\ [t EXCEPT !.peer[p] = r].peer[p] = r
<1>1. t \in Typed /\ Idle(t)
  BY LinkedIs
<1>2. [t EXCEPT !.peer[p] = r] \in Shed(t) /\ [t EXCEPT !.peer[p] = r].peer[p] = r
  BY <1>1, PeerShed, PeerChanged
<1> QED
  BY <1>2, ShedIs DEF Worlds

-----------------------------------------------------------------------------
(* Requests go back, or away.                                              *)

\* p may be asked for more.
Ready(t, p) == t.peer[p].status = "up" /\ t.peer[p].int /\ t.peer[p].out >= 0
Readies(p)  == {t \in Worlds : Ready(t, p)}

\* UnStandby wakes peers, and changes nothing else.
LEMMA UnStandbyIs ==
  ASSUME NEW t \in Typed, Idle(t)
  PROVE  UnStandby(t) \in Shed(t) /\ \A p \in Peers : Ready(t, p) => Ready(UnStandby(t), p)
<1> DEFINE f == [p \in Up(t) |-> [t.peer[p] EXCEPT !.standby = FALSE]]
<1>1. \A p \in Peers : t.peer[p] \in Records
  BY WorldIs
<1>2. \A r \in Records : /\ [r EXCEPT !.standby = FALSE] \in Records
                         /\ [r EXCEPT !.standby = FALSE].int = r.int
                         /\ [r EXCEPT !.standby = FALSE].out = r.out
                         /\ [r EXCEPT !.standby = FALSE].status = r.status
                         /\ [r EXCEPT !.standby = FALSE].q = r.q
  <2>1. \A r \in Records : [r EXCEPT !.standby = FALSE] \in Records
    BY RecordChanged
  <2> QED
    BY <2>1 DEF Records
<1>3. f \in [Up(t) -> Records]
  BY <1>1, <1>2 DEF Up
<1>4. UnStandby(t) = WithPeers(t, f)
  BY DEF UnStandby
<1>5. ASSUME NEW p \in Up(t) PROVE f[p].q = t.peer[p].q /\ f[p].status = "up"
                                   /\ f[p].int = t.peer[p].int /\ f[p].out = t.peer[p].out
  <2>1. f[p] = [t.peer[p] EXCEPT !.standby = FALSE] /\ t.peer[p] \in Records /\ t.peer[p].status = "up"
    BY <1>1 DEF Up
  <2> HIDE DEF f
  <2> QED
    BY <1>2, <2>1
<1> HIDE DEF f
<1>6. WithPeers(t, f) \in Shed(t)
  BY <1>3, <1>5, AllShed
<1>7. ASSUME NEW p \in Peers, Ready(t, p) PROVE Ready(WithPeers(t, f), p)
  <2>1. /\ p \notin Up(t) => WithPeers(t, f).peer[p] = t.peer[p]
        /\ p \in Up(t) => WithPeers(t, f).peer[p] = f[p]
    BY <1>3, PeersChanged
  <2> QED
    BY <1>5, <1>7, <2>1 DEF Ready
<1> QED
  BY <1>4, <1>6, <1>7

\* SetLocal(BT_MSG_NOT_INTERESTED).
LEMMA NotInterestedIs ==
  ASSUME NEW t \in Typed, Idle(t), NEW p \in Peers
  PROVE  NotInterested(t, p) \in Shed(t) /\ NotInterested(t, p).peer[p].q.list = << >>
<1>1. Uninterested(t.peer[p]) \in Records /\ Uninterested(t.peer[p]).q.list = << >>
  BY WorldIs, UninterestedIs
<1>2. NotInterested(t, p).peer[p] = Uninterested(t.peer[p])
  BY <1>1, PeerChanged DEF NotInterested
<1> QED
  BY <1>1, <1>2, PeerShed DEF NotInterested

\* Who lists a piece, of those connected and PENDING.
Listing(t, i) == {s \in Slots : Part(t, s, i) # {}}

\* The holders of a piece, and PENDING, are those who list it.
LEMMA ListingIs ==
  ASSUME NEW t \in Typed, Idle(t), NEW i
  PROVE  /\ \A p \in Peers : p \in Holders(t, i) <=> Part(t, p, i) # {}
         /\ Holders(t, i) \subseteq Peers /\ IsFiniteSet(Holders(t, i)) /\ IsFiniteSet(Listing(t, i))
         /\ Cardinality(Holders(t, i)) \in Nat
         /\ Cardinality(Listing(t, i)) = Cardinality(Holders(t, i)) + IF HasPiece(t.pend, i) THEN 1 ELSE 0
         /\ Twice(t, i) <=> Cardinality(Listing(t, i)) > 1
         /\ Holders(t, i) # {} /\ Cardinality(Holders(t, i)) # 1 => Twice(t, i)
<1> DEFINE H == Holders(t, i)
           L == Listing(t, i)
<1>1. ASSUME NEW p \in Peers PROVE p \in H <=> Part(t, p, i) # {}
  <2>1. HasPiece(Q(t, p), i) <=> Part(t, p, i) # {}
    BY PartIs DEF Slots
  <2>2. HasPiece(Q(t, p), i) => t.peer[p].status = "up"
    BY DEF HasPiece, Where, Idle
  <2> QED
    BY <2>1, <2>2 DEF Holders, Up
<1>2. HasPiece(t.pend, i) <=> Part(t, Park, i) # {}
  BY PartIs DEF Slots
<1>3. H \subseteq Peers /\ IsFiniteSet(H) /\ Cardinality(H) \in Nat
  <2>1. H \subseteq Peers
    BY DEF Holders, Up
  <2> QED
    BY <2>1, DownloadAssumption, FS_Subset, FS_CardinalityType
<1>4. L = IF HasPiece(t.pend, i) THEN H \union {Park} ELSE H
  BY <1>1, <1>2, <1>3 DEF Listing, Slots
<1> HIDE DEF H, L
<1>5. IsFiniteSet(L) /\ Cardinality(L) = Cardinality(H) + IF HasPiece(t.pend, i) THEN 1 ELSE 0
  <2>1. Park \notin H
    BY <1>3, ParkIs
  <2>2. IsFiniteSet(H \union {Park}) /\ Cardinality(H \union {Park}) = Cardinality(H) + 1
    BY <1>3, <2>1, FS_AddElement
  <2> QED
    BY <1>3, <1>4, <2>2
<1>6. ASSUME NEW S, IsFiniteSet(S) PROVE Cardinality(S) > 1 <=> \E s, x \in S : s # x
  <2>1. Cardinality(S) \in Nat /\ (Cardinality(S) = 0 <=> S = {})
    BY <1>6, FS_CardinalityType, FS_EmptySet
  <2>2. Cardinality(S) = 1 <=> \E x : S = {x}
    BY <1>6, FS_Singleton
  <2>3. Cardinality(S) > 1 <=> S # {} /\ ~ \E x : S = {x}
    BY <2>1, <2>2
  <2>4. ASSUME NEW a \in S, S # {a} PROVE \E s, x \in S : s # x
    <3>1. PICK b : ~ (b \in S <=> b \in {a})
      BY <2>4
    <3> QED
      BY <3>1
  <2>5. ASSUME NEW s \in S, NEW x \in S, s # x PROVE S # {} /\ ~ \E y : S = {y}
    BY <2>5
  <2> QED
    BY <2>3, <2>4, <2>5
<1>7. Twice(t, i) <=> \E s, x \in L : s # x
  BY DEF Twice, L, Listing
<1>8. Twice(t, i) <=> Cardinality(L) > 1
  BY <1>5, <1>6, <1>7
<1>9. H # {} /\ Cardinality(H) # 1 => Twice(t, i)
  <2>1. H # {} => Cardinality(H) # 0
    BY <1>3, FS_EmptySet
  <2> QED
    BY <1>3, <1>5, <1>8, <2>1
<1> QED
  BY <1>1, <1>3, <1>5, <1>8, <1>9 DEF H, L

\* The recount of duplicates counts the pieces that are listed twice.
LEMMA RecalcIs ==
  ASSUME NEW t \in Typed, Idle(t)
  PROVE  RecalcDupReqs(t) = Cardinality(Twices(t)) /\ RecalcDupReqs(t) \in Nat
<1>1. ASSUME NEW i \in Pieces
      PROVE  Twice(t, i) <=> Cardinality(Holders(t, i)) > 1 \/ (Holders(t, i) # {} /\ HasPiece(t.pend, i))
  <2> DEFINE H == Holders(t, i)
             m == Cardinality(Holders(t, i))
  <2>1. /\ IsFiniteSet(H) /\ m \in Nat
        /\ Twice(t, i) <=> m + (IF HasPiece(t.pend, i) THEN 1 ELSE 0) > 1
    BY ListingIs
  <2>2. H # {} <=> m # 0
    BY <2>1, FS_EmptySet
  <2> HIDE DEF H, m
  <2>3. Twice(t, i) <=> m > 1 \/ (H # {} /\ HasPiece(t.pend, i))
    BY <2>1, <2>2
  <2> QED
    BY <2>3 DEF H, m
<1>2. {i \in Pieces : \/ Cardinality(Holders(t, i)) > 1
                      \/ Holders(t, i) # {} /\ HasPiece(t.pend, i)} = Twices(t)
  BY <1>1 DEF Twices
<1> QED
  BY <1>2, TwicesIs DEF RecalcDupReqs

\* PutPending empties the queue of p, of which t may have another record than v, into PENDING.
LEMMA PutPendingIs ==
  ASSUME NEW k, NEW v \in Nearly(k), NEW p \in Peers, NEW t \in Typed,
         t.peer[p].q = v.peer[p].q, \A x \in Peers : x # p => t.peer[x] = v.peer[x],
         t.pend = v.pend, t.have = v.have, t.store = v.store, t.blamed = v.blamed,
         v.mult \subseteq t.mult, t.dups >= v.dups
  PROVE  LET u == PutPending(t, p)
         IN  /\ u \in Nearly(k)
             /\ t.peer[p].q.list = << >> => u \in Shed(v)
             /\ \A i \in Pieces, x \in Peers : Part(v, x, i) = {} => Part(u, x, i) = {}
<1> DEFINE tr == TransferQueue(Q(t, p), t.pend)
           r == [t.peer[p] EXCEPT !.q = EmptyQueue, !.out = 0]
           u == [t EXCEPT !.pend = tr.pend, !.peer[p] = [@ EXCEPT !.q = EmptyQueue, !.out = 0]]
<1>0. v \in Typed /\ Idle(v)
  BY DEF Nearly, Almost
<1>1. tr.pend \in Parked /\ tr.pend \in Gains(Q(t, p), t.pend)
  BY WorldIs, TransferQueueIs DEF Gains
<1>2. r \in Records /\ r.q = EmptyQueue
  <2>1. t.peer[p] \in Records
    BY WorldIs
  <2> QED
    BY <2>1, EmptiedIs DEF Records
<1>3. /\ u \in Typed /\ u.pend = tr.pend /\ u.peer[p] = r /\ \A x \in Peers : x # p => u.peer[x] = t.peer[x]
      /\ u.have = t.have /\ u.store = t.store /\ u.blamed = t.blamed /\ u.mult = t.mult /\ u.dups = t.dups
  <2>1. t.peer \in [Peers -> Records] /\ u = [t EXCEPT !.pend = tr.pend, !.peer = [t.peer EXCEPT ![p] = r]]
    BY WorldIs
  <2>2. [t.peer EXCEPT ![p] = r] \in [Peers -> Records]
    BY <1>2, <2>1
  <2> HIDE DEF tr, r, u
  <2> QED
    BY <1>1, <2>1, <2>2 DEF Typed
<1>4. PutPending(t, p) = IF Q(t, p).list = << >> THEN u
                         ELSE UnStandby(IF tr.all THEN u ELSE [u EXCEPT !.dups = RecalcDupReqs(u)])
  BY DEF PutPending
<1> HIDE DEF u, tr, r
<1>5. Idle(u)
  BY <1>0, <1>2, <1>3, EmptyIs DEF Idle, Q
<1>6. ASSUME NEW i \in Pieces
      PROVE  /\ Part(u, p, i) = {} /\ \A x \in Peers : x # p => Part(u, x, i) = Part(v, x, i)
             /\ \/ Part(u, Park, i) = Part(v, Park, i)
                \/ Part(v, Park, i) = {} /\ Part(u, Park, i) = Part(v, p, i)
  <2>0. p \in Slots /\ Park \in Slots /\ \A x \in Peers : x \in Slots
    BY DEF Slots
  <2>1. Part(u, p, i) = {}
    <3>1. Part(u, p, i) = Offs(EmptyQueue, i)
      BY <1>2, <1>3, <2>0, PartIs
    <3>2. EmptyQueue \in Queues
      BY EmptyIs DEF PeerQueues
    <3> QED
      BY <3>1, <3>2, EmptyIs, NothingIs
  <2>2. \A x \in Peers : x # p => Part(u, x, i) = Part(v, x, i)
    BY <1>0, <1>3, <2>0, PartIs
  <2>3. Part(u, Park, i) = Offs(tr.pend, i) /\ Part(v, Park, i) = Offs(t.pend, i) /\ Part(v, p, i) = Offs(Q(t, p), i)
    BY <1>0, <1>3, <2>0, PartIs DEF Q
  <2>4. Offs(tr.pend, i) = Offs(t.pend, i) \/ (Offs(t.pend, i) = {} /\ Offs(tr.pend, i) = Offs(Q(t, p), i))
    BY <1>1 DEF Gains
  <2> QED
    BY <2>1, <2>2, <2>3, <2>4
<1>7. ASSUME NEW w \in Typed, w.peer = u.peer, w.pend = u.pend, w.have = u.have, w.store = u.store, w.blamed = u.blamed,
             w.mult = u.mult, w.dups >= v.dups \/ w.dups >= Cardinality(Twices(w))
      PROVE  w \in Nearly(k) /\ Idle(w)
  <2>1. \A i, s : Part(w, s, i) = Part(u, s, i)
    BY <1>7 DEF Part, Q
  <2>2. ASSUME NEW i \in Pieces PROVE Marked(v, w, i) /\ \E a, b \in Slots : Swapped(v, w, i, a, b)
    <3>1. Marked(v, w, i)
      BY <1>6, <2>1 DEF Marked
    <3>2. p \in Slots /\ Park \in Slots /\ p # Park
      BY ParkIs DEF Slots
    <3>3. CASE Part(u, Park, i) = Part(v, Park, i)
      <4>1. Swapped(v, w, i, Park, Park)
        BY <1>6, <2>1, <3>3 DEF Swapped, Slots
      <4> QED
        BY <3>1, <3>2, <4>1
    <3>4. CASE Part(v, Park, i) = {} /\ Part(u, Park, i) = Part(v, p, i)
      <4>1. Swapped(v, w, i, Park, p)
        BY <1>6, <2>1, <3>2, <3>4 DEF Swapped, Slots
      <4> QED
        BY <3>1, <3>2, <4>1
    <3> QED
      BY <1>6, <3>3, <3>4
  <2>3. Idle(w)
    BY <1>5, <1>7 DEF Idle, Q
  <2> QED
    BY <1>3, <1>7, <2>2, <2>3, MovedIs
<1>8. u \in Nearly(k)
  BY <1>3, <1>7
<1>9. [u EXCEPT !.dups = RecalcDupReqs(u)] \in Nearly(k) /\ Idle([u EXCEPT !.dups = RecalcDupReqs(u)])
      /\ [u EXCEPT !.dups = RecalcDupReqs(u)].peer = u.peer
  <2> DEFINE w == [u EXCEPT !.dups = RecalcDupReqs(u)]
  <2>1. RecalcDupReqs(u) = Cardinality(Twices(u)) /\ RecalcDupReqs(u) \in Nat
    BY <1>3, <1>5, RecalcIs
  <2>2. /\ w \in Typed /\ w.peer = u.peer /\ w.pend = u.pend /\ w.have = u.have /\ w.store = u.store
        /\ w.blamed = u.blamed /\ w.mult = u.mult /\ w.dups = RecalcDupReqs(u)
    BY <1>3, <2>1 DEF Typed
  <2> HIDE DEF w
  <2>3. Twices(w) = Twices(u)
    BY <2>2 DEF Twices, Twice, Part, Q
  <2>4. w.dups >= Cardinality(Twices(w))
    BY <2>1, <2>2, <2>3
  <2> QED
    BY <1>7, <2>2, <2>4 DEF w
<1> DEFINE z == IF tr.all THEN u ELSE [u EXCEPT !.dups = RecalcDupReqs(u)]
<1>10. z \in Nearly(k) /\ Idle(z) /\ z \in Typed /\ z.peer = u.peer
  <2>1. z \in Nearly(k) /\ Idle(z) /\ z.peer = u.peer
    BY <1>5, <1>8, <1>9
  <2> QED
    BY <2>1 DEF Nearly
<1> HIDE DEF z
<1>11. UnStandby(z) \in Shed(z) /\ UnStandby(z) \in Nearly(k)
  BY <1>10, UnStandbyIs, ShedIs
<1>12. ASSUME NEW i \in Pieces, NEW x \in Peers, Part(v, x, i) = {}
       PROVE  Part(u, x, i) = {} /\ Part(UnStandby(z), x, i) = {}
  <2>1. Part(u, x, i) = {}
    BY <1>6, <1>12
  <2>2. Part(z, x, i) = {}
    BY <1>10, <2>1 DEF Part, Q
  <2>3. Part(UnStandby(z), x, i) = {} \/ Part(UnStandby(z), x, i) = Part(z, x, i)
    BY <1>11 DEF Shed, Slots
  <2> QED
    BY <2>1, <2>2, <2>3
<1>13. t.peer[p].q.list = << >> => u \in Shed(v)
  <2>1. SUFFICES ASSUME t.peer[p].q.list = << >> PROVE u \in Shed(v)
    OBVIOUS
  <2>2. ASSUME NEW i \in Pieces, NEW s \in Slots PROVE Part(u, s, i) = {} \/ Part(u, s, i) = Part(v, s, i)
    <3>1. Part(v, p, i) = {}
      <4>1. Part(v, p, i) = Offs(t.peer[p].q, i) /\ t.peer[p].q \in Queues
        BY <1>0, WorldIs, RecordIs, PartIs DEF Slots
      <4> QED
        BY <2>1, <4>1, NothingIs
    <3> QED
      BY <1>6, <3>1 DEF Slots
  <2> QED
    BY <1>3, <1>5, <2>2 DEF Shed
<1>14. PutPending(t, p) = IF t.peer[p].q.list = << >> THEN u ELSE UnStandby(z)
  BY <1>4 DEF z, Q
<1> QED
  BY <1>8, <1>11, <1>12, <1>13, <1>14

\* CloseConnection, once or again.
LEMMA CloseConnectionIs ==
  ASSUME NEW k, NEW t \in Nearly(k), NEW p \in Peers
  PROVE  /\ CloseConnection(t, p) \in Nearly(k)
         /\ \A i \in Pieces, x \in Peers : Part(t, x, i) = {} => Part(CloseConnection(t, p), x, i) = {}
<1> DEFINE r == [t.peer[p] EXCEPT !.status = "failed"]
           u == [t EXCEPT !.peer[p] = r]
<1>1. r \in Records /\ r.q = t.peer[p].q /\ t \in Typed
  <2>1. t.peer[p] \in Records /\ t \in Typed
    BY WorldIs
  <2>2. r \in Records
    BY <2>1, RecordChanged
  <2>3. r.q = t.peer[p].q
    BY <2>1 DEF Records
  <2> QED
    BY <2>1, <2>2, <2>3
<1>2. CloseConnection(t, p) = IF t.peer[p].status = "failed" THEN t ELSE PutPending(u, p)
  BY DEF CloseConnection
<1> HIDE DEF r
<1>3. /\ u \in Typed /\ u.peer[p].q = t.peer[p].q /\ \A x \in Peers : x # p => u.peer[x] = t.peer[x]
      /\ u.pend = t.pend /\ u.have = t.have /\ u.store = t.store /\ u.blamed = t.blamed
      /\ u.mult = t.mult /\ u.dups = t.dups /\ t.dups \in Int
  BY <1>1, PeerChanged, WorldIs
<1> HIDE DEF u
<1>4. /\ PutPending(u, p) \in Nearly(k)
      /\ \A i \in Pieces, x \in Peers : Part(t, x, i) = {} => Part(PutPending(u, p), x, i) = {}
  <2>1. t.mult \subseteq u.mult /\ u.dups >= t.dups
    BY <1>3
  <2> QED
    BY <1>3, <2>1, PutPendingIs
<1> QED
  BY <1>2, <1>4

\* A walk comes to every peer.
LEMMA WalkIs ==
  /\ Cardinality(Peers) \in Nat
  /\ Walk \in [1 .. Cardinality(Peers) -> Peers]
<1>1. Cardinality(Peers) \in Nat /\ ExistsBijection(1 .. Cardinality(Peers), Peers)
  BY DownloadAssumption, FS_CardinalityType
<1>2. PICK w \in Bijection(1 .. Cardinality(Peers), Peers) : TRUE
  BY <1>1 DEF ExistsBijection
<1>3. w \in [1 .. Cardinality(Peers) -> Peers] /\ \A p \in Peers : \E n \in DOMAIN w : w[n] = p
  BY <1>2 DEF Bijection, Injection, Surjection
<1>4. Walk \in [1 .. Cardinality(Peers) -> Peers]
  BY <1>3 DEF Walk
<1> QED
  BY <1>1, <1>4

\* StopDownload: a loop over the peers.
LEMMA StopDownloadIs ==
  ASSUME NEW k, NEW t \in Nearly(k)
  PROVE  StopDownload(t) \in Shed(t)
<1> DEFINE N == Cardinality(Peers)
           step(n, x) == PutPending(NotInterested(x, Walk[n]), Walk[n])
           D == [n \in 0 .. N |-> Shed(t)]
           G == [n \in 1 .. N |-> [x \in Shed(t) |-> step(n, x)]]
           stopped == CHOOSE f : f = [n \in 0 .. N |-> IF n = 0 THEN t
                                         ELSE PutPending(NotInterested(f[n - 1], Walk[n]), Walk[n])]
<1>1. StopDownload(t) = stopped[N]
  BY Zenon DEF StopDownload
<1>2. N \in Nat /\ \A n \in 1 .. N : Walk[n] \in Peers
  BY WalkIs
<1> HIDE DEF N
<1>0. t \in Typed /\ Idle(t) /\ t \in Shed(t)
  <2>1. t \in Typed /\ Idle(t)
    BY DEF Nearly, Almost
  <2> QED
    BY <2>1, LooseChanged
<1>3. t \in D[0]
  BY <1>0, <1>2
<1>4. ASSUME NEW n \in 1 .. N, NEW x \in D[n - 1]
      PROVE  G[n][x] \in D[n] /\ G[n][x] = step(n, x)
  <2>1. x \in Shed(t)
    BY <1>2
  <2>2. step(n, x) \in Shed(t)
    <3> DEFINE p == Walk[n]
               y == NotInterested(x, p)
    <3>1. x \in Typed /\ Idle(x) /\ p \in Peers
      BY <1>2, <2>1 DEF Shed
    <3>2. y \in Shed(x) /\ y.peer[p].q.list = << >>
      BY <3>1, NotInterestedIs
    <3>3. y \in Shed(t) /\ y \in Typed
      BY <1>0, <2>1, <3>2, ShedTwice DEF Shed
    <3>4. y \in Nearly(k)
      BY <3>3, ShedIs
    <3> HIDE DEF y, p
    <3>5. PutPending(y, p) \in Shed(y)
      <4>1. y.mult \subseteq y.mult /\ y.dups >= y.dups
        BY <3>3, WorldIs
      <4> QED
        BY <3>1, <3>2, <3>3, <3>4, <4>1, PutPendingIs
    <3>6. PutPending(y, p) \in Shed(t)
      BY <1>0, <3>3, <3>5, ShedTwice
    <3> QED
      BY <3>6 DEF y, p
  <2> HIDE DEF step
  <2> QED
    BY <2>1, <2>2
<1> HIDE DEF step
<1>5. PICK f : Recursion(f, t, G, N) /\ \A n \in 0 .. N : f[n] \in D[n]
  <2>1. \A n \in 1 .. N : \A x \in D[n - 1] : G[n][x] \in D[n]
    BY <1>4
  <2> HIDE DEF D, G
  <2> QED
    BY <1>2, <1>3, <2>1, LoopSound
<1> HIDE DEF D, G
<1>6. f = [n \in 0 .. N |-> IF n = 0 THEN t ELSE step(n, f[n - 1])]
  <2>1. ASSUME NEW n \in 0 .. N, n # 0
        PROVE  G[n][f[n - 1]] = step(n, f[n - 1])
    <3>1. n \in 1 .. N /\ n - 1 \in 0 .. N
      BY <1>2, <2>1
    <3> QED
      BY <1>4, <1>5, <3>1
  <2>2. f = [n \in 0 .. N |-> IF n = 0 THEN t ELSE G[n][f[n - 1]]]
    BY <1>5 DEF Recursion
  <2> QED
    BY <2>1, <2>2
<1>7. stopped = [n \in 0 .. N |-> IF n = 0 THEN t ELSE step(n, stopped[n - 1])]
  BY <1>6, Zenon DEF step
<1> HIDE DEF stopped
<1>8. \A n \in 0 .. N : stopped[n] \in D[n]
  <2>1. stopped[0] \in D[0]
    BY <1>2, <1>3, <1>7
  <2>2. ASSUME NEW n \in 1 .. N, stopped[n - 1] \in D[n - 1] PROVE stopped[n] \in D[n]
    <3>1. n \in 0 .. N /\ n # 0
      BY <1>2
    <3>2. stopped[n] = step(n, stopped[n - 1])
      BY <1>7, <3>1
    <3> QED
      BY <1>4, <2>2, <3>2
  <2> QED
    BY <1>2, <2>1, <2>2, LoopWithin
<1> QED
  BY <1>1, <1>2, <1>8 DEF D

\* CheckInterest.
LEMMA CheckInterestIs ==
  ASSUME NEW t \in Typed, Idle(t)
  PROVE  CheckInterest(t) \in Shed(t)
<1> DEFINE g(p) == IF t.peer[p].int THEN [t.peer[p] EXCEPT !.standby = FALSE]
                   ELSE IF NeedRemoteData(t, p) THEN [t.peer[p] EXCEPT !.int = TRUE, !.standby = FALSE]
                   ELSE t.peer[p]
           f == [p \in Up(t) |-> g(p)]
<1>1. ASSUME NEW p \in Peers PROVE g(p) \in Records /\ g(p).q = t.peer[p].q /\ g(p).status = t.peer[p].status
  <2>1. t.peer[p] \in Records
    BY WorldIs
  <2> QED
    BY <2>1 DEF Records
<1>2. f \in [Up(t) -> Records]
  BY <1>1 DEF Up
<1>3. CheckInterest(t) = WithPeers(t, f)
  BY DEF CheckInterest
<1>4. ASSUME NEW p \in Up(t) PROVE f[p].q = t.peer[p].q /\ f[p].status = "up"
  <2>1. f[p] = g(p) /\ p \in Peers /\ t.peer[p].status = "up"
    BY DEF Up
  <2> HIDE DEF f, g
  <2> QED
    BY <1>1, <2>1
<1> HIDE DEF f
<1> QED
  BY <1>2, <1>3, <1>4, AllShed

\* CancelPiece, on all connected peers.
LEMMA CancelPieceIs ==
  ASSUME NEW t \in Typed, Idle(t), NEW i
  PROVE  CancelPiece(t, i) \in Shed(t) /\ \A p \in Peers : Part(CancelPiece(t, i), p, i) = {}
<1> DEFINE f == [p \in Up(t) |-> PieceCancelled(t.peer[p], i)]
<1>1. \A p \in Peers : t.peer[p] \in Records
  BY WorldIs
<1>2. f \in [Up(t) -> Records]
  BY <1>1, PieceCancelledIs DEF Up
<1>3. CancelPiece(t, i) = WithPeers(t, f)
  BY DEF CancelPiece
<1>4. ASSUME NEW p \in Up(t)
      PROVE  /\ f[p].status = "up" /\ Offs(f[p].q, i) = {}
             /\ \A j \in Pieces : Offs(f[p].q, j) = {} \/ Offs(f[p].q, j) = Offs(t.peer[p].q, j)
  <2>1. p \in Peers /\ t.peer[p].status = "up" /\ f[p] = PieceCancelled(t.peer[p], i)
    BY DEF Up
  <2> HIDE DEF f
  <2>2. LET r == PieceCancelled(t.peer[p], i)
        IN  r.status = "up" /\ Offs(r.q, i) = {} /\ \A j : j # i => Offs(r.q, j) = Offs(t.peer[p].q, j)
    <3> DEFINE e == t.peer[p]
    <3>1. e \in Records /\ e.status = "up"
      BY <1>1, <2>1
    <3> HIDE DEF e
    <3>2. LET r == PieceCancelled(e, i)
          IN  r.status = "up" /\ Offs(r.q, i) = {} /\ \A j : j # i => Offs(r.q, j) = Offs(e.q, j)
      BY <3>1, PieceCancelledIs
    <3> QED
      BY <3>2 DEF e
  <2> QED
    BY <2>1, <2>2
<1> HIDE DEF f
<1>5. WithPeers(t, f) \in Shed(t)
  BY <1>2, <1>4, AllShed
<1>6. ASSUME NEW p \in Peers PROVE Part(WithPeers(t, f), p, i) = {}
  <2>1. Part(WithPeers(t, f), p, i) = Offs(WithPeers(t, f).peer[p].q, i)
    BY <1>2, PeersChanged, PartIs DEF Slots
  <2>2. p \in Up(t) => WithPeers(t, f).peer[p] = f[p]
    BY <1>2, PeersChanged
  <2>3. p \notin Up(t) => WithPeers(t, f).peer[p] = t.peer[p] /\ t.peer[p].q.list = << >>
    BY <1>2, PeersChanged DEF Idle, Q, Up
  <2>4. p \notin Up(t) => Offs(t.peer[p].q, i) = {}
    BY <2>3 DEF Offs, Where
  <2> QED
    BY <1>4, <2>1, <2>2, <2>3, <2>4
<1> QED
  BY <1>3, <1>5, <1>6

\* CancelSlice, on all connected peers.
LEMMA CancelSliceIs ==
  ASSUME NEW t \in Typed, Idle(t), NEW i, NEW o
  PROVE  LET u == CancelSlice(t, i, o)
         IN  /\ u \in Typed /\ Idle(u)
             /\ \A p \in Peers : /\ Part(u, p, i) = Part(t, p, i) \ {o}
                                 /\ \A j : j # i => Part(u, p, j) = Part(t, p, j)
                                 /\ u.peer[p].status = t.peer[p].status
             /\ u.pend = t.pend /\ u.mult = t.mult /\ u.have = t.have /\ u.store = t.store
             /\ u.dups = t.dups /\ u.failed = t.failed /\ u.blamed = t.blamed
<1> DEFINE f == [p \in Up(t) |-> SliceCancelled(t.peer[p], i, o)]
           u == WithPeers(t, f)
<1>1. \A p \in Peers : t.peer[p] \in Records
  BY WorldIs
<1>2. f \in [Up(t) -> Records]
  BY <1>1, SliceCancelledIs DEF Up
<1>3. CancelSlice(t, i, o) = u
  BY DEF CancelSlice
<1>4. ASSUME NEW p \in Up(t)
      PROVE  /\ f[p].status = "up" /\ Offs(f[p].q, i) = Offs(t.peer[p].q, i) \ {o}
             /\ \A j : j # i => Offs(f[p].q, j) = Offs(t.peer[p].q, j)
  <2>1. p \in Peers /\ t.peer[p].status = "up" /\ f[p] = SliceCancelled(t.peer[p], i, o)
    BY DEF Up
  <2> HIDE DEF f
  <2>2. LET r == SliceCancelled(t.peer[p], i, o)
        IN  r.status = "up" /\ Offs(r.q, i) = Offs(t.peer[p].q, i) \ {o} /\ \A j : j # i => Offs(r.q, j) = Offs(t.peer[p].q, j)
    <3> DEFINE e == t.peer[p]
    <3>1. e \in Records /\ e.status = "up"
      BY <1>1, <2>1
    <3> HIDE DEF e
    <3>2. LET r == SliceCancelled(e, i, o)
          IN  r.status = "up" /\ Offs(r.q, i) = Offs(e.q, i) \ {o} /\ \A j : j # i => Offs(r.q, j) = Offs(e.q, j)
      <4>1. SliceCancelled(e, i, o).status = "up" /\ Offs(SliceCancelled(e, i, o).q, i) = Offs(e.q, i) \ {o}
        BY <3>1, SliceCancelledIs
      <4>2. ASSUME NEW j, j # i PROVE Offs(SliceCancelled(e, i, o).q, j) = Offs(e.q, j)
        BY <3>1, <4>2, SliceCancelledIs
      <4> QED
        BY <4>1, <4>2
    <3> QED
      BY <3>2 DEF e
  <2> QED
    BY <2>1, <2>2
<1> HIDE DEF f
<1>5. /\ u \in Typed
      /\ \A p \in Peers : /\ p \in Up(t) => u.peer[p] = f[p]
                          /\ p \notin Up(t) => u.peer[p] = t.peer[p]
      /\ u.pend = t.pend /\ u.mult = t.mult /\ u.have = t.have /\ u.store = t.store
      /\ u.dups = t.dups /\ u.failed = t.failed /\ u.blamed = t.blamed
  BY <1>2, PeersChanged
<1> HIDE DEF u
<1>6. ASSUME NEW p \in Peers
      PROVE  /\ Part(u, p, i) = Part(t, p, i) \ {o}
             /\ \A j : j # i => Part(u, p, j) = Part(t, p, j)
             /\ u.peer[p].status = t.peer[p].status
  <2>1. \A j : Part(u, p, j) = Offs(u.peer[p].q, j) /\ Part(t, p, j) = Offs(t.peer[p].q, j)
    BY <1>5, PartIs DEF Slots
  <2>2. CASE p \in Up(t)
    <3>1. t.peer[p].status = "up" /\ u.peer[p] = f[p]
      BY <1>5, <2>2 DEF Up
    <3> QED
      BY <1>4, <2>1, <2>2, <3>1
  <2>3. CASE p \notin Up(t)
    <3>1. Offs(t.peer[p].q, i) = {}
      BY <2>3 DEF Idle, Q, Up, Offs, Where
    <3> QED
      BY <1>5, <2>1, <2>3, <3>1
  <2> QED
    BY <2>2, <2>3
<1>7. Idle(u)
  <2>1. ASSUME NEW p \in Peers PROVE u.peer[p].status = "up" \/ Q(u, p).list = << >>
    <3>1. p \in Up(t) => u.peer[p].status = "up"
      BY <1>4, <1>5
    <3>2. p \notin Up(t) => Q(u, p).list = << >>
      BY <1>5 DEF Idle, Q, Up
    <3> QED
      BY <3>1, <3>2
  <2> QED
    BY <2>1 DEF Idle
<1> QED
  BY <1>3, <1>5, <1>6, <1>7

\* Of those who list piece i, one lets go of it.
LEMMA LetGo ==
  ASSUME NEW t \in Worlds, NEW i \in Pieces, NEW a \in Slots, Part(t, a, i) # {},
         NEW u \in Shed(t), u.dups = t.dups, Part(u, a, i) = {}
  PROVE  /\ u \in Worlds
         /\ Cardinality(Listing(t, i)) = 2 => [u EXCEPT !.dups = t.dups - 1] \in Worlds
<1>1. /\ u \in Typed /\ Idle(u) /\ u.have = t.have /\ u.store = t.store /\ u.blamed = t.blamed
      /\ t.mult \subseteq u.mult
      /\ \A j \in Pieces, s \in Slots : Part(u, s, j) = {} \/ Part(u, s, j) = Part(t, s, j)
  BY DEF Shed
<1>2. u \in Worlds
  BY ShedIs DEF Worlds
<1>3. t \in Typed /\ Idle(t) /\ t.dups \in Int /\ t.dups >= Cardinality(Twices(t)) /\ Park \in Slots
  BY LinkedIs, WorldIs DEF Slots
<1>4. ASSUME Cardinality(Listing(t, i)) = 2 PROVE [u EXCEPT !.dups = t.dups - 1] \in Worlds
  <2> DEFINE w == [u EXCEPT !.dups = t.dups - 1]
  <2>1. /\ w \in Typed /\ w.peer = u.peer /\ w.pend = u.pend /\ w.have = u.have /\ w.store = u.store
        /\ w.blamed = u.blamed /\ w.mult = u.mult /\ w.dups = t.dups - 1
    BY <1>1, <1>3 DEF Typed
  <2> HIDE DEF w
  <2>2. \A s, j : Part(w, s, j) = Part(u, s, j)
    BY <2>1 DEF Part, Q
  <2>3. Idle(w)
    BY <1>1, <2>1 DEF Idle, Q
  <2>4. ~ Twice(w, i)
    <3> DEFINE L == Listing(t, i)
               K == Listing(w, i)
    <3>1. IsFiniteSet(L) /\ IsFiniteSet(K) /\ (Twice(w, i) <=> Cardinality(K) > 1)
      BY <1>3, <2>1, <2>3, ListingIs
    <3>2. a \in L /\ K \subseteq L \ {a}
      BY <1>1, <2>2 DEF Listing
    <3> HIDE DEF L, K
    <3>3. IsFiniteSet(L \ {a}) /\ Cardinality(L \ {a}) = Cardinality(L) - 1
      BY <3>1, <3>2, FS_RemoveElement
    <3>4. Cardinality(K) <= Cardinality(L \ {a}) /\ Cardinality(K) \in Nat
      BY <3>1, <3>2, <3>3, FS_Subset, FS_CardinalityType
    <3> QED
      BY <1>4, <3>1, <3>3, <3>4 DEF L
  <2>5. Twice(t, i)
    BY <1>3, <1>4, ListingIs
  <2>6. ASSUME NEW j \in Pieces PROVE Marked(t, w, j) /\ Swapped(t, w, j, Park, Park) /\ (Twice(w, j) => Twice(t, j))
    <3>1. Marked(t, w, j) /\ Swapped(t, w, j, Park, Park)
      BY <1>1, <1>3, <2>2 DEF Marked, Swapped, Slots
    <3> QED
      BY <1>3, <3>1, TwiceMoved
  <2>7. w.dups >= Cardinality(Twices(w))
    <3> DEFINE T == Twices(t)
    <3>1. i \in T /\ Twices(w) \subseteq T \ {i}
      BY <2>4, <2>5, <2>6 DEF Twices
    <3>2. IsFiniteSet(T) /\ Cardinality(T) \in Nat /\ Cardinality(Twices(w)) \in Nat
      BY TwicesIs
    <3> HIDE DEF T
    <3>3. IsFiniteSet(T \ {i}) /\ Cardinality(T \ {i}) = Cardinality(T) - 1
      BY <3>1, <3>2, FS_RemoveElement
    <3>4. Cardinality(Twices(w)) <= Cardinality(T \ {i})
      BY <3>1, <3>3, FS_Subset
    <3> QED
      BY <1>3, <2>1, <3>2, <3>3, <3>4 DEF T
  <2>8. w \in Worlds
    BY <1>1, <1>3, <2>1, <2>3, <2>6, <2>7, MovedIs DEF Worlds
  <2> QED
    BY <2>8 DEF w
<1> QED
  BY <1>2, <1>4

\* CancelOneRequest, whoever lets go.
LEMMA CancelOneRequestIs ==
  ASSUME NEW t \in Worlds, NEW i \in Pieces
  PROVE  CancelOneRequest(t, i) \in SUBSET Worlds
<1> DEFINE inPend == HasPiece(t.pend, i)
           n == Cardinality(Holders(t, i)) + IF inPend THEN 1 ELSE 0
           fewer(u) == IF n = 2 THEN [u EXCEPT !.dups = t.dups - 1] ELSE u
           less == [t EXCEPT !.pend = Delete(t.pend, i)]
           without(p) == [t EXCEPT !.peer[p] = PieceCancelled(t.peer[p], i)]
<1>1. t \in Typed /\ Idle(t) /\ n = Cardinality(Listing(t, i)) /\ Park \in Slots
  <2>1. t \in Typed /\ Idle(t)
    BY LinkedIs
  <2> QED
    BY <2>1, ListingIs DEF Slots
<1>2. inPend => fewer(less) \in Worlds
  <2>1. Delete(t.pend, i) \in Parked /\ Offs(Delete(t.pend, i), i) = {}
        /\ \A j : j # i => Offs(Delete(t.pend, i), j) = Offs(t.pend, j)
    BY WorldIs, DeleteIs, ZenonT(60)
  <2>2. /\ less \in Typed /\ less.peer = t.peer /\ less.pend = Delete(t.pend, i) /\ less.have = t.have
        /\ less.store = t.store /\ less.blamed = t.blamed /\ less.mult = t.mult /\ less.dups = t.dups
    BY <1>1, <2>1 DEF Typed
  <2> HIDE DEF less
  <2>3. \A j, s : Part(less, s, j) = {} \/ Part(less, s, j) = Part(t, s, j)
    BY <2>1, <2>2 DEF Part, Q
  <2>4. Part(less, Park, i) = {} /\ (inPend => Part(t, Park, i) # {})
    BY <1>1, <2>1, <2>2, PartIs
  <2>5. less \in Shed(t)
    <3>1. Idle(less)
      BY <1>1, <2>2 DEF Idle, Q
    <3>2. less.dups >= t.dups
      BY <2>2, WorldIs
    <3> QED
      BY <2>2, <2>3, <3>1, <3>2 DEF Shed
  <2> HIDE DEF n
  <2> QED
    BY <1>1, <2>2, <2>4, <2>5, LetGo
<1>3. ASSUME NEW p \in Holders(t, i) PROVE fewer(without(p)) \in Worlds
  <2> DEFINE r == PieceCancelled(t.peer[p], i)
  <2>1. p \in Peers /\ Part(t, p, i) # {} /\ t.peer[p].status = "up" /\ p \in Slots /\ t.peer[p].q.list # << >>
    <3>1. p \in Peers /\ t.peer[p].status = "up" /\ HasPiece(Q(t, p), i) /\ p \in Slots
      BY DEF Holders, Up, Slots
    <3>2. t.peer[p].q.list # << >>
      BY <3>1 DEF HasPiece, Where, Q
    <3>3. Part(t, p, i) # {}
      BY <1>1, <3>1, ListingIs
    <3> QED
      BY <3>1, <3>2, <3>3
  <2>2. r \in Records /\ r.status = "up" /\ Offs(r.q, i) = {} /\ \A j : j # i => Offs(r.q, j) = Offs(t.peer[p].q, j)
    <3> DEFINE e == t.peer[p]
    <3>1. e \in Records /\ e.status = "up"
      BY <2>1, WorldIs
    <3> HIDE DEF e
    <3>2. LET z == PieceCancelled(e, i)
          IN  z \in Records /\ z.status = "up" /\ Offs(z.q, i) = {} /\ \A j : j # i => Offs(z.q, j) = Offs(e.q, j)
      BY <3>1, PieceCancelledIs
    <3> QED
      BY <3>2 DEF e
  <2> HIDE DEF r
  <2>3. [t EXCEPT !.peer[p] = r] \in Shed(t)
    BY <1>1, <2>1, <2>2, PeerShed
  <2>4. [t EXCEPT !.peer[p] = r] \in Typed /\ [t EXCEPT !.peer[p] = r].peer[p] = r /\ [t EXCEPT !.peer[p] = r].dups = t.dups
    BY <1>1, <2>1, <2>2, PeerChanged
  <2>5. Part([t EXCEPT !.peer[p] = r], p, i) = {}
    <3> DEFINE w == [t EXCEPT !.peer[p] = r]
    <3> HIDE DEF w
    <3>1. w \in Typed /\ w.peer[p] = r
      BY <2>4 DEF w
    <3>2. Part(w, p, i) = {}
      BY <2>1, <2>2, <3>1, PartIs
    <3> QED
      BY <3>2 DEF w
  <2> HIDE DEF n
  <2>6. fewer([t EXCEPT !.peer[p] = r]) \in Worlds
    <3> DEFINE w == [t EXCEPT !.peer[p] = r]
    <3> HIDE DEF w
    <3>1. w \in Shed(t) /\ w.dups = t.dups /\ Part(w, p, i) = {}
      BY <2>3, <2>4, <2>5 DEF w
    <3>2. w \in Worlds /\ (n = 2 => [w EXCEPT !.dups = t.dups - 1] \in Worlds)
      BY <1>1, <2>1, <3>1, LetGo
    <3>3. fewer(w) \in Worlds
      BY <3>2
    <3> QED
      BY <3>3 DEF w
  <2> QED
    BY <2>6 DEF r
<1> HIDE DEF fewer, n
<1>4. ASSUME NEW u \in CancelOneRequest(t, i) PROVE u \in Worlds
  <2>1. u = t \/ \E p \in Holders(t, i) :
          \/ u = t
          \/ inPend /\ u = fewer(less)
          \/ u = fewer(without(p))
    BY DEF CancelOneRequest, fewer, n
  <2> HIDE DEF less, without, inPend
  <2> QED
    BY <1>2, <1>3, <2>1
<1> QED
  BY <1>4

-----------------------------------------------------------------------------
(* Choosing what to request.                                               *)

\* p's queue may become another that owes as much.
LEMMA WithQueueIs ==
  ASSUME NEW t \in Typed, NEW p \in Peers, Ready(t, p), NEW q \in PeerQueues, Owed(q) = Owed(Q(t, p))
  PROVE  LET u == WithQueue(t, p, q)
         IN  /\ u \in Typed /\ Ready(u, p) /\ Q(u, p) = q /\ (Idle(t) => Idle(u))
             /\ \A x \in Peers : x # p => u.peer[x] = t.peer[x]
             /\ u.pend = t.pend /\ u.mult = t.mult /\ u.have = t.have /\ u.store = t.store
             /\ u.dups = t.dups /\ u.endgame = t.endgame /\ u.failed = t.failed /\ u.blamed = t.blamed
<1> DEFINE r == [t.peer[p] EXCEPT !.q = q]
           u == [t EXCEPT !.peer[p] = r]
<1>1. t.peer[p] \in Records
  BY WorldIs
<1>2. r \in Records
  BY <1>1, Requeued DEF Ready, Q
<1>3. r.q = q /\ r.status = t.peer[p].status /\ r.int = t.peer[p].int /\ r.out = t.peer[p].out
  BY <1>1 DEF Records
<1>4. WithQueue(t, p, q) = u
  BY DEF WithQueue
<1> HIDE DEF r
<1>5. /\ u \in Typed /\ u.peer[p] = r /\ \A x \in Peers : x # p => u.peer[x] = t.peer[x]
      /\ u.pend = t.pend /\ u.mult = t.mult /\ u.have = t.have /\ u.store = t.store
      /\ u.dups = t.dups /\ u.endgame = t.endgame /\ u.failed = t.failed /\ u.blamed = t.blamed
  BY <1>2, PeerChanged
<1> HIDE DEF u
<1>6. Idle(t) => Idle(u)
  BY <1>3, <1>5 DEF Idle, Q, Ready
<1> QED
  BY <1>3, <1>4, <1>5, <1>6 DEF Ready, Q

\* Queues in which piece i, of which nothing was sent, has been put.
Started(q, i) ==
  {u \in PeerQueues : Fresh(u, i) /\ HasPiece(u, i) /\ Owed(u) = Owed(q) /\ \A j : Offs(u, j) = Offs(q, j)}

\* A round of CompareRequest moves a slice of the new piece only,
LEMMA ComparedIs ==
  ASSUME NEW q, NEW i, NEW u \in Started(q, i), NEW x
  PROVE  Compared(u, x, i) \in Started(q, i)
<1>1. /\ u \in PeerQueues /\ Fresh(u, i) /\ HasPiece(u, i) /\ Owed(u) = Owed(q)
      /\ \A j : Offs(u, j) = Offs(q, j)
  BY DEF Started
<1>2. \A o : MoveLast(u, i, o) \in Started(q, i)
  BY <1>1, MoveLastIs DEF Started
<1> QED
  BY <1>2 DEF Compared

\* and so do all rounds.
LEMMA CompareRequestIs ==
  ASSUME NEW t \in Typed, NEW p \in Peers, NEW i, Fresh(Q(t, p), i), HasPiece(Q(t, p), i),
         NEW w \in CompareRequest(t, p, i)
  PROVE  \E q \in Started(Q(t, p), i) : w = WithQueue(t, p, q)
<1> DEFINE others == Up(t) \ {p}
           N == Cardinality(others)
           S == Started(Q(t, p), i) \X SUBSET Peers
           step(T) == UNION {{<<Compared(c[1], Q(t, x), i), c[2] \ {x}>> : x \in c[2]} : c \in T}
           D == [n \in 0 .. N |-> SUBSET S]
           G == [n \in 1 .. N |-> [T \in SUBSET S |-> step(T)]]
           base == {<<Q(t, p), others>>}
           pass == CHOOSE f : f = [n \in 0 .. N |-> IF n = 0 THEN {<<Q(t, p), others>>}
              ELSE UNION {{<<Compared(c[1], Q(t, x), i), c[2] \ {x}>> : x \in c[2]} : c \in f[n - 1]}]
<1>0. CompareRequest(t, p, i) = IF Qlen(Q(t, p), i) < 2 THEN {t}
                                ELSE {WithQueue(t, p, c[1]) : c \in pass[N]}
  BY Zenon DEF CompareRequest
<1>1. others \in SUBSET Peers
  BY DEF Up
<1>2. N \in Nat
  BY <1>1, DownloadAssumption, FS_Subset, FS_CardinalityType
<1> HIDE DEF N
<1>3. base \in D[0]
  <2>1. Q(t, p) \in Started(Q(t, p), i)
    BY WorldIs DEF Started
  <2> QED
    BY <1>1, <1>2, <2>1
<1> HIDE DEF others
<1>4. ASSUME NEW n \in 1 .. N, NEW T \in D[n - 1]
      PROVE  G[n][T] \in D[n] /\ G[n][T] = step(T)
  <2>1. T \in SUBSET S
    BY <1>2
  <2>2. ASSUME NEW c \in T, NEW x \in c[2]
        PROVE  <<Compared(c[1], Q(t, x), i), c[2] \ {x}>> \in S
    <3>1. c[1] \in Started(Q(t, p), i) /\ c[2] \in SUBSET Peers
      BY <2>1
    <3>2. Compared(c[1], Q(t, x), i) \in Started(Q(t, p), i)
      BY <3>1, ComparedIs
    <3> QED
      BY <3>1, <3>2
  <2> HIDE DEF S
  <2>3. step(T) \in SUBSET S
    BY <2>2
  <2> HIDE DEF step
  <2> QED
    BY <2>1, <2>3
<1> HIDE DEF step
<1>5. PICK f : Recursion(f, base, G, N) /\ \A n \in 0 .. N : f[n] \in D[n]
  <2>1. \A n \in 1 .. N : \A T \in D[n - 1] : G[n][T] \in D[n]
    BY <1>4
  <2> HIDE DEF D, G, base
  <2> QED
    BY <1>2, <1>3, <2>1, LoopSound
<1> HIDE DEF D, G
<1>6. f = [n \in 0 .. N |-> IF n = 0 THEN base ELSE step(f[n - 1])]
  <2> HIDE DEF base
  <2>1. ASSUME NEW n \in 0 .. N, n # 0
        PROVE  G[n][f[n - 1]] = step(f[n - 1])
    <3>1. n \in 1 .. N /\ n - 1 \in 0 .. N
      BY <1>2, <2>1
    <3> QED
      BY <1>4, <1>5, <3>1
  <2>2. f = [n \in 0 .. N |-> IF n = 0 THEN base ELSE G[n][f[n - 1]]]
    BY <1>5 DEF Recursion
  <2> QED
    BY <2>1, <2>2
<1>7. pass = [n \in 0 .. N |-> IF n = 0 THEN base ELSE step(pass[n - 1])]
  BY <1>6, Zenon DEF step
<1> HIDE DEF pass, base
<1>8. \A n \in 0 .. N : pass[n] \in D[n]
  <2>1. pass[0] \in D[0]
    BY <1>2, <1>3, <1>7
  <2>2. ASSUME NEW n \in 1 .. N, pass[n - 1] \in D[n - 1] PROVE pass[n] \in D[n]
    <3>1. n \in 0 .. N /\ n # 0
      BY <1>2
    <3>2. pass[n] = step(pass[n - 1])
      BY <1>7, <3>1
    <3> QED
      BY <1>4, <2>2, <3>2
  <2> QED
    BY <1>2, <2>1, <2>2, LoopWithin
<1>9. pass[N] \in SUBSET S
  BY <1>2, <1>8 DEF D
<1>10. t = WithQueue(t, p, Q(t, p)) /\ Q(t, p) \in Started(Q(t, p), i)
  <2>1. Q(t, p) \in Started(Q(t, p), i)
    BY WorldIs DEF Started
  <2>2. t.peer[p] = [t.peer[p] EXCEPT !.q = t.peer[p].q]
    <3>1. t.peer[p] \in Records
      BY WorldIs
    <3> QED
      BY <3>1 DEF Records
  <2>3. t = [t EXCEPT !.peer[p] = t.peer[p]]
    BY DEF Typed
  <2> QED
    BY <2>1, <2>2, <2>3 DEF WithQueue, Q
<1>11. \A c \in pass[N] : c[1] \in Started(Q(t, p), i)
  BY <1>9
<1> HIDE DEF S
<1> QED
  BY <1>0, <1>10, <1>11

\* Endgame changes nothing about queues.
LEMMA EndgameIs ==
  ASSUME NEW p \in Peers, NEW t \in Readies(p)
  PROVE  Endgame(t) \in Readies(p) /\ \A s \in Slots, i \in Pieces : Part(t, s, i) = {} => Part(Endgame(t), s, i) = {}
<1> DEFINE n == Cardinality({x \in Peers : t.peer[x].status # "gone"})
           missing == Pieces \ t.have
           there == UNION {t.peer[x].bf : x \in Up(t)} \ t.have
           eg == (missing # {} /\ Cardinality(missing) < n) \/ (there # {} /\ Cardinality(there) < n)
           woken == IF eg /\ ~ t.endgame THEN UnStandby(t) ELSE t
           counted == IF ~ eg /\ t.endgame THEN [woken EXCEPT !.dups = RecalcDupReqs(t)] ELSE woken
           u == [counted EXCEPT !.endgame = eg]
<1>1. Endgame(t) = u
  BY DEF Endgame
<1>2. eg \in BOOLEAN
  OBVIOUS
<1>3. t \in Worlds /\ Ready(t, p) /\ t \in Typed /\ Idle(t)
  BY LinkedIs DEF Readies
<1>4. eg /\ ~ t.endgame => counted = UnStandby(t)
  OBVIOUS
<1>5. ~ (eg /\ ~ t.endgame) => counted = t \/ counted = [t EXCEPT !.dups = RecalcDupReqs(t)]
  OBVIOUS
<1> HIDE DEF eg, counted
<1>6. counted \in Worlds /\ Ready(counted, p) /\ \A s \in Slots, i \in Pieces : Part(t, s, i) = {} => Part(counted, s, i) = {}
  <2>1. UnStandby(t) \in Shed(t) /\ UnStandby(t) \in Worlds /\ Ready(UnStandby(t), p)
    BY <1>3, UnStandbyIs, ShedIs DEF Worlds
  <2>2. \A s \in Slots, i \in Pieces : Part(t, s, i) = {} => Part(UnStandby(t), s, i) = {}
    BY <2>1 DEF Shed
  <2> DEFINE w == [t EXCEPT !.dups = RecalcDupReqs(t)]
  <2>3. RecalcDupReqs(t) = Cardinality(Twices(t)) /\ RecalcDupReqs(t) \in Nat
    BY <1>3, RecalcIs
  <2>4. /\ w \in Typed /\ w.peer = t.peer /\ w.pend = t.pend /\ w.have = t.have /\ w.store = t.store
        /\ w.blamed = t.blamed /\ w.mult = t.mult /\ w.dups = RecalcDupReqs(t)
    BY <1>3, <2>3 DEF Typed
  <2> HIDE DEF w
  <2>5. \A s, i : Part(w, s, i) = Part(t, s, i)
    BY <2>4 DEF Part, Q
  <2>6. w \in Worlds
    <3>1. Twices(w) = Twices(t)
      BY <2>5 DEF Twices, Twice
    <3>2. Idle(w)
      BY <1>3, <2>4 DEF Idle, Q
    <3>3. w.dups >= Cardinality(Twices(w))
      BY <2>3, <2>4, <3>1
    <3>4. Park \in Slots /\ \A i \in Pieces : Marked(t, w, i) /\ Swapped(t, w, i, Park, Park)
      BY <2>5 DEF Slots, Marked, Swapped
    <3>5. t.mult \subseteq w.mult
      BY <2>4
    <3> QED
      BY <1>3, <2>4, <3>2, <3>3, <3>4, <3>5, MovedIs DEF Worlds
  <2>7. Ready(w, p)
    BY <1>3, <2>4 DEF Ready
  <2> QED
    BY <1>3, <1>4, <1>5, <2>1, <2>2, <2>5, <2>6, <2>7 DEF w
<1> HIDE DEF u
<1>7. u \in Shed(counted) /\ u.peer = counted.peer /\ u.pend = counted.pend
  <2>1. counted \in Typed /\ Idle(counted)
    BY <1>6, LinkedIs
  <2> QED
    BY <1>2, <2>1, LooseChanged DEF u, Typed
<1>8. u \in Worlds /\ Ready(u, p)
  BY <1>6, <1>7, ShedIs DEF Worlds, Ready
<1>9. \A s, i : Part(u, s, i) = Part(counted, s, i)
  BY <1>7 DEF Part, Q
<1> QED
  BY <1>1, <1>6, <1>8, <1>9 DEF Readies

\* What_Can_Duplicate names a piece that others list, how many, and p does not.
LEMMA WhatCanDuplicateIs ==
  ASSUME NEW t, NEW p, t.peer[p].bf \in SUBSET Pieces, NEW need \in SUBSET Pieces, NEW eg,
         NEW d \in WhatCanDuplicate(t, p, need, eg)
  PROVE  /\ d[1] \in Pieces /\ ~ HasPiece(Q(t, p), d[1])
         /\ Holders(t, d[1]) # {} /\ d[2] = Cardinality(Holders(t, d[1]))
<1> DEFINE valued == FindValuedPieces(t, p, need, ~ eg)
           bf == IF valued = {} /\ eg THEN t.peer[p].bf ELSE valued
           in(i) == Holders(t, i) \ {p}
           cands == {i \in bf : in(i) # {} /\ ~ HasPiece(Q(t, p), i)}
<1>1. valued \in SUBSET Pieces
  BY DEF FindValuedPieces
<1>2. cands \in SUBSET Pieces /\ \A i \in cands : ~ HasPiece(Q(t, p), i) /\ in(i) # {}
  <2> HIDE DEF valued
  <2> QED
    BY <1>1
<1> DEFINE count(i) == Cardinality(in(i))
           worth(i, len) == len[i] > count(i) /\ (eg \/ len[i] < (SlicesPerPiece + 2) * count(i))
           best(i, len)  == \A j \in cands : worth(j, len) =>
                              IF eg THEN len[j] * count(i) <= len[i] * count(j)
                              ELSE len[i] * count(j) <= len[j] * count(i)
           lens == {f \in [cands -> 1 .. SlicesPerPiece] :
                      \A i \in cands : \E x \in in(i) : f[i] = Qlen(Q(t, x), i)}
<1>3. WhatCanDuplicate(t, p, need, eg)
        = UNION {{<<i, count(i)>> : i \in {j \in cands : worth(j, f) /\ best(j, f)}} : f \in lens}
  BY DEF WhatCanDuplicate
<1> HIDE DEF lens, best, worth, cands, count
<1>4. PICK f \in lens : \E i \in {j \in cands : worth(j, f) /\ best(j, f)} : d = <<i, count(i)>>
  BY <1>3
<1>5. PICK i \in cands : d = <<i, count(i)>>
  BY <1>4
<1>6. d[1] = i /\ d[2] = count(i)
  BY <1>5
<1>7. in(i) = Holders(t, i) /\ in(i) # {}
  <2>1. p \notin Holders(t, i)
    BY <1>2 DEF Holders
  <2> QED
    BY <1>2, <2>1
<1> QED
  BY <1>2, <1>6, <1>7 DEF count

-----------------------------------------------------------------------------
(* A piece comes to p.                                                     *)

\* Both ways to say that a piece is in a queue.
LEMMA ListedIs ==
  ASSUME NEW q, NEW i
  PROVE  HasPiece(q, i) <=> i \in QueuedPieces(q)
BY DEF HasPiece, QueuedPieces, Where

\* Only what p lists of piece i is not what it was.
Only(t, w, p, i) ==
  /\ w \in Typed /\ Idle(w) /\ w.have = t.have /\ w.store = t.store /\ w.blamed = t.blamed
  /\ t.mult \subseteq w.mult
  /\ \A s \in Slots, j \in Pieces : s # p \/ j # i => Part(w, s, j) = Part(t, s, j)

\* Nothing is new about the other pieces.
LEMMA OthersKept ==
  ASSUME NEW t \in Worlds, NEW w, NEW p, NEW i \in Pieces, Only(t, w, p, i)
  PROVE  /\ \A j \in Pieces : j # i => (Twice(w, j) <=> Twice(t, j)) /\ (Twice(w, j) => j \in w.mult) /\ Kept(w, j)
         /\ "write" \in Upsets \/ \A b \in w.blamed : b[1] \in Liars
<1>1. ASSUME NEW j \in Pieces, j # i PROVE (Twice(w, j) <=> Twice(t, j)) /\ (Twice(w, j) => j \in w.mult) /\ Kept(w, j)
  <2>1. \A s \in Slots : Part(w, s, j) = Part(t, s, j)
    BY <1>1 DEF Only
  <2>2. t.mult \subseteq w.mult /\ w.have = t.have /\ w.store = t.store
    BY DEF Only
  <2>3. (Twice(w, j) <=> Twice(t, j)) /\ (Twice(t, j) => j \in t.mult) /\ Kept(t, j)
    BY <2>1, LinkedIs DEF Twice
  <2>4. Park \in Slots /\ Marked(t, w, j) /\ Swapped(t, w, j, Park, Park)
    BY <2>1 DEF Slots, Marked, Swapped
  <2> QED
    BY <2>2, <2>3, <2>4, KeptMoved
<1>2. "write" \in Upsets \/ \A b \in w.blamed : b[1] \in Liars
  BY LinkedIs DEF Only
<1> QED
  BY <1>1, <1>2

\* p comes to list what x lists of a piece, which is marked and counted.
LEMMA JoinedIs ==
  ASSUME NEW t \in Worlds, NEW w, NEW p \in Peers, NEW i \in Pieces, Only(t, w, p, i),
         NEW x \in Slots, Part(t, x, i) # {}, Part(w, p, i) = Part(t, x, i), i \in w.mult,
         (w.dups >= t.dups /\ Twice(t, i)) \/ w.dups >= t.dups + 1
  PROVE  w \in Worlds
<1>1. /\ \A j \in Pieces : j # i => (Twice(w, j) <=> Twice(t, j)) /\ (Twice(w, j) => j \in w.mult) /\ Kept(w, j)
      /\ "write" \in Upsets \/ \A b \in w.blamed : b[1] \in Liars
  BY OthersKept
<1>2. Kept(w, i)
  <2>1. w.have = t.have /\ w.store = t.store /\ Kept(t, i) /\ i \notin t.have
    BY LinkedIs DEF Only, Kept
  <2>2. \A s \in Slots : Part(w, s, i) = Part(t, s, i) \/ Part(w, s, i) = Part(t, x, i)
    BY DEF Only
  <2> QED
    BY <2>1, <2>2 DEF Kept
<1>3. w.dups >= Cardinality(Twices(w))
  <2> DEFINE T == Twices(t)
  <2>1. Twices(w) \subseteq T \union {i} /\ (i \in T <=> Twice(t, i))
    BY <1>1 DEF Twices
  <2>2. IsFiniteSet(T) /\ Cardinality(T) \in Nat /\ Cardinality(Twices(w)) \in Nat /\ t.dups >= Cardinality(T)
    BY TwicesIs, LinkedIs
  <2>3. t.dups \in Int /\ w.dups \in Int
    BY WorldIs DEF Only
  <2> HIDE DEF T
  <2>4. IsFiniteSet(T \union {i}) /\ Cardinality(T \union {i}) = IF i \in T THEN Cardinality(T) ELSE Cardinality(T) + 1
    BY <2>2, FS_AddElement
  <2>5. Cardinality(Twices(w)) <= Cardinality(T \union {i})
    BY <2>1, <2>4, FS_Subset
  <2> QED
    BY <2>1, <2>2, <2>3, <2>4, <2>5
<1> QED
  BY <1>1, <1>2, <1>3 DEF Worlds, Nearly, Almost, Only

\* p comes to list a whole piece, which nobody else lists.
LEMMA AddedIs ==
  ASSUME NEW t \in Worlds, NEW w, NEW p \in Peers, NEW i \in Pieces, Only(t, w, p, i),
         i \notin t.have, \A s \in Slots : s # p => Part(t, s, i) = {}, Part(w, p, i) = Offsets,
         w.dups = t.dups
  PROVE  w \in Worlds
<1>1. /\ \A j \in Pieces : j # i => (Twice(w, j) <=> Twice(t, j)) /\ (Twice(w, j) => j \in w.mult) /\ Kept(w, j)
      /\ "write" \in Upsets \/ \A b \in w.blamed : b[1] \in Liars
  BY OthersKept
<1>2. \A s \in Slots : s # p => Part(w, s, i) = {}
  BY DEF Only
<1>3. ~ Twice(w, i)
  BY <1>2 DEF Twice
<1>4. Kept(w, i)
  <2>1. i \notin w.have
    BY DEF Only
  <2>2. \A s \in Slots, o \in Offsets : Part(w, s, i) # {} => o \in Part(w, s, i)
    BY <1>2
  <2>3. \A s \in Peers : s \in Slots
    BY DEF Slots
  <2> QED
    BY <2>1, <2>2, <2>3 DEF Kept
<1>5. w.dups >= Cardinality(Twices(w))
  <2>1. \A j \in Pieces : Twice(w, j) => Twice(t, j)
    BY <1>1, <1>3
  <2>2. Cardinality(Twices(w)) <= Cardinality(Twices(t)) /\ Cardinality(Twices(t)) \in Nat /\ Cardinality(Twices(w)) \in Nat
    BY <2>1, FewerTwices, TwicesIs
  <2>3. t.dups >= Cardinality(Twices(t)) /\ t.dups \in Int
    BY LinkedIs, WorldIs
  <2> QED
    BY <2>2, <2>3
<1> QED
  BY <1>1, <1>3, <1>4, <1>5 DEF Worlds, Nearly, Almost, Only

\* A piece in progress elsewhere is duplicated.
LEMMA CopyDupIs ==
  ASSUME NEW p \in Peers, NEW t \in Readies(p), NEW i \in Pieces, NEW n, ~ HasPiece(Q(t, p), i),
         Holders(t, i) # {}, n = Cardinality(Holders(t, i))
  PROVE  CopyDup(t, p, i, n) \in SUBSET Readies(p)
<1> DEFINE u == [t EXCEPT !.mult = t.mult \union {i}, !.dups = IF n = 1 THEN t.dups + 1 ELSE t.dups]
<1>1. t \in Worlds /\ Ready(t, p) /\ t \in Typed /\ Idle(t) /\ t.dups \in Int
  BY LinkedIs, WorldIs DEF Readies
<1>2. /\ u \in Typed /\ u.peer = t.peer /\ u.pend = t.pend /\ u.have = t.have /\ u.store = t.store
      /\ u.blamed = t.blamed /\ u.mult = t.mult \union {i}
      /\ u.dups = t.dups + 1 \/ (u.dups = t.dups /\ n # 1)
  <2> DEFINE m == t.mult \union {i}
             k == IF n = 1 THEN t.dups + 1 ELSE t.dups
  <2>1. m \in SUBSET Pieces /\ k \in Int /\ (k = t.dups + 1 \/ (k = t.dups /\ n # 1))
    BY <1>1, WorldIs
  <2> HIDE DEF m, k
  <2>2. LET z == [t EXCEPT !.mult = m, !.dups = k]
        IN  /\ z \in Typed /\ z.peer = t.peer /\ z.pend = t.pend /\ z.have = t.have /\ z.store = t.store
            /\ z.blamed = t.blamed /\ z.mult = m /\ z.dups = k
    BY <1>1, <2>1 DEF Typed
  <2> QED
    BY <2>1, <2>2 DEF m, k
<1>3. CopyDup(t, p, i, n) = UNION {UNION {CompareRequest(WithQueue(u, p, q), p, i) :
                              q \in Shuffle(Copy(Q(t, x), Q(t, p), i), i)} : x \in Holders(t, i)}
  BY DEF CopyDup
<1> HIDE DEF u
<1>4. Ready(u, p) /\ Q(u, p) = Q(t, p) /\ Idle(u)
  BY <1>1, <1>2 DEF Ready, Q, Idle
<1>5. n # 1 => Twice(t, i)
  BY <1>1, ListingIs
<1>6. ASSUME NEW x \in Holders(t, i), NEW q \in Shuffle(Copy(Q(t, x), Q(t, p), i), i),
             NEW w \in CompareRequest(WithQueue(u, p, q), p, i)
      PROVE  w \in Readies(p)
  <2> DEFINE c == Copy(Q(t, x), Q(t, p), i)
             v == WithQueue(u, p, q)
  <2>1. x \in Peers /\ HasPiece(Q(t, x), i) /\ Part(t, x, i) # {} /\ x \in Slots /\ p \in Slots /\ x # p
    BY <1>1, ListingIs DEF Holders, Up, Slots
  <2>2. Q(t, x) \in PeerQueues /\ Q(t, p) \in PeerQueues
    BY <1>1, <2>1, WorldIs
  <2>3. /\ c \in PeerQueues /\ Owed(c) = Owed(Q(t, p)) /\ Fresh(c, i) /\ HasPiece(c, i)
        /\ \A j : Offs(c, j) = Offs(IF j = i THEN Q(t, x) ELSE Q(t, p), j)
    BY <2>1, <2>2, CopyIs
  <2>4. q \in Shuffle(c, i)
    OBVIOUS
  <2> HIDE DEF c
  <2>5. /\ q \in PeerQueues /\ Fresh(q, i) /\ Owed(q) = Owed(Q(t, p)) /\ HasPiece(q, i)
        /\ \A j : Offs(q, j) = Offs(IF j = i THEN Q(t, x) ELSE Q(t, p), j)
    BY <2>3, <2>4, ShuffleIs
  <2>6. /\ v \in Typed /\ Ready(v, p) /\ Q(v, p) = q /\ Idle(v) /\ \A y \in Peers : y # p => v.peer[y] = t.peer[y]
        /\ v.pend = t.pend /\ v.have = t.have /\ v.store = t.store /\ v.blamed = t.blamed
        /\ v.mult = u.mult /\ v.dups = u.dups
    BY <1>2, <1>4, <2>5, WithQueueIs
  <2>7. w \in CompareRequest(v, p, i)
    OBVIOUS
  <2> HIDE DEF v
  <2>8. PICK z \in Started(Q(v, p), i) : w = WithQueue(v, p, z)
    BY <2>5, <2>6, <2>7, CompareRequestIs
  <2>9. z \in PeerQueues /\ Owed(z) = Owed(q) /\ \A j : Offs(z, j) = Offs(q, j)
    BY <2>6, <2>8 DEF Started
  <2>10. /\ w \in Typed /\ Ready(w, p) /\ Q(w, p) = z /\ Idle(w) /\ \A y \in Peers : y # p => w.peer[y] = t.peer[y]
         /\ w.pend = t.pend /\ w.have = t.have /\ w.store = t.store /\ w.blamed = t.blamed
         /\ w.mult = u.mult /\ w.dups = u.dups
    BY <2>6, <2>8, <2>9, WithQueueIs
  <2>11. \A j : Part(w, p, j) = Part(t, IF j = i THEN x ELSE p, j)
    BY <2>1, <2>5, <2>9, <2>10 DEF Part
  <2>12. \A s \in Slots, j \in Pieces : s # p => Part(w, s, j) = Part(t, s, j)
    BY <2>10 DEF Part, Q
  <2>13. Only(t, w, p, i)
    BY <1>2, <2>10, <2>11, <2>12 DEF Only
  <2>14. Part(w, p, i) = Part(t, x, i) /\ i \in w.mult /\ ((w.dups >= t.dups /\ Twice(t, i)) \/ w.dups >= t.dups + 1)
    BY <1>1, <1>2, <1>5, <2>10, <2>11
  <2>15. w \in Worlds
    BY <1>1, <2>1, <2>13, <2>14, JoinedIs
  <2> QED
    BY <2>10, <2>15 DEF Readies
<1> QED
  BY <1>3, <1>6

\* Reassign finds a piece if there is one to find.
LEMMA FirstReassignedIs ==
  ASSUME NEW d \in Parked, NEW q, NEW bf, Reassignable(d, q, bf) # {}
  PROVE  FirstReassigned(d, q, bf) \in Reassignable(d, q, bf)
<1> DEFINE R == Reassignable(d, q, bf)
           S == UNION {Where(d, i) : i \in R}
<1>1. Len(d.list) \in Nat /\ DOMAIN d.list = 1 .. Len(d.list)
  BY QueueIs DEF Parked
<1>2. S \in SUBSET Nat
  BY <1>1 DEF Where
<1>3. S # {}
  <2>1. PICK i \in R : TRUE
    OBVIOUS
  <2>2. HasPiece(d, i)
    BY <2>1, ListedIs DEF Reassignable
  <2> QED
    BY <2>1, <2>2 DEF HasPiece
<1> HIDE DEF R
<1>4. Lowest(S) \in S
  <2> HIDE DEF S
  <2>1. \E k \in S : \A j \in S : k <= j
    BY <1>2, <1>3, LeastNumber
  <2> QED
    BY <2>1 DEF Lowest
<1>5. d.list[Lowest(S)].piece \in R
  BY <1>4 DEF Where
<1> QED
  BY <1>5 DEF FirstReassigned, R

\* A piece comes out of PENDING.
LEMMA TakePendingIs ==
  ASSUME NEW p \in Peers, NEW t \in Readies(p), NEW i \in Pieces,
         ~ HasPiece(Q(t, p), i), HasPiece(t.pend, i)
  PROVE  TakePending(t, p, i) \in SUBSET Readies(p)
<1> DEFINE q == Enter(Q(t, p), Segment(t.pend, i))
           v == WithQueue(t, p, q)
           d == Delete(t.pend, i)
           u == [v EXCEPT !.pend = d]
<1>1. /\ t \in Worlds /\ Ready(t, p) /\ t \in Typed /\ Idle(t) /\ t.dups \in Int /\ p \in Slots /\ Park \in Slots
      /\ Q(t, p) \in PeerQueues /\ Q(t, p) \in Queues /\ t.pend \in Parked /\ t.pend \in Queues
  BY LinkedIs, WorldIs DEF Readies, PeerQueues, Slots
<1>2. /\ Segment(t.pend, i) \in Runs(i)
      /\ \A o : o \in Offs(t.pend, i) <=> \E k \in 1 .. Len(Segment(t.pend, i)) : Segment(t.pend, i)[k].off = o
  BY <1>1, SegmentIs
<1>3. /\ q \in PeerQueues /\ Owed(q) = Owed(Q(t, p)) /\ Fresh(q, i) /\ HasPiece(q, i)
      /\ \A j : Offs(q, j) = IF j = i THEN Offs(t.pend, i) ELSE Offs(Q(t, p), j)
  <2> DEFINE seg == Segment(t.pend, i)
  <2> HIDE DEF seg
  <2>1. seg \in Runs(i) /\ \A o : o \in Offs(t.pend, i) <=> \E k \in 1 .. Len(seg) : seg[k].off = o
    BY <1>2 DEF seg
  <2> DEFINE e == Enter(Q(t, p), seg)
  <2> HIDE DEF e
  <2>2. /\ e \in PeerQueues /\ Owed(e) = Owed(Q(t, p)) /\ Fresh(e, i) /\ HasPiece(e, i)
        /\ \A o : o \in Offs(e, i) <=> \E k \in 1 .. Len(seg) : seg[k].off = o
        /\ \A j : j # i => Offs(e, j) = Offs(Q(t, p), j)
    BY <1>1, <2>1, EnterIs DEF e
  <2>3. Offs(e, i) = Offs(t.pend, i)
    BY <2>1, <2>2, Same
  <2> QED
    BY <2>2, <2>3 DEF e, seg
<1> HIDE DEF q
<1>4. /\ v \in Typed /\ Ready(v, p) /\ Q(v, p) = q /\ Idle(v) /\ \A y \in Peers : y # p => v.peer[y] = t.peer[y]
      /\ v.pend = t.pend /\ v.have = t.have /\ v.store = t.store /\ v.blamed = t.blamed
      /\ v.mult = t.mult /\ v.dups = t.dups
  BY <1>1, <1>3, WithQueueIs
<1>5. d \in Parked /\ Offs(d, i) = {} /\ \A j : j # i => Offs(d, j) = Offs(t.pend, j)
  BY <1>1, DeleteIs, ZenonT(60)
<1> HIDE DEF v, d
<1>6. /\ u \in Typed /\ u.peer = v.peer /\ u.pend = d /\ u.have = t.have /\ u.store = t.store /\ u.blamed = t.blamed
      /\ u.mult = t.mult /\ u.dups = t.dups
  BY <1>4, <1>5 DEF Typed
<1> HIDE DEF u
<1>7. Ready(u, p) /\ Q(u, p) = q /\ Idle(u)
  BY <1>4, <1>6 DEF Ready, Q, Idle
<1>8. TakePending(t, p, i) = {[w EXCEPT !.mult = t.mult \union {i}] :
                                 w \in IF i \in t.mult THEN CompareRequest(u, p, i) ELSE {u}}
  BY DEF TakePending, u, v, q, d
<1>9. ASSUME NEW w \in IF i \in t.mult THEN CompareRequest(u, p, i) ELSE {u}
      PROVE  /\ w \in Typed /\ Ready(w, p) /\ Idle(w) /\ \A y \in Peers : y # p => w.peer[y] = t.peer[y]
             /\ w.pend = d /\ w.have = t.have /\ w.store = t.store /\ w.blamed = t.blamed /\ w.dups = t.dups
             /\ \A j : Offs(Q(w, p), j) = IF j = i THEN Offs(t.pend, i) ELSE Offs(Q(t, p), j)
  <2>1. CASE w = u
    BY <1>3, <1>4, <1>6, <1>7, <2>1
  <2>2. CASE w \in CompareRequest(u, p, i)
    <3>1. PICK z \in Started(Q(u, p), i) : w = WithQueue(u, p, z)
      BY <1>3, <1>6, <1>7, <2>2, CompareRequestIs
    <3>2. z \in PeerQueues /\ Owed(z) = Owed(Q(u, p)) /\ \A j : Offs(z, j) = Offs(q, j)
      BY <1>7, <3>1 DEF Started
    <3>3. /\ w \in Typed /\ Ready(w, p) /\ Q(w, p) = z /\ Idle(w) /\ \A y \in Peers : y # p => w.peer[y] = u.peer[y]
          /\ w.pend = u.pend /\ w.have = u.have /\ w.store = u.store /\ w.blamed = u.blamed /\ w.dups = u.dups
      BY <1>6, <1>7, <3>1, <3>2, WithQueueIs
    <3> QED
      BY <1>3, <1>4, <1>6, <3>2, <3>3
  <2> QED
    BY <2>1, <2>2
<1>10. ASSUME NEW w \in IF i \in t.mult THEN CompareRequest(u, p, i) ELSE {u}
       PROVE  [w EXCEPT !.mult = t.mult \union {i}] \in Readies(p)
  <2> DEFINE z == [w EXCEPT !.mult = t.mult \union {i}]
  <2>1. /\ z \in Typed /\ z.peer = w.peer /\ z.pend = d /\ z.have = t.have /\ z.store = t.store
        /\ z.blamed = t.blamed /\ z.dups = t.dups /\ z.mult = t.mult \union {i}
    <3>1. t.mult \union {i} \in SUBSET Pieces
      BY <1>1, WorldIs
    <3> QED
      BY <1>9, <3>1 DEF Typed
  <2> HIDE DEF z
  <2>2. Ready(z, p) /\ Idle(z)
    BY <1>9, <2>1 DEF Ready, Idle, Q
  <2>3. \A j : Part(z, p, j) = IF j = i THEN Part(t, Park, i) ELSE Part(t, p, j)
    BY <1>9, <2>1, ParkIs DEF Part, Q
  <2>4. \A j : Part(z, Park, j) = IF j = i THEN {} ELSE Part(t, Park, j)
    BY <1>5, <2>1, ParkIs DEF Part
  <2>5. \A s \in Slots, j \in Pieces : s # p /\ s # Park => Part(z, s, j) = Part(t, s, j)
    BY <1>9, <2>1 DEF Part, Q, Slots
  <2>6. ASSUME NEW j \in Pieces PROVE Marked(t, z, j) /\ \E a, b \in Slots : Swapped(t, z, j, a, b)
    <3>1. CASE j = i
      <4>1. Marked(t, z, i)
        BY <2>1 DEF Marked
      <4>2. Swapped(t, z, i, p, Park)
        BY <2>3, <2>4, <2>5 DEF Swapped
      <4> QED
        BY <1>1, <3>1, <4>1, <4>2
    <3>2. CASE j # i
      <4>1. \A s \in Slots : Part(z, s, j) = Part(t, s, j)
        BY <2>3, <2>4, <2>5, <3>2
      <4>2. Marked(t, z, j) /\ Swapped(t, z, j, p, p)
        BY <1>1, <4>1 DEF Marked, Swapped, Slots
      <4> QED
        BY <1>1, <4>2
    <3> QED
      BY <3>1, <3>2
  <2>7. t.mult \subseteq z.mult /\ z.dups >= t.dups
    BY <1>1, <2>1
  <2>8. z \in Worlds
    BY <1>1, <2>1, <2>2, <2>6, <2>7, MovedIs DEF Worlds
  <2> QED
    BY <2>2, <2>8 DEF Readies, z
<1> QED
  BY <1>8, <1>10

\* FindLastCommonRequest names a piece of the queue and of the bitfield.
LEMMA FindLastCommonIs ==
  ASSUME NEW q \in PeerQueues, NEW bf, QueuedPieces(q) \intersect bf # {}
  PROVE  FindLastCommonRequest(q, bf) \in QueuedPieces(q) \intersect bf
<1> DEFINE S == UNION {Where(q, i) : i \in bf}
<1>1. Len(q.list) \in Nat /\ DOMAIN q.list = 1 .. Len(q.list)
  BY QueueIs DEF PeerQueues
<1>2. S \in SUBSET Nat /\ \A k \in S : k <= Len(q.list)
  BY <1>1 DEF Where
<1>3. S # {}
  BY DEF QueuedPieces, Where
<1>4. Highest(S) \in S
  <2> HIDE DEF S
  <2>1. \E k \in S : \A j \in S : j <= k
    BY <1>1, <1>2, <1>3, GreatestOne
  <2> QED
    BY <2>1 DEF Highest
<1>5. Highest(S) \in DOMAIN q.list /\ q.list[Highest(S)].piece \in bf
  BY <1>4 DEF Where
<1> QED
  BY <1>5 DEF FindLastCommonRequest, QueuedPieces

\* A piece moves from a slower peer, whose queue is another than p's.
LEMMA AbandonIs ==
  ASSUME NEW p \in Peers, NEW t \in Readies(p), NEW x \in WhoCanAbandon(t, p), Q(t, p).list = << >>
  PROVE  Abandon(t, p, x) \in SUBSET Readies(p)
<1> DEFINE i == FindLastCommonRequest(Q(t, x), t.peer[p].bf)
           q == Copy(Q(t, x), Q(t, p), i)
           v == WithQueue(t, p, q)
           u == [v EXCEPT !.mult = v.mult \union {i}]
<1>1. /\ t \in Worlds /\ Ready(t, p) /\ t \in Typed /\ Idle(t) /\ t.dups \in Int /\ p \in Slots
      /\ Q(t, p) \in PeerQueues
  BY LinkedIs, WorldIs DEF Readies, Slots
<1>2. /\ x \in Peers /\ x \in Slots /\ x # p /\ FindCommonRequest(Q(t, x), t.peer[p].bf, Q(t, p)) # {}
      /\ t.peer[x].status = "up"
  BY DEF WhoCanAbandon, Up, Slots
<1>3. QueuedPieces(Q(t, x)) \intersect t.peer[p].bf # {} /\ Q(t, x) \in PeerQueues /\ t.peer[p].bf \in SUBSET Pieces
  BY <1>1, <1>2, WorldIs, RecordIs DEF FindCommonRequest
<1>4. i \in QueuedPieces(Q(t, x)) /\ i \in Pieces
  BY <1>3, FindLastCommonIs
<1>5. HasPiece(Q(t, x), i) /\ ~ HasPiece(Q(t, p), i)
  <2>1. QueuedPieces(Q(t, p)) = {}
    BY DEF QueuedPieces
  <2> QED
    BY <1>4, <2>1, ListedIs
<1>6. Abandon(t, p, x) = {[w EXCEPT !.peer[x] = PieceCancelled([w.peer[x] EXCEPT !.standby = w.peer[x].standby /\ ~ t.endgame], i)] :
                             w \in CompareRequest(u, p, i)}
  BY DEF Abandon
<1> HIDE DEF i
<1>7. /\ q \in PeerQueues /\ Owed(q) = Owed(Q(t, p)) /\ Fresh(q, i) /\ HasPiece(q, i)
      /\ \A j : Offs(q, j) = Offs(IF j = i THEN Q(t, x) ELSE Q(t, p), j)
  BY <1>1, <1>3, <1>5, CopyIs
<1> HIDE DEF q
<1>8. /\ v \in Typed /\ Ready(v, p) /\ Q(v, p) = q /\ Idle(v) /\ \A y \in Peers : y # p => v.peer[y] = t.peer[y]
      /\ v.pend = t.pend /\ v.have = t.have /\ v.store = t.store /\ v.blamed = t.blamed
      /\ v.mult = t.mult /\ v.dups = t.dups
  BY <1>1, <1>7, WithQueueIs
<1> HIDE DEF v
<1>9. /\ u \in Typed /\ u.peer = v.peer /\ u.pend = t.pend /\ u.have = t.have /\ u.store = t.store /\ u.blamed = t.blamed
      /\ u.mult = t.mult \union {i} /\ u.dups = t.dups
  <2>1. v.mult \union {i} \in SUBSET Pieces
    BY <1>1, <1>4, <1>8, WorldIs
  <2> QED
    BY <1>8, <2>1 DEF Typed
<1> HIDE DEF u
<1>10. Ready(u, p) /\ Q(u, p) = q /\ Idle(u)
  BY <1>8, <1>9 DEF Ready, Q, Idle
<1>11. ASSUME NEW w \in CompareRequest(u, p, i)
       PROVE  /\ w \in Typed /\ Ready(w, p) /\ Idle(w) /\ \A y \in Peers : y # p => w.peer[y] = t.peer[y]
              /\ w.pend = t.pend /\ w.have = t.have /\ w.store = t.store /\ w.blamed = t.blamed
              /\ w.dups = t.dups /\ w.mult = t.mult \union {i}
              /\ \A j : Offs(Q(w, p), j) = Offs(IF j = i THEN Q(t, x) ELSE Q(t, p), j)
  <2>1. PICK z \in Started(Q(u, p), i) : w = WithQueue(u, p, z)
    BY <1>7, <1>9, <1>10, CompareRequestIs
  <2>2. z \in PeerQueues /\ Owed(z) = Owed(Q(u, p)) /\ \A j : Offs(z, j) = Offs(q, j)
    BY <1>10, <2>1 DEF Started
  <2>3. /\ w \in Typed /\ Ready(w, p) /\ Q(w, p) = z /\ Idle(w) /\ \A y \in Peers : y # p => w.peer[y] = u.peer[y]
        /\ w.pend = u.pend /\ w.have = u.have /\ w.store = u.store /\ w.blamed = u.blamed
        /\ w.dups = u.dups /\ w.mult = u.mult
    BY <1>9, <1>10, <2>1, <2>2, WithQueueIs
  <2> QED
    BY <1>7, <1>8, <1>9, <2>2, <2>3
<1>12. ASSUME NEW w \in CompareRequest(u, p, i)
       PROVE  [w EXCEPT !.peer[x] = PieceCancelled([w.peer[x] EXCEPT !.standby = w.peer[x].standby /\ ~ t.endgame], i)] \in Readies(p)
  <2> DEFINE b == w.peer[x].standby /\ ~ t.endgame
             e == [w.peer[x] EXCEPT !.standby = b]
             r == PieceCancelled(e, i)
             z == [w EXCEPT !.peer[x] = r]
  <2>1. w \in Typed /\ w.peer[x] = t.peer[x] /\ t.peer[x] \in Records /\ b \in BOOLEAN
    BY <1>1, <1>2, <1>11, WorldIs, RecordIs
  <2> HIDE DEF b
  <2>2. e \in Records
    BY <2>1, RecordChanged
  <2>3. e.q = t.peer[x].q /\ e.status = "up"
    BY <1>2, <2>1 DEF Records
  <2> HIDE DEF e
  <2>4. r \in Records /\ r.status = "up" /\ Offs(r.q, i) = {} /\ \A j : j # i => Offs(r.q, j) = Offs(t.peer[x].q, j)
    <3>1. r \in Records /\ r.status = "up" /\ Offs(r.q, i) = {} /\ \A j : j # i => Offs(r.q, j) = Offs(e.q, j)
      <4>1. PieceCancelled(e, i) \in Records /\ PieceCancelled(e, i).status = e.status
        BY <2>2, PieceCancelledIs
      <4>2. Offs(PieceCancelled(e, i).q, i) = {}
        BY <2>2, PieceCancelledIs
      <4>3. ASSUME NEW j, j # i PROVE Offs(PieceCancelled(e, i).q, j) = Offs(e.q, j)
        BY <2>2, <4>3, PieceCancelledIs
      <4> QED
        BY <2>3, <4>1, <4>2, <4>3
    <3> HIDE DEF r
    <3> QED
      BY <2>3, <3>1
  <2> HIDE DEF r
  <2>5. /\ z \in Typed /\ z.peer[x] = r /\ z.peer[p] = w.peer[p] /\ \A y \in Peers : y # x => z.peer[y] = w.peer[y]
        /\ z.pend = t.pend /\ z.have = t.have /\ z.store = t.store /\ z.blamed = t.blamed
        /\ z.mult = t.mult \union {i} /\ z.dups = t.dups
    BY <1>2, <1>11, <2>4, PeerChanged
  <2> HIDE DEF z
  <2>6. Ready(z, p)
    BY <1>11, <2>5 DEF Ready
  <2>7. Idle(z)
    BY <1>11, <2>4, <2>5 DEF Idle, Q
  <2>8. \A j : Part(z, p, j) = IF j = i THEN Part(t, x, i) ELSE Part(t, p, j)
    BY <1>2, <1>11, <2>5 DEF Part, Q
  <2>9. \A j : Part(z, x, j) = IF j = i THEN {} ELSE Part(t, x, j)
    BY <1>2, <2>4, <2>5 DEF Part, Q
  <2>10. \A s \in Slots, j \in Pieces : s # p /\ s # x => Part(z, s, j) = Part(t, s, j)
    BY <1>11, <2>5 DEF Part, Q, Slots
  <2>11. ASSUME NEW j \in Pieces PROVE Marked(t, z, j) /\ \E a1, a2 \in Slots : Swapped(t, z, j, a1, a2)
    <3>1. CASE j = i
      <4>1. Marked(t, z, i)
        BY <2>5 DEF Marked
      <4>2. Swapped(t, z, i, p, x)
        BY <1>4, <2>8, <2>9, <2>10 DEF Swapped
      <4> QED
        BY <1>1, <1>2, <3>1, <4>1, <4>2
    <3>2. CASE j # i
      <4>1. \A s \in Slots : Part(z, s, j) = Part(t, s, j)
        BY <2>8, <2>9, <2>10, <3>2
      <4>2. Marked(t, z, j) /\ Swapped(t, z, j, p, p)
        BY <1>1, <4>1 DEF Marked, Swapped, Slots
      <4> QED
        BY <1>1, <4>2
    <3> QED
      BY <3>1, <3>2
  <2>12. t.mult \subseteq z.mult /\ z.dups >= t.dups
    BY <1>1, <2>5
  <2>13. z \in Worlds
    BY <1>1, <2>5, <2>7, <2>11, <2>12, MovedIs DEF Worlds
  <2> QED
    BY <2>6, <2>13 DEF Readies, z, r, e, b
<1> QED
  BY <1>6, <1>12

\* A piece that nobody lists is added.
LEMMA AddedPieceIs ==
  ASSUME NEW p \in Peers, NEW t \in Readies(p), NEW i \in Pieces, i \notin t.have,
         \A x \in Up(t) : i \notin QueuedPieces(Q(t, x)), i \notin QueuedPieces(t.pend)
  PROVE  WithQueue(t, p, AddPiece(Q(t, p), i)) \in Readies(p)
<1> DEFINE q == AddPiece(Q(t, p), i)
           w == WithQueue(t, p, q)
<1>1. /\ t \in Worlds /\ Ready(t, p) /\ t \in Typed /\ Idle(t) /\ p \in Slots
      /\ Q(t, p) \in PeerQueues
  BY LinkedIs, WorldIs DEF Readies, Slots
<1>2. ASSUME NEW s \in Slots PROVE Part(t, s, i) = {}
  <2>1. CASE s \in Peers
    <3>1. s \in Up(t) => ~ HasPiece(Q(t, s), i)
      BY ListedIs
    <3>2. s \notin Up(t) => ~ HasPiece(Q(t, s), i)
      BY <1>1, <2>1 DEF Idle, Up, HasPiece, Where
    <3> QED
      BY <1>1, <2>1, <3>1, <3>2, PartIs
  <2>2. CASE s = Park
    <3>1. ~ HasPiece(t.pend, i)
      BY ListedIs
    <3> QED
      BY <1>1, <2>2, <3>1, PartIs
  <2> QED
    BY <2>1, <2>2 DEF Slots
<1>3. ~ HasPiece(Q(t, p), i)
  BY <1>1, <1>2, PartIs
<1>4. q \in PeerQueues /\ Owed(q) = Owed(Q(t, p)) /\ \A j : Offs(q, j) = IF j = i THEN Offsets ELSE Offs(Q(t, p), j)
  BY <1>1, <1>3, AddPieceIs
<1> HIDE DEF q
<1>5. /\ w \in Typed /\ Ready(w, p) /\ Q(w, p) = q /\ Idle(w) /\ \A y \in Peers : y # p => w.peer[y] = t.peer[y]
      /\ w.pend = t.pend /\ w.have = t.have /\ w.store = t.store /\ w.blamed = t.blamed
      /\ w.mult = t.mult /\ w.dups = t.dups
  BY <1>1, <1>4, WithQueueIs
<1> HIDE DEF w
<1>6. \A j : Part(w, p, j) = IF j = i THEN Offsets ELSE Part(t, p, j)
  BY <1>4, <1>5 DEF Part
<1>7. \A s \in Slots, j \in Pieces : s # p => Part(w, s, j) = Part(t, s, j)
  BY <1>5 DEF Part, Q
<1>8. Only(t, w, p, i)
  BY <1>5, <1>6, <1>7 DEF Only
<1>9. w \in Worlds
  BY <1>1, <1>2, <1>5, <1>6, <1>8, AddedIs
<1> QED
  BY <1>5, <1>9 DEF Readies, w, q

-----------------------------------------------------------------------------
(* RequestPiece and SendRequest.                                           *)

\* What a round leaves: when it goes on, p may be asked for more.
Rounds(p) == {c \in Worlds \X BOOLEAN : c[2] => Ready(c[1], p)}

\* A round of RequestPiece and SendRequest.
LEMMA RoundIs ==
  ASSUME NEW p, NEW t \in Worlds, NEW b \in BOOLEAN, b => Ready(t, p)
  PROVE  <<t, b>> \in Rounds(p)
BY DEF Rounds

\* SendRequest.
LEMMA SendRequestIs ==
  ASSUME NEW p \in Peers, NEW T \in SUBSET Readies(p)
  PROVE  SendRequest(T, p) \in SUBSET Rounds(p)
<1>1. ASSUME NEW u \in Readies(p)
      PROVE  [u EXCEPT !.peer[p] = RequestsSent(u.peer[p])] \in Readies(p)
  <2> DEFINE r == RequestsSent(u.peer[p])
  <2>1. u \in Worlds /\ u.peer[p] \in Records /\ Ready(u, p)
    BY WorldIs DEF Readies
  <2>2. /\ r \in Records /\ r.int /\ r.out >= 0 /\ r.status = "up" /\ u \in Typed /\ Idle(u)
        /\ \A i : Offs(r.q, i) = Offs(u.peer[p].q, i)
    <3> DEFINE e == u.peer[p]
    <3>1. e \in Records /\ e.int /\ e.status = "up"
      BY <2>1 DEF Ready
    <3> HIDE DEF e
    <3>2. LET z == RequestsSent(e)
          IN  z \in Records /\ z.int /\ z.out >= 0 /\ z.status = "up" /\ \A i : Offs(z.q, i) = Offs(e.q, i)
      BY <3>1, RequestsSentIs
    <3> QED
      BY <2>1, <3>2, LinkedIs DEF e
  <2> HIDE DEF r
  <2>3. [u EXCEPT !.peer[p] = r] \in Worlds /\ [u EXCEPT !.peer[p] = r].peer[p] = r
    <3>1. [u EXCEPT !.peer[p] = r] \in Shed(u) /\ [u EXCEPT !.peer[p] = r].peer[p] = r
      BY <2>2, PeerShed, PeerChanged
    <3> QED
      BY <2>1, <3>1, ShedIs DEF Worlds
  <2> QED
    BY <2>2, <2>3 DEF Readies, Ready, r
<1>2. ASSUME NEW t \in Readies(p)
      PROVE  <<t, t.peer[p].out < t.peer[p].depth /\ ~ t.peer[p].standby>> \in Rounds(p)
  <2>1. t \in Worlds /\ Ready(t, p) /\ (t.peer[p].out < t.peer[p].depth /\ ~ t.peer[p].standby) \in BOOLEAN
    BY DEF Readies
  <2> QED
    BY <2>1 DEF Rounds
<1> QED
  BY <1>1, <1>2 DEF SendRequest

\* A round that ends without a call.
LEMMA EndingIs ==
  ASSUME NEW p, NEW T \in SUBSET Worlds
  PROVE  Ending(T) \in SUBSET Rounds(p)
<1>1. ASSUME NEW t \in T PROVE <<t, FALSE>> \in Rounds(p)
  BY RoundIs
<1> QED
  BY <1>1 DEF Ending

\* p stands by.
LEMMA StandbyIs ==
  ASSUME NEW p \in Peers, NEW t \in Worlds
  PROVE  Standby(t, p) \in Worlds
<1> DEFINE r == [t.peer[p] EXCEPT !.standby = TRUE, !.last = None]
<1>1. r \in Records /\ r.q = t.peer[p].q /\ r.status = t.peer[p].status
  <2>1. t.peer[p] \in Records
    BY WorldIs
  <2> QED
    BY <2>1 DEF Records
<1>2. Standby(t, p) = [t EXCEPT !.peer[p] = r]
  BY DEF Standby
<1> HIDE DEF r
<1> QED
  BY <1>1, <1>2, RecordKept

\* RequestPiece when all is requested already.
LEMMA RequestBusyIs ==
  ASSUME NEW p \in Peers, NEW t \in Readies(p), NEW wanted \in SUBSET Pieces
  PROVE  RequestBusy(t, p, wanted) \in SUBSET Rounds(p)
<1> DEFINE dup == IF t.endgame /\ p \notin Slow THEN WhatCanDuplicate(t, p, wanted, TRUE) ELSE {}
<1>1. t \in Worlds /\ t.peer[p].bf \in SUBSET Pieces
  BY WorldIs, RecordIs DEF Readies
<1>2. UNION {CopyDup(t, p, d[1], d[2]) : d \in dup} \in SUBSET Readies(p)
  <2>1. ASSUME NEW d \in dup PROVE CopyDup(t, p, d[1], d[2]) \in SUBSET Readies(p)
    <3>1. d \in WhatCanDuplicate(t, p, wanted, TRUE)
      OBVIOUS
    <3>2. /\ d[1] \in Pieces /\ ~ HasPiece(Q(t, p), d[1])
          /\ Holders(t, d[1]) # {} /\ d[2] = Cardinality(Holders(t, d[1]))
      BY <1>1, <3>1, WhatCanDuplicateIs
    <3> QED
      BY <3>2, CopyDupIs
  <2> QED
    BY <2>1
<1>3. Q(t, p).list = << >> => UNION {Abandon(t, p, x) : x \in WhoCanAbandon(t, p)} \in SUBSET Readies(p)
  BY AbandonIs
<1>4. {Standby(t, p)} \in SUBSET Worlds
  BY <1>1, StandbyIs
<1>5. RequestBusy(t, p, wanted) =
        IF dup # {} THEN SendRequest(UNION {CopyDup(t, p, d[1], d[2]) : d \in dup}, p)
        ELSE IF Q(t, p).list = << >> /\ WhoCanAbandon(t, p) # {}
        THEN SendRequest(UNION {Abandon(t, p, x) : x \in WhoCanAbandon(t, p)}, p)
        ELSE Ending({Standby(t, p)})
  BY DEF RequestBusy
<1> HIDE DEF dup
<1>6. SendRequest(UNION {CopyDup(t, p, d[1], d[2]) : d \in dup}, p) \in SUBSET Rounds(p)
  BY <1>2, SendRequestIs
<1>7. Q(t, p).list = << >> => SendRequest(UNION {Abandon(t, p, x) : x \in WhoCanAbandon(t, p)}, p) \in SUBSET Rounds(p)
  BY <1>3, SendRequestIs
<1>8. Ending({Standby(t, p)}) \in SUBSET Rounds(p)
  BY <1>4, EndingIs
<1> QED
  BY <1>5, <1>6, <1>7, <1>8

\* RequestPiece when p has nothing for us.
LEMMA RequestNothingIs ==
  ASSUME NEW p \in Peers, NEW t \in Worlds
  PROVE  RequestNothing(t, p) \in Worlds
<1>1. [t EXCEPT !.peer[p] = [t.peer[p] EXCEPT !.last = None]] \in Worlds
  <2>1. t.peer[p] \in Records
    BY WorldIs
  <2>2. [t.peer[p] EXCEPT !.last = None] \in Records
    BY <2>1, RecordChanged
  <2>3. [t.peer[p] EXCEPT !.last = None].q = t.peer[p].q /\ [t.peer[p] EXCEPT !.last = None].status = t.peer[p].status
    BY <2>1 DEF Records
  <2> QED
    BY <2>2, <2>3, RecordKept
<1>2. NotInterested(t, p) \in Worlds
  BY LinkedIs, NotInterestedIs, ShedIs DEF Worlds
<1> QED
  BY <1>1, <1>2, StandbyIs DEF RequestNothing

\* RequestPiece, in each of its cases.
LEMMA RequestPieceIs ==
  ASSUME NEW p \in Peers, NEW t \in Readies(p)
  PROVE  RequestPiece(t, p) \in SUBSET Rounds(p)
<1> DEFINE r == t.peer[p]
           need == r.bf \ t.have
           wanted == IF r.last # None /\ Cardinality(need) > 1 THEN need \ {r.last} ELSE need
           taken == UNION {QueuedPieces(Q(t, x)) : x \in Up(t)}
           dup == IF t.have = {} /\ p \notin Slow THEN WhatCanDuplicate(t, p, wanted, FALSE) ELSE {}
           deeper == [t EXCEPT !.peer[p] = [r EXCEPT !.depth = r.out]]
           taking == TakePending(t, p, FirstReassigned(t.pend, r.q, wanted))
           copied == UNION {CopyDup(t, p, d[1], d[2]) : d \in dup}
           added == {WithQueue(t, p, AddPiece(r.q, i)) : i \in wanted \ taken}
           busy == UNION {RequestBusy(e, p, wanted) : e \in {Endgame(t)}}
<1>1. RequestPiece(t, p) =
        IF ~ Roomy(r.q) THEN Ending({deeper})
        ELSE IF Reassignable(t.pend, r.q, wanted) # {} THEN SendRequest(taking, p)
        ELSE IF dup # {} THEN SendRequest(copied, p)
        ELSE IF wanted = {} THEN Ending({RequestNothing(t, p)})
        ELSE IF wanted \ taken # {} THEN SendRequest(added, p)
        ELSE busy
  BY DEF RequestPiece
<1>2. /\ t \in Worlds /\ Ready(t, p) /\ r \in Records /\ r.bf \in SUBSET Pieces /\ r.out \in Nat
      /\ r.q \in PeerQueues /\ Q(t, p) = r.q /\ t.pend \in Parked
  BY WorldIs, RecordIs DEF Readies, Ready, Q
<1>3. wanted \in SUBSET Pieces /\ \A i \in wanted : i \notin t.have
  BY <1>2
<1> HIDE DEF wanted
<1>4. Ending({deeper}) \in SUBSET Rounds(p)
  <2>1. [r EXCEPT !.depth = r.out] \in Records
    BY <1>2, RecordChanged
  <2>2. deeper \in Worlds
    <3>1. [r EXCEPT !.depth = r.out].q = r.q /\ [r EXCEPT !.depth = r.out].status = r.status
      BY <1>2 DEF Records
    <3> QED
      BY <1>2, <2>1, <3>1, RecordKept
  <2> HIDE DEF deeper
  <2> QED
    BY <2>2, EndingIs
<1>5. Reassignable(t.pend, r.q, wanted) # {} => SendRequest(taking, p) \in SUBSET Rounds(p)
  <2> DEFINE i == FirstReassigned(t.pend, r.q, wanted)
  <2>1. SUFFICES ASSUME Reassignable(t.pend, r.q, wanted) # {}
                 PROVE  SendRequest(taking, p) \in SUBSET Rounds(p)
    OBVIOUS
  <2>2. i \in Reassignable(t.pend, r.q, wanted)
    BY <1>2, <2>1, FirstReassignedIs
  <2>3. i \in QueuedPieces(t.pend) /\ i \in wanted /\ i \notin QueuedPieces(r.q)
    BY <2>2 DEF Reassignable
  <2> HIDE DEF i
  <2>4. i \in Pieces /\ ~ HasPiece(Q(t, p), i) /\ HasPiece(t.pend, i)
    BY <1>2, <1>3, <2>3, ListedIs
  <2>5. TakePending(t, p, i) \in SUBSET Readies(p)
    BY <2>4, TakePendingIs
  <2> QED
    BY <2>5, SendRequestIs DEF i
<1>6. SendRequest(copied, p) \in SUBSET Rounds(p)
  <2>1. ASSUME NEW d \in dup PROVE CopyDup(t, p, d[1], d[2]) \in SUBSET Readies(p)
    <3>1. d \in WhatCanDuplicate(t, p, wanted, FALSE)
      OBVIOUS
    <3>2. t.peer[p].bf \in SUBSET Pieces
      BY <1>2
    <3> HIDE DEF dup, r
    <3>3. /\ d[1] \in Pieces /\ ~ HasPiece(Q(t, p), d[1])
          /\ Holders(t, d[1]) # {} /\ d[2] = Cardinality(Holders(t, d[1]))
      BY <1>3, <3>1, <3>2, WhatCanDuplicateIs
    <3> QED
      BY <3>3, CopyDupIs
  <2> HIDE DEF dup
  <2>2. copied \in SUBSET Readies(p)
    BY <2>1
  <2> HIDE DEF copied
  <2> QED
    BY <2>2, SendRequestIs
<1>7. Ending({RequestNothing(t, p)}) \in SUBSET Rounds(p)
  <2>1. {RequestNothing(t, p)} \in SUBSET Worlds
    BY <1>2, RequestNothingIs
  <2> QED
    BY <2>1, EndingIs
<1>8. Reassignable(t.pend, r.q, wanted) = {} => SendRequest(added, p) \in SUBSET Rounds(p)
  <2>1. SUFFICES ASSUME Reassignable(t.pend, r.q, wanted) = {} PROVE SendRequest(added, p) \in SUBSET Rounds(p)
    OBVIOUS
  <2>2. ASSUME NEW i \in wanted \ taken PROVE WithQueue(t, p, AddPiece(r.q, i)) \in Readies(p)
    <3>1. p \in Up(t)
      BY <1>2 DEF Up, Ready
    <3>2. \A x \in Up(t) : i \notin QueuedPieces(Q(t, x))
      OBVIOUS
    <3>3. i \in Pieces /\ i \notin t.have /\ i \notin QueuedPieces(t.pend)
      BY <1>2, <1>3, <2>1, <3>1, <3>2 DEF Reassignable
    <3> QED
      BY <1>2, <3>2, <3>3, AddedPieceIs
  <2> HIDE DEF taken
  <2>3. added \in SUBSET Readies(p)
    BY <2>2
  <2> HIDE DEF added
  <2> QED
    BY <2>3, SendRequestIs
<1>9. busy \in SUBSET Rounds(p)
  BY <1>3, EndgameIs, RequestBusyIs
<1> HIDE DEF deeper, taking, copied, added, busy, dup, taken, r
<1> QED
  BY <1>1, <1>4, <1>5, <1>6, <1>7, <1>8, <1>9

\* RequestPiece and SendRequest call each other: a loop over the rounds.
LEMMA CallsIs ==
  ASSUME NEW p \in Peers, NEW start \in SUBSET Rounds(p)
  PROVE  Calls(start, p) \in SUBSET Worlds
<1> DEFINE N == SlicesPerPiece + 1
           step(T) == UNION {IF c[2] THEN RequestPiece(c[1], p) ELSE {c} : c \in T}
           D == [n \in 0 .. N |-> SUBSET Rounds(p)]
           G == [n \in 1 .. N |-> [T \in SUBSET Rounds(p) |-> step(T)]]
           after == CHOOSE f : f = [n \in 0 .. N |-> IF n = 0 THEN start
                      ELSE UNION {IF c[2] THEN RequestPiece(c[1], p) ELSE {c} : c \in f[n - 1]}]
<1>1. Calls(start, p) = {c[1] : c \in after[N]}
  BY Zenon DEF Calls
<1>2. N \in Nat
  BY DownloadAssumption
<1> HIDE DEF N
<1>3. start \in D[0]
  BY <1>2
<1>4. ASSUME NEW n \in 1 .. N, NEW T \in D[n - 1]
      PROVE  G[n][T] \in D[n] /\ G[n][T] = step(T)
  <2>1. T \in SUBSET Rounds(p)
    BY <1>2
  <2>2. ASSUME NEW c \in T PROVE (c[2] => RequestPiece(c[1], p) \in SUBSET Rounds(p)) /\ c \in Rounds(p)
    <3>1. c \in Rounds(p) /\ c[1] \in Worlds /\ (c[2] => Ready(c[1], p))
      BY <2>1 DEF Rounds
    <3> QED
      BY <3>1, RequestPieceIs DEF Readies
  <2>3. step(T) \in SUBSET Rounds(p)
    BY <2>2
  <2> HIDE DEF step
  <2> QED
    BY <2>1, <2>3
<1> HIDE DEF step
<1>5. PICK f : Recursion(f, start, G, N) /\ \A n \in 0 .. N : f[n] \in D[n]
  <2>1. \A n \in 1 .. N : \A T \in D[n - 1] : G[n][T] \in D[n]
    BY <1>4
  <2> HIDE DEF D, G
  <2> QED
    BY <1>2, <1>3, <2>1, LoopSound
<1> HIDE DEF D, G
<1>6. f = [n \in 0 .. N |-> IF n = 0 THEN start ELSE step(f[n - 1])]
  <2>1. ASSUME NEW n \in 0 .. N, n # 0
        PROVE  G[n][f[n - 1]] = step(f[n - 1])
    <3>1. n \in 1 .. N /\ n - 1 \in 0 .. N
      BY <1>2, <2>1
    <3> QED
      BY <1>4, <1>5, <3>1
  <2>2. f = [n \in 0 .. N |-> IF n = 0 THEN start ELSE G[n][f[n - 1]]]
    BY <1>5 DEF Recursion
  <2> QED
    BY <2>1, <2>2
<1>7. after = [n \in 0 .. N |-> IF n = 0 THEN start ELSE step(after[n - 1])]
  BY <1>6, Zenon DEF step
<1> HIDE DEF after
<1>8. \A n \in 0 .. N : after[n] \in D[n]
  <2>1. after[0] \in D[0]
    BY <1>2, <1>3, <1>7
  <2>2. ASSUME NEW n \in 1 .. N, after[n - 1] \in D[n - 1] PROVE after[n] \in D[n]
    <3>1. n \in 0 .. N /\ n # 0
      BY <1>2
    <3>2. after[n] = step(after[n - 1])
      BY <1>7, <3>1
    <3> QED
      BY <1>4, <2>2, <3>2
  <2> QED
    BY <1>2, <2>1, <2>2, LoopWithin
<1>9. after[N] \in SUBSET Rounds(p)
  BY <1>2, <1>8 DEF D
<1> QED
  BY <1>1, <1>9 DEF Rounds

\* RequestCheck.
LEMMA RequestCheckIs ==
  ASSUME NEW p \in Peers, NEW t \in Worlds, t.peer[p].status = "up"
  PROVE  RequestCheck(t, p) \in SUBSET Worlds
<1> DEFINE r == t.peer[p]
           sb == r.standby /\ r.int
           o == IF ~ r.choked /\ r.out < 0 THEN 0 ELSE r.out
           asked == [r EXCEPT !.int = TRUE, !.standby = sb, !.out = o]
           u == [t EXCEPT !.peer[p] = asked]
<1>1. /\ r \in Records /\ r.out \in Int /\ r.standby \in BOOLEAN /\ r.int \in BOOLEAN
      /\ ("write" \in Upsets \/ r.out = Owed(r.q)) /\ Owed(r.q) \in Nat
  <2>1. r \in Records
    BY WorldIs
  <2> HIDE DEF r
  <2> QED
    BY <2>1, RecordIs, OwedIs
<1>2. sb \in BOOLEAN /\ o \in Int /\ ("write" \in Upsets \/ o = Owed(r.q)) /\ (~ r.choked => o >= 0)
  BY <1>1
<1>3. asked \in Records /\ asked.int /\ asked.out = o /\ asked.status = "up"
  <2> HIDE DEF o, sb
  <2> QED
    BY <1>1, <1>2 DEF Records
<1>12. asked.q = t.peer[p].q
  <2> HIDE DEF o, sb
  <2> QED
    BY <1>1 DEF Records
<1> DEFINE of(w) == IF r.choked \/ (r.q.list # << >> /\ asked.out >= r.depth) THEN {w}
                    ELSE Calls(IF r.q.list = << >> THEN {<<w, TRUE>>} ELSE SendRequest({w}, p), p)
                           \union (IF r.q.list # << >> /\ r.out >= 2 THEN {w} ELSE {})
<1>4. RequestCheck(t, p) = IF Seeding(t) \/ t.paused \/ ~ NeedRemoteData(t, p) THEN {NotInterested(t, p)}
                           ELSE of(u)
  <2>1. RequestCheck(t, p) = IF Seeding(t) \/ t.paused \/ ~ NeedRemoteData(t, p) THEN {NotInterested(t, p)}
                             ELSE UNION {of(w) : w \in {u}}
    BY DEF RequestCheck
  <2> HIDE DEF of
  <2>2. UNION {of(w) : w \in {u}} = of(u)
    OBVIOUS
  <2> QED
    BY <2>1, <2>2
<1> HIDE DEF asked
<1>5. u \in Worlds /\ u.peer[p] = asked
  BY <1>3, <1>12, RecordKept
<1> HIDE DEF u, o
<1>6. ~ r.choked => u \in Readies(p)
  BY <1>2, <1>3, <1>5 DEF Readies, Ready
<1> DEFINE first == IF r.q.list = << >> THEN {<<u, TRUE>>} ELSE SendRequest({u}, p)
<1>7. ~ r.choked => first \in SUBSET Rounds(p)
  <2>1. u \in Readies(p) => <<u, TRUE>> \in Rounds(p)
    BY RoundIs DEF Readies
  <2>2. u \in Readies(p) => SendRequest({u}, p) \in SUBSET Rounds(p)
    BY SendRequestIs
  <2> QED
    BY <1>6, <2>1, <2>2
<1> HIDE DEF first
<1>8. ~ r.choked => Calls(first, p) \in SUBSET Worlds
  BY <1>7, CallsIs
<1>9. NotInterested(t, p) \in Worlds
  BY LinkedIs, NotInterestedIs, ShedIs DEF Worlds
<1> DEFINE full == r.choked \/ (r.q.list # << >> /\ asked.out >= r.depth)
           asking == Calls(first, p) \union (IF r.q.list # << >> /\ r.out >= 2 THEN {u} ELSE {})
<1>10. of(u) = IF full THEN {u} ELSE asking
  BY DEF first
<1>11. ~ full => asking \in SUBSET Worlds
  <2>1. ~ full => ~ r.choked
    OBVIOUS
  <2> HIDE DEF full, r
  <2> QED
    BY <1>5, <1>8, <2>1
<1> HIDE DEF full, asking, r, of
<1> QED
  BY <1>4, <1>5, <1>9, <1>10, <1>11

-----------------------------------------------------------------------------
(* A slice arrives.                                                        *)

\* Somebody is asked for slice o of i, which p sends: by p's own request, or for others
\* who are asked for the piece as well.
Awaited(t, p, i, o) == IsSent(Q(t, p), i, o) \/ Acceptable(t, p, i, o)

\* What holds of a slice that was awaited, once it is saved: if only p was asked for its
\* piece and p is honest, it is good, and so is what p has sent of the piece before.
Honest(t, p, i) ==
  \/ "write" \in Upsets \/ p \in Liars \/ i \in t.mult
  \/ \A o \in Offsets : o \in Part(t, p, i) \/ t.store[<<i, o>>] = "good"

\* Those who are asked for i besides p are known of.
Counted(t, p, i) ==
  \/ t.dups >= 1 /\ i \in t.mult
  \/ \A s \in Slots : s # p => Part(t, s, i) = {}

\* Who has sent it, has it on a list.
LEMMA AwaitedIs ==
  ASSUME NEW t \in Worlds, NEW p \in Peers, NEW i \in Pieces, NEW o \in Offsets, Awaited(t, p, i, o)
  PROVE  /\ i \notin t.have
         /\ IsSent(Q(t, p), i, o) => o \in Part(t, p, i) /\ Honest(t, p, i) /\ Counted(t, p, i)
         /\ ~ IsSent(Q(t, p), i, o) => i \in t.mult
<1>1. t \in Typed /\ Kept(t, i) /\ (Twice(t, i) => i \in t.mult) /\ t.dups >= Cardinality(Twices(t)) /\ t.dups \in Int
  BY LinkedIs, WorldIs
<1>2. \A x \in Peers : HasSlice(Q(t, x), i, o) => x \in Slots /\ o \in Part(t, x, i)
  BY <1>1, PartIs DEF Slots
<1>3. HasSlice(t.pend, i, o) => Park \in Slots /\ o \in Part(t, Park, i)
  BY <1>1, PartIs DEF Slots
<1>4. IsSent(Q(t, p), i, o) => HasSlice(Q(t, p), i, o)
  BY DEF IsSent, HasSlice
<1>5. \E s \in Slots : o \in Part(t, s, i)
  BY <1>2, <1>3, <1>4 DEF Awaited, Acceptable
<1>6. i \notin t.have
  BY <1>1, <1>5 DEF Kept
<1>7. ASSUME IsSent(Q(t, p), i, o)
      PROVE  o \in Part(t, p, i) /\ Honest(t, p, i) /\ Counted(t, p, i)
  <2>1. p \in Slots /\ o \in Part(t, p, i)
    BY <1>2, <1>4, <1>7
  <2>2. Honest(t, p, i)
    BY <1>1, <1>6, <2>1 DEF Kept, Honest
  <2>3. ASSUME NEW s \in Slots, s # p, Part(t, s, i) # {} PROVE t.dups >= 1 /\ i \in t.mult
    <3>1. Twice(t, i)
      BY <2>1, <2>3 DEF Twice
    <3>2. i \in Twices(t)
      BY <3>1 DEF Twices
    <3>3. Cardinality(Twices(t)) # 0
      BY <3>2, TwicesIs, FS_EmptySet
    <3> QED
      BY <1>1, <3>1, <3>3, TwicesIs
  <2> QED
    BY <2>1, <2>2, <2>3 DEF Counted
<1>8. ~ IsSent(Q(t, p), i, o) => i \in t.mult
  BY DEF Awaited, Acceptable
<1> QED
  BY <1>6, <1>7, <1>8

\* What is more is counted and marked.
LEMMA CountedShed ==
  ASSUME NEW t \in Typed, NEW u \in Shed(t), NEW p, NEW i \in Pieces, Counted(t, p, i)
  PROVE  Counted(u, p, i)
<1>1. t.dups \in Int /\ u.dups \in Int /\ u.dups >= t.dups /\ t.mult \subseteq u.mult
  BY WorldIs DEF Shed
<1>2. \A s \in Slots : Part(u, s, i) = {} \/ Part(u, s, i) = Part(t, s, i)
  BY DEF Shed
<1>3. CASE t.dups >= 1 /\ i \in t.mult
  BY <1>1, <1>3 DEF Counted
<1>4. CASE \A s \in Slots : s # p => Part(t, s, i) = {}
  BY <1>2, <1>4 DEF Counted
<1> QED
  BY <1>3, <1>4 DEF Counted

\* The slice is saved.
Saved(t, s, v) == [t EXCEPT !.store[s] = v]

\* What p was asked for and sent may be saved.
LEMMA SavedIs ==
  ASSUME NEW t \in Worlds, NEW p \in Peers, NEW i \in Pieces, NEW o \in Offsets, Awaited(t, p, i, o),
         NEW v \in {"good", "bad"}, v = "bad" => p \in Liars
  PROVE  LET u == Saved(t, <<i, o>>, v)
         IN  /\ u \in Worlds /\ u.peer = t.peer /\ u.store[<<i, o>>] = v /\ u.mult = t.mult
             /\ u.have = t.have /\ u.dups = t.dups
             /\ IsSent(Q(t, p), i, o) => Honest(u, p, i) /\ Counted(u, p, i)
<1> DEFINE f == [t.store EXCEPT ![<<i, o>>] = v]
           u == Saved(t, <<i, o>>, v)
<1>1. /\ t \in Typed /\ Idle(t) /\ \A j \in Pieces : (Twice(t, j) => j \in t.mult) /\ Kept(t, j)
      /\ t.dups >= Cardinality(Twices(t)) /\ ("write" \in Upsets \/ \A b \in t.blamed : b[1] \in Liars)
  BY LinkedIs
<1>2. /\ i \notin t.have /\ (~ IsSent(Q(t, p), i, o) => i \in t.mult)
      /\ (IsSent(Q(t, p), i, o) => o \in Part(t, p, i) /\ Honest(t, p, i) /\ Counted(t, p, i))
  BY AwaitedIs
<1>3. /\ f \in [Slices -> {"none", "good", "bad"}] /\ f[<<i, o>>] = v
      /\ \A j \in Pieces, x \in Offsets : <<j, x>> # <<i, o>> => f[<<j, x>>] = t.store[<<j, x>>]
  BY <1>1, WorldIs DEF Slices
<1>4. u = [t EXCEPT !.store = f]
  BY <1>1 DEF Typed, Saved
<1> HIDE DEF f, u
<1>5. /\ u \in Typed /\ u.store = f /\ u.peer = t.peer /\ u.pend = t.pend /\ u.mult = t.mult
      /\ u.have = t.have /\ u.dups = t.dups /\ u.blamed = t.blamed
  BY <1>1, <1>3, <1>4 DEF Typed
<1>6. /\ \A s, j : Part(u, s, j) = Part(t, s, j)
      /\ Idle(u) /\ \A j : Twice(u, j) <=> Twice(t, j)
  BY <1>1, <1>5 DEF Part, Q, Idle, Twice
<1>7. Twices(u) = Twices(t)
  BY <1>6 DEF Twices
<1>8. ASSUME NEW j \in Pieces PROVE Kept(u, j)
  <2>1. j \in u.have => \A s \in Slots : Part(u, s, j) = {}
    BY <1>1, <1>5, <1>6 DEF Kept
  <2>2. ASSUME j \notin u.have, NEW s \in Slots, NEW x \in Offsets, Part(u, s, j) # {}, u.store[<<j, x>>] = "none"
        PROVE  x \in Part(u, s, j)
    <3>1. u.store[<<j, x>>] = t.store[<<j, x>>]
      BY <1>3, <1>5, <2>2
    <3> QED
      BY <1>1, <1>5, <1>6, <2>2, <3>1 DEF Kept
  <2>3. ASSUME "write" \notin Upsets, j \notin u.have, j \notin u.mult,
               NEW y \in Peers \ Liars, NEW x \in Offsets, Part(u, y, j) # {}
        PROVE  x \in Part(u, y, j) \/ u.store[<<j, x>>] = "good"
    <3>1. x \in Part(t, y, j) \/ t.store[<<j, x>>] = "good"
      BY <1>1, <1>5, <1>6, <2>3 DEF Kept
    <3>2. CASE <<j, x>> # <<i, o>>
      BY <1>3, <1>5, <1>6, <3>1, <3>2
    <3>3. CASE j = i /\ x = o
      <4>1. o \in Part(t, p, i) /\ p \in Slots /\ y \in Slots
        BY <1>2, <1>5, <2>3, <3>3 DEF Slots
      <4>2. y = p
        <5>1. ~ Twice(t, i)
          BY <1>1, <1>5, <2>3, <3>3
        <5> QED
          BY <1>6, <2>3, <3>3, <4>1, <5>1 DEF Twice
      <4> QED
        BY <1>6, <3>3, <4>1, <4>2
    <3> QED
      BY <3>2, <3>3
  <2> QED
    BY <2>1, <2>2, <2>3 DEF Kept
<1>9. u \in Worlds
  BY <1>1, <1>5, <1>6, <1>7, <1>8 DEF Worlds, Nearly, Almost
<1>10. ASSUME IsSent(Q(t, p), i, o) PROVE Honest(u, p, i) /\ Counted(u, p, i)
  <2>1. Honest(t, p, i) /\ Counted(t, p, i) /\ o \in Part(t, p, i)
    BY <1>2, <1>10
  <2>2. Counted(u, p, i)
    BY <1>5, <1>6, <2>1 DEF Counted
  <2>3. Honest(u, p, i)
    <3>1. \A x \in Offsets : x # o => u.store[<<i, x>>] = t.store[<<i, x>>]
      BY <1>3, <1>5
    <3> QED
      BY <1>5, <1>6, <2>1, <3>1 DEF Honest
  <2> QED
    BY <2>2, <2>3
<1> QED
  BY <1>3, <1>5, <1>9, <1>10 DEF u

\* Slice o of i leaves p's list, and some others'.
Dropped(t, u, p, i, o) ==
  /\ u \in Typed /\ Idle(u) /\ u.mult = t.mult /\ u.have = t.have /\ u.store = t.store
  /\ u.dups = t.dups /\ u.blamed = t.blamed
  /\ Part(u, p, i) = Part(t, p, i) \ {o}
  /\ \A s \in Slots : Part(u, s, i) = Part(t, s, i) \/ Part(u, s, i) = Part(t, s, i) \ {o}
  /\ \A s \in Slots, j \in Pieces : j # i => Part(u, s, j) = Part(t, s, j)

\* Once it is saved, it may.
LEMMA DroppedIs ==
  ASSUME NEW t \in Worlds, NEW p \in Peers, NEW i \in Pieces, NEW o \in Offsets, NEW u, Dropped(t, u, p, i, o),
         i \notin t.have, t.store[<<i, o>>] # "none",
         "write" \in Upsets \/ i \in t.mult \/ (o \in Part(t, p, i) /\ (p \in Liars \/ t.store[<<i, o>>] = "good"))
  PROVE  /\ u \in Worlds
         /\ Counted(t, p, i) => Counted(u, p, i)
         /\ Honest(t, p, i) /\ (p \in Liars \/ t.store[<<i, o>>] = "good") => Honest(u, p, i)
<1>1. /\ t \in Typed /\ Idle(t) /\ \A j \in Pieces : (Twice(t, j) => j \in t.mult) /\ Kept(t, j)
      /\ t.dups >= Cardinality(Twices(t)) /\ ("write" \in Upsets \/ \A b \in t.blamed : b[1] \in Liars)
  BY LinkedIs
<1>2. /\ u \in Typed /\ Idle(u) /\ u.mult = t.mult /\ u.have = t.have /\ u.store = t.store
      /\ u.dups = t.dups /\ u.blamed = t.blamed
      /\ Part(u, p, i) = Part(t, p, i) \ {o}
      /\ \A s \in Slots : Part(u, s, i) = Part(t, s, i) \/ Part(u, s, i) = Part(t, s, i) \ {o}
      /\ \A s \in Slots, j \in Pieces : j # i => Part(u, s, j) = Part(t, s, j)
  BY DEF Dropped
<1>3. \A s \in Slots, j \in Pieces : Part(u, s, j) \subseteq Part(t, s, j)
  BY <1>2
<1>4. \A j \in Pieces : Twice(u, j) => Twice(t, j)
  BY <1>3 DEF Twice
<1>5. u.dups >= Cardinality(Twices(u))
  <2>1. Cardinality(Twices(u)) <= Cardinality(Twices(t)) /\ Cardinality(Twices(t)) \in Nat /\ Cardinality(Twices(u)) \in Nat
    BY <1>4, FewerTwices, TwicesIs
  <2>2. t.dups \in Int
    BY <1>1, WorldIs
  <2> QED
    BY <1>1, <1>2, <2>1, <2>2
<1>6. ASSUME NEW j \in Pieces, j # i PROVE Kept(u, j)
  <2>1. Kept(t, j) /\ \A s \in Slots : Part(u, s, j) = Part(t, s, j)
    BY <1>1, <1>2, <1>6
  <2>2. \A y \in Peers : y \in Slots
    BY DEF Slots
  <2> QED
    BY <1>2, <2>1, <2>2 DEF Kept
<1>7. Kept(u, i)
  <2>1. ASSUME NEW s \in Slots, NEW x \in Offsets, Part(u, s, i) # {}, u.store[<<i, x>>] = "none"
        PROVE  x \in Part(u, s, i)
    <3>1. x # o
      BY <1>2, <2>1
    <3>2. x \in Part(t, s, i)
      BY <1>1, <1>2, <1>3, <2>1 DEF Kept
    <3> QED
      BY <1>2, <3>1, <3>2
  <2>2. ASSUME "write" \notin Upsets, i \notin u.mult, NEW y \in Peers \ Liars, NEW x \in Offsets, Part(u, y, i) # {}
        PROVE  x \in Part(u, y, i) \/ u.store[<<i, x>>] = "good"
    <3>1. y \in Slots /\ p \in Slots
      BY DEF Slots
    <3>2. o \in Part(t, p, i) /\ (p \in Liars \/ t.store[<<i, o>>] = "good")
      BY <1>2, <2>2
    <3>3. Part(t, y, i) # {}
      BY <1>3, <2>2, <3>1
    <3>4. y = p
      <4>1. ~ Twice(t, i)
        BY <1>1, <1>2, <2>2
      <4> QED
        BY <3>1, <3>2, <3>3, <4>1 DEF Twice
    <3>5. x \in Part(t, y, i) \/ t.store[<<i, x>>] = "good"
      BY <1>1, <1>2, <2>2, <3>3 DEF Kept
    <3> QED
      BY <1>2, <2>2, <3>2, <3>4, <3>5
  <2> QED
    BY <1>2, <2>1, <2>2 DEF Kept
<1>8. u \in Worlds
  BY <1>1, <1>2, <1>4, <1>5, <1>6, <1>7 DEF Worlds, Nearly, Almost
<1>9. Counted(t, p, i) => Counted(u, p, i)
  BY <1>2, <1>3 DEF Counted
<1>10. Honest(t, p, i) /\ (p \in Liars \/ t.store[<<i, o>>] = "good") => Honest(u, p, i)
  BY <1>2 DEF Honest
<1> QED
  BY <1>8, <1>9, <1>10

\* The slice that arrived leaves the queues, and m_req_out with it if it was requested.
LEMMA ArrivedIs ==
  ASSUME NEW t \in Worlds, NEW p \in Peers, NEW i \in Pieces, NEW o \in Offsets, NEW requested \in BOOLEAN,
         "write" \in Upsets \/ (requested <=> IsSent(Q(t, p), i, o))
  PROVE  Dropped(t, Arrived(t, p, i, o, requested)[1], p, i, o)
<1> DEFINE r == t.peer[p]
           q == Remove(r.q, i, o)
           n == IF requested THEN r.out - 1 ELSE r.out
           e == [r EXCEPT !.q = q, !.out = n]
           got == [t EXCEPT !.peer[p] = e]
           spread == ~ requested \/ (got.dups # 0 /\ i \in got.mult)
           freed == IF spread THEN CancelSlice(got, i, o) ELSE got
           purge == freed.dups # 0 \/ freed.failed
           rest == IF purge THEN [freed EXCEPT !.pend = Remove(freed.pend, i, o)] ELSE freed
<1>0. t \in Typed /\ Idle(t) /\ r \in Records
  BY LinkedIs, WorldIs
<1>1. /\ r.q \in PeerQueues /\ r.q \in Queues /\ r.out \in Int
      /\ r.int \/ r.q.list = << >>
      /\ "write" \in Upsets \/ r.out = Owed(r.q)
  <2> HIDE DEF r
  <2> QED
    BY <1>0, RecordIs
<1>2. /\ q \in PeerQueues /\ (r.q.list = << >> => q.list = << >>)
      /\ Offs(q, i) = Offs(r.q, i) \ {o} /\ \A j : j # i => Offs(q, j) = Offs(r.q, j)
  <2>1. q \in PeerQueues /\ Offs(q, i) = Offs(r.q, i) \ {o} /\ \A j : j # i => Offs(q, j) = Offs(r.q, j)
    BY <1>1, RemoveIs
  <2>2. r.q.list = << >> => q = r.q
    <3>1. r.q.list = << >> => ~ HasSlice(r.q, i, o)
      BY DEF HasSlice, At, Where
    <3> QED
      BY <3>1 DEF Remove
  <2> QED
    BY <2>1, <2>2
<1>3. n \in Int /\ (n = Owed(q) \/ "write" \in Upsets)
  <2>1. /\ IsSent(r.q, i, o) => Owed(q) = Owed(r.q) - 1
        /\ ~ IsSent(r.q, i, o) => Owed(q) = Owed(r.q)
    BY <1>1, RemoveIs
  <2>2. Q(t, p) = r.q
    BY DEF Q
  <2> HIDE DEF q, r
  <2> QED
    BY <1>1, <2>1, <2>2
<1> HIDE DEF q, n
<1>4. e \in Records /\ e.q = q /\ e.status = r.status
  <2>1. e \in Records
    BY <1>0, <1>1, <1>2, <1>3, Requeued
  <2> HIDE DEF r
  <2> QED
    BY <1>0, <2>1 DEF Records
<1> HIDE DEF e
<1>5. /\ got \in Typed /\ got.peer[p] = e /\ \A x \in Peers : x # p => got.peer[x] = t.peer[x]
      /\ got.pend = t.pend /\ got.mult = t.mult /\ got.have = t.have /\ got.store = t.store
      /\ got.dups = t.dups /\ got.failed = t.failed /\ got.blamed = t.blamed
  BY <1>0, <1>4, PeerChanged
<1>6. Arrived(t, p, i, o, requested)[1] = rest
  BY DEF Arrived, e, q, n
<1> HIDE DEF got
<1>7. Idle(got)
  BY <1>0, <1>2, <1>4, <1>5 DEF Idle, Q
<1>8. /\ \A x \in Peers : \A j : x # p => Part(got, x, j) = Part(t, x, j)
      /\ Part(got, p, i) = Part(t, p, i) \ {o} /\ \A j : j # i => Part(got, p, j) = Part(t, p, j)
      /\ \A j : Part(got, Park, j) = Part(t, Park, j)
  <2>1. Part(t, p, i) = Offs(r.q, i) /\ Part(got, p, i) = Offs(q, i)
    BY <1>4, <1>5 DEF Part, Q
  <2>2. \A j : Part(t, p, j) = Offs(r.q, j) /\ Part(got, p, j) = Offs(q, j)
    BY <1>4, <1>5 DEF Part, Q
  <2>3. \A x \in Peers : \A j : x # p => Part(got, x, j) = Part(t, x, j)
    BY <1>5 DEF Part, Q
  <2>4. \A j : Part(got, Park, j) = Part(t, Park, j)
    BY <1>5, ParkIs DEF Part
  <2> QED
    BY <1>2, <2>1, <2>2, <2>3, <2>4
<1> HIDE DEF e, r, n, q
<1>9. /\ freed \in Typed /\ Idle(freed) /\ freed.pend = t.pend /\ freed.mult = t.mult /\ freed.have = t.have
      /\ freed.store = t.store /\ freed.dups = t.dups /\ freed.failed = t.failed /\ freed.blamed = t.blamed
      /\ Part(freed, p, i) = Part(t, p, i) \ {o}
      /\ \A x \in Peers : Part(freed, x, i) = Part(t, x, i) \/ Part(freed, x, i) = Part(t, x, i) \ {o}
      /\ \A x \in Peers : \A j : j # i => Part(freed, x, j) = Part(t, x, j)
  <2>1. CASE ~ spread
    <3>1. freed = got
      BY <2>1
    <3> HIDE DEF freed
    <3> QED
      BY <1>5, <1>7, <1>8, <3>1
  <2>2. CASE spread
    <3>1. freed = CancelSlice(got, i, o)
      BY <2>2
    <3> HIDE DEF freed
    <3>2. /\ freed \in Typed /\ Idle(freed) /\ freed.pend = got.pend /\ freed.mult = got.mult /\ freed.have = got.have
          /\ freed.store = got.store /\ freed.dups = got.dups /\ freed.failed = got.failed /\ freed.blamed = got.blamed
          /\ \A x \in Peers : /\ Part(freed, x, i) = Part(got, x, i) \ {o}
                              /\ \A j : j # i => Part(freed, x, j) = Part(got, x, j)
      BY <1>5, <1>7, <3>1, CancelSliceIs
    <3>3. Part(freed, p, i) = Part(t, p, i) \ {o}
      BY <1>8, <3>2
    <3>4. \A x \in Peers : Part(freed, x, i) = Part(t, x, i) \ {o}
      BY <1>8, <3>2, <3>3
    <3>5. \A x \in Peers : \A j : j # i => Part(freed, x, j) = Part(t, x, j)
      BY <1>8, <3>2
    <3> QED
      BY <1>5, <3>2, <3>3, <3>4, <3>5
  <2> QED
    BY <2>1, <2>2
<1> HIDE DEF freed
<1>10. /\ rest \in Typed /\ rest.peer = freed.peer /\ rest.mult = t.mult /\ rest.have = t.have
       /\ rest.store = t.store /\ rest.dups = t.dups /\ rest.blamed = t.blamed
       /\ rest.pend = t.pend \/ rest.pend = Remove(t.pend, i, o)
  <2>1. Remove(freed.pend, i, o) \in Parked
    BY <1>9, WorldIs, RemoveIs
  <2> QED
    BY <1>9, <2>1 DEF Typed
<1> HIDE DEF rest
<1>11. /\ \A x \in Peers : \A j : Part(rest, x, j) = Part(freed, x, j)
       /\ Idle(rest)
  BY <1>9, <1>10 DEF Part, Q, Idle
<1>12. /\ Part(rest, Park, i) = Part(t, Park, i) \/ Part(rest, Park, i) = Part(t, Park, i) \ {o}
       /\ \A j : j # i => Part(rest, Park, j) = Part(t, Park, j)
  <2>1. LET d == Remove(t.pend, i, o)
        IN  Offs(d, i) = Offs(t.pend, i) \ {o} /\ \A j : j # i => Offs(d, j) = Offs(t.pend, j)
    <3>1. t.pend \in Queues
      BY <1>0, WorldIs
    <3> QED
      BY <3>1, RemoveIs
  <2>2. \A j : Part(rest, Park, j) = Offs(rest.pend, j) /\ Part(t, Park, j) = Offs(t.pend, j)
    BY ParkIs DEF Part
  <2>3. CASE rest.pend = t.pend
    BY <2>2, <2>3
  <2>4. CASE rest.pend = Remove(t.pend, i, o)
    BY <2>1, <2>2, <2>4
  <2> QED
    BY <1>10, <2>3, <2>4
<1>13. Dropped(t, rest, p, i, o)
  <2>1. Part(rest, p, i) = Part(t, p, i) \ {o}
    BY <1>9, <1>11
  <2>2. ASSUME NEW s \in Slots PROVE Part(rest, s, i) = Part(t, s, i) \/ Part(rest, s, i) = Part(t, s, i) \ {o}
    BY <1>9, <1>11, <1>12 DEF Slots
  <2>3. ASSUME NEW s \in Slots, NEW j \in Pieces, j # i PROVE Part(rest, s, j) = Part(t, s, j)
    BY <1>9, <1>11, <1>12, <2>3 DEF Slots
  <2> QED
    BY <1>10, <1>11, <2>1, <2>2, <2>3 DEF Dropped
<1> QED
  BY <1>6, <1>13

\* The slice is saved or not, and the write is refused or not.
LEMMA WriteSliceIs ==
  ASSUME NEW t \in Worlds, NEW p \in Peers, NEW i \in Pieces, NEW o \in Offsets, Awaited(t, p, i, o),
         NEW v \in {"good", "bad"}, v = "bad" => p \in Liars, NEW w \in WriteSlice(t, <<i, o>>, v)
  PROVE  /\ w[1] \in Worlds /\ w[1].have = t.have /\ t.mult \subseteq w[1].mult
         /\ w[2] => w[1].store[<<i, o>>] = v
         /\ "write" \in Upsets \/ w[1].peer = t.peer
         /\ IsSent(Q(t, p), i, o) => Honest(w[1], p, i) /\ Counted(w[1], p, i)
<1> DEFINE s == <<i, o>>
           saved == Saved(t, s, v)
           stop(u) == StopDownload([u EXCEPT !.failed = TRUE, !.upsets = u.upsets + 1])
<1>1. /\ saved \in Worlds /\ saved.peer = t.peer /\ saved.store[s] = v /\ saved.mult = t.mult
      /\ saved.have = t.have /\ saved.dups = t.dups
      /\ IsSent(Q(t, p), i, o) => Honest(saved, p, i) /\ Counted(saved, p, i)
  BY SavedIs
<1>2. ASSUME NEW u \in Worlds PROVE stop(u) \in Shed(u) /\ stop(u) \in Worlds
  <2> DEFINE x == [u EXCEPT !.failed = TRUE]
             y == [x EXCEPT !.upsets = u.upsets + 1]
  <2>1. u \in Typed /\ Idle(u) /\ u.upsets + 1 \in Nat
    BY LinkedIs, WorldIs
  <2>2. x \in Shed(u)
    BY <2>1, LooseChanged
  <2>3. x \in Typed /\ Idle(x)
    BY <2>2 DEF Shed
  <2>4. [u EXCEPT !.failed = TRUE, !.upsets = u.upsets + 1] = y
    OBVIOUS
  <2> HIDE DEF x
  <2>5. y \in Shed(x)
    BY <2>1, <2>3, LooseChanged
  <2> HIDE DEF y
  <2>6. y \in Shed(u)
    BY <2>1, <2>2, <2>5, ShedTwice
  <2>7. y \in Worlds
    BY <2>6, ShedIs DEF Worlds
  <2>8. StopDownload(y) \in Shed(y)
    BY <2>7, StopDownloadIs DEF Worlds
  <2>9. StopDownload(y) \in Shed(u) /\ StopDownload(y) \in Worlds
    BY <2>1, <2>6, <2>7, <2>8, ShedTwice, ShedIs DEF Worlds
  <2> QED
    BY <2>4, <2>9
<1>3. w = <<saved, TRUE>> \/ ("write" \in Upsets /\ (w = <<stop(saved), TRUE>> \/ w = <<stop(t), FALSE>>))
  <2>1. WriteSlice(t, s, v) = {<<saved, TRUE>>} \union
            (IF Upset(t, "write") THEN {<<stop(saved), TRUE>>, <<stop(t), FALSE>>} ELSE {})
    BY DEF WriteSlice, Saved
  <2>2. Upset(t, "write") => "write" \in Upsets
    BY DEF Upset
  <2> HIDE DEF saved, stop
  <2> QED
    BY <2>1, <2>2
<1>4. ASSUME NEW u \in Worlds, u.have = t.have, u.mult = t.mult, "write" \in Upsets,
             IsSent(Q(t, p), i, o) => Counted(u, p, i)
      PROVE  /\ stop(u) \in Worlds /\ stop(u).have = t.have /\ t.mult \subseteq stop(u).mult /\ stop(u).store = u.store
             /\ IsSent(Q(t, p), i, o) => Honest(stop(u), p, i) /\ Counted(stop(u), p, i)
  <2>1. stop(u) \in Shed(u) /\ stop(u) \in Worlds /\ u \in Typed
    BY <1>2, WorldIs
  <2> HIDE DEF stop
  <2>2. stop(u).have = t.have /\ t.mult \subseteq stop(u).mult /\ stop(u).store = u.store
    BY <1>4, <2>1 DEF Shed
  <2>3. IsSent(Q(t, p), i, o) => Counted(stop(u), p, i)
    BY <1>4, <2>1, CountedShed
  <2> QED
    BY <1>4, <2>1, <2>2, <2>3 DEF Honest
<1>5. IsSent(Q(t, p), i, o) => Counted(t, p, i)
  BY AwaitedIs
<1> HIDE DEF saved, stop
<1>6. CASE w = <<saved, TRUE>>
  <2>1. w[1] = saved
    BY <1>6
  <2>2. t.mult \subseteq saved.mult
    BY <1>1
  <2> HIDE <1>6
  <2> QED
    BY <1>1, <2>1, <2>2
<1>7. CASE "write" \in Upsets /\ w = <<stop(saved), TRUE>>
  <2> DEFINE z == stop(saved)
  <2>1. /\ z \in Worlds /\ z.have = t.have /\ t.mult \subseteq z.mult /\ z.store = saved.store
        /\ IsSent(Q(t, p), i, o) => Honest(z, p, i) /\ Counted(z, p, i)
    BY <1>1, <1>4, <1>7
  <2> HIDE DEF z
  <2>2. w[1] = z
    BY <1>7 DEF z
  <2> QED
    BY <1>1, <1>7, <2>1, <2>2
<1>8. CASE "write" \in Upsets /\ w = <<stop(t), FALSE>>
  <2> DEFINE z == stop(t)
  <2>1. /\ z \in Worlds /\ z.have = t.have /\ t.mult \subseteq z.mult
        /\ IsSent(Q(t, p), i, o) => Honest(z, p, i) /\ Counted(z, p, i)
    BY <1>4, <1>5, <1>8
  <2> HIDE DEF z
  <2>2. w[1] = z /\ w[2] = FALSE
    BY <1>8 DEF z
  <2> QED
    BY <1>8, <2>1, <2>2
<1> QED
  BY <1>3, <1>6, <1>7, <1>8

\* Tell_World_I_Have: queues are emptied.
LEMMA TellWorldIs ==
  ASSUME NEW t \in Typed, Idle(t)
  PROVE  TellWorld(t) \in Shed(t)
<1> DEFINE done(r) == IF t.have = Pieces /\ r.bf = Pieces
                      THEN [Uninterested(r) EXCEPT !.status = "failed", !.out = 0] ELSE Uninterested(r)
           f == [p \in Up(t) |-> done(t.peer[p])]
<1>1. ASSUME NEW r \in Records PROVE done(r) \in Records /\ done(r).q.list = << >>
  <2> DEFINE u == Uninterested(r)
  <2>1. u \in Records /\ u.q.list = << >>
    BY UninterestedIs
  <2> HIDE DEF u
  <2>2. Owed(u.q) = 0
    BY <2>1, RecordIs, EmptyIs
  <2>3. \A o \in Int : o = Owed(u.q) => /\ [u EXCEPT !.status = "failed", !.out = o] \in Records
                                        /\ [u EXCEPT !.status = "failed", !.out = o].q = u.q
    BY <2>1 DEF Records
  <2>4. LET z == [u EXCEPT !.status = "failed", !.out = 0] IN z \in Records /\ z.q = u.q
    <3> DEFINE o == 0
    <3>1. o \in Int /\ o = Owed(u.q)
      BY <2>2
    <3> HIDE DEF o
    <3>2. LET z == [u EXCEPT !.status = "failed", !.out = o] IN z \in Records /\ z.q = u.q
      BY <2>3, <3>1
    <3> QED
      BY <3>2 DEF o
  <2> QED
    BY <2>1, <2>4 DEF u
<1> HIDE DEF done
<1>2. f \in [Up(t) -> Records] /\ \A p \in Up(t) : f[p].q.list = << >>
  <2>1. \A p \in Up(t) : t.peer[p] \in Records
    BY WorldIs DEF Up
  <2> QED
    BY <1>1, <2>1
<1>3. TellWorld(t) = IF ~ Seeding(t) THEN t ELSE WithPeers(t, f)
  BY DEF TellWorld, done
<1> HIDE DEF f
<1>4. WithPeers(t, f) \in Shed(t)
  BY <1>2, AllShed
<1>5. t \in Shed(t)
  BY LooseChanged
<1> QED
  BY <1>3, <1>4, <1>5

\* Nobody is asked for i, or those who are will be found.
Findable(t, i) == (t.dups >= 1 /\ i \in t.mult) \/ \A p \in Peers : Part(t, p, i) = {}

\* The end of ReportComplete: nobody lists piece i, whether it is complete or starts anew.
LEMMA CleanupIs ==
  ASSUME NEW i \in Pieces, NEW t \in Nearly(i), Findable(t, i)
  PROVE  Cleanup(t, i) \in Worlds
<1> DEFINE u == IF t.dups # 0 /\ i \in t.mult THEN CancelPiece(t, i) ELSE t
           w == [u EXCEPT !.pend = Delete(u.pend, i), !.mult = u.mult \ {i}]
<1>1. /\ t \in Typed /\ Idle(t) /\ t.dups \in Int
  BY WorldIs DEF Nearly, Almost
<1>2. u \in Nearly(i) /\ \A p \in Peers : Part(u, p, i) = {}
  <2>1. CASE t.dups # 0 /\ i \in t.mult
    <3>1. u = CancelPiece(t, i)
      BY <2>1
    <3> HIDE DEF u
    <3>2. u \in Shed(t) /\ \A p \in Peers : Part(u, p, i) = {}
      BY <1>1, <3>1, CancelPieceIs
    <3> QED
      BY <3>2, ShedIs
  <2>2. CASE ~ (t.dups # 0 /\ i \in t.mult)
    <3>1. u = t /\ ~ (t.dups >= 1 /\ i \in t.mult)
      BY <1>1, <2>2
    <3> QED
      BY <3>1 DEF Findable
  <2> QED
    BY <2>1, <2>2
<1>3. Cleanup(t, i) = w
  BY DEF Cleanup
<1> HIDE DEF u
<1>4. /\ u \in Typed /\ Idle(u) /\ \A j \in Pieces : (Twice(u, j) => j \in u.mult) /\ (j # i => Kept(u, j))
      /\ u.dups >= Cardinality(Twices(u)) /\ u.dups \in Int /\ ("write" \in Upsets \/ \A b \in u.blamed : b[1] \in Liars)
  BY <1>2, WorldIs DEF Nearly, Almost
<1> DEFINE d == Delete(u.pend, i)
<1>5. d \in Parked /\ u.mult \ {i} \in SUBSET Pieces /\ Offs(d, i) = {} /\ \A j : j # i => Offs(d, j) = Offs(u.pend, j)
  <2>1. u.pend \in Queues /\ u.pend \in Parked /\ u.mult \in SUBSET Pieces
    BY <1>4, WorldIs
  <2>2. d \in Parked /\ Offs(d, i) = {} /\ \A j : j # i => Offs(d, j) = Offs(u.pend, j)
    BY <2>1, DeleteIs
  <2> HIDE DEF d
  <2> QED
    BY <2>1, <2>2
<1> HIDE DEF d
<1>6. /\ w \in Typed /\ w.peer = u.peer /\ w.pend = d /\ w.mult = u.mult \ {i} /\ w.have = u.have
      /\ w.store = u.store /\ w.dups = u.dups /\ w.blamed = u.blamed
  BY <1>4, <1>5 DEF Typed, d
<1> HIDE DEF w
<1>7. \A s \in Slots : \A j : Part(w, s, j) = IF j = i THEN {} ELSE Part(u, s, j)
  <2>1. \A s \in Peers : \A j : Part(w, s, j) = Part(u, s, j)
    BY <1>6 DEF Part, Q
  <2>2. \A j : Part(w, Park, j) = Offs(d, j) /\ Part(u, Park, j) = Offs(u.pend, j)
    BY <1>6, ParkIs DEF Part
  <2> QED
    BY <1>2, <1>5, <2>1, <2>2 DEF Slots
<1>8. Idle(w)
  BY <1>4, <1>6 DEF Idle, Q
<1>9. \A j \in Pieces : Twice(w, j) => Twice(u, j) /\ j # i
  BY <1>7 DEF Twice
<1>10. w.dups >= Cardinality(Twices(w))
  <2>1. Cardinality(Twices(w)) <= Cardinality(Twices(u)) /\ Cardinality(Twices(u)) \in Nat /\ Cardinality(Twices(w)) \in Nat
    BY <1>9, FewerTwices, TwicesIs
  <2> QED
    BY <1>4, <1>6, <2>1
<1>11. ASSUME NEW j \in Pieces, j # i PROVE Kept(w, j)
  <2>1. Kept(u, j) /\ \A s \in Slots : Part(w, s, j) = Part(u, s, j)
    BY <1>4, <1>7, <1>11
  <2>2. \A y \in Peers : y \in Slots
    BY DEF Slots
  <2> QED
    BY <1>6, <1>11, <2>1, <2>2 DEF Kept
<1>12. Kept(w, i)
  <2>1. \A y \in Peers : y \in Slots
    BY DEF Slots
  <2> QED
    BY <1>7, <2>1 DEF Kept
<1>13. w \in Worlds
  BY <1>4, <1>6, <1>8, <1>9, <1>10, <1>11, <1>12 DEF Worlds, Nearly, Almost
<1> QED
  BY <1>3, <1>13

\* A piece that looks complete is hashed.  If it is bad and nobody but p was asked for it,
\* not all of it was sent by an honest peer.
LEMMA ReportCompleteIs ==
  ASSUME NEW t \in Worlds, NEW p \in Peers, NEW i \in Pieces, Part(t, p, i) = {},
         Counted(t, p, i), i \in t.mult \/ Honest(t, p, i), NEW c \in ReportComplete(t, p, i)
  PROVE  c[1] \in Worlds
<1> DEFINE good == \A o \in Offsets : t.store[<<i, o>>] = "good"
           f == [s \in Slices |-> IF s[1] = i THEN "none" ELSE t.store[s]]
           dropped == [t EXCEPT !.store = f]
           b == t.blamed \union {<<p, i>>}
           charged == [dropped EXCEPT !.blamed = b]
           finished == [t EXCEPT !.have = t.have \union {i}]
           told == TellWorld(finished)
           less == [charged EXCEPT !.peer[p] = [charged.peer[p] EXCEPT !.bf = t.peer[p].bf \ {i}]]
           hashed == IF good THEN {told} ELSE IF i \in t.mult THEN {dropped}
                     ELSE {less, CloseConnection(charged, p)}
<1>1. ReportComplete(t, p, i) = {<<Cleanup(u, i), good>> : u \in hashed}
  BY DEF ReportComplete
<1>2. /\ t \in Typed /\ Idle(t) /\ \A j \in Pieces : (Twice(t, j) => j \in t.mult) /\ Kept(t, j)
      /\ t.dups >= Cardinality(Twices(t)) /\ ("write" \in Upsets \/ \A x \in t.blamed : x[1] \in Liars)
      /\ t.dups \in Int
  BY LinkedIs, WorldIs
<1>3. Findable(t, i) /\ (i \notin t.mult => \A s \in Slots : Part(t, s, i) = {})
  BY DEF Counted, Findable, Slots
\* But for the piece, what is linked depends on the lists, the marks and the count.
<1>4. ASSUME NEW u \in Typed, u.peer = t.peer, u.pend = t.pend, u.mult = t.mult, u.dups = t.dups,
             \A j \in Pieces \ {i} : (j \in u.have <=> j \in t.have) /\ \A o \in Offsets : u.store[<<j, o>>] = t.store[<<j, o>>],
             "write" \in Upsets \/ \A x \in u.blamed : x[1] \in Liars
      PROVE  u \in Nearly(i) /\ Findable(u, i) /\ (Kept(u, i) => u \in Worlds) /\ \A s \in Slots : Part(u, s, i) = Part(t, s, i)
  <2>1. \A s, j : Part(u, s, j) = Part(t, s, j)
    BY <1>4 DEF Part, Q
  <2>2. Idle(u) /\ \A j : Twice(u, j) <=> Twice(t, j)
    BY <1>2, <1>4, <2>1 DEF Idle, Q, Twice
  <2>3. Twices(u) = Twices(t)
    BY <2>2 DEF Twices
  <2>4. ASSUME NEW j \in Pieces, j # i PROVE Kept(u, j)
    <3>1. Kept(t, j) /\ (j \in u.have <=> j \in t.have) /\ \A o \in Offsets : u.store[<<j, o>>] = t.store[<<j, o>>]
      BY <1>2, <1>4, <2>4
    <3> QED
      BY <1>4, <2>1, <3>1 DEF Kept
  <2>5. Findable(u, i)
    BY <1>3, <1>4, <2>1 DEF Findable
  <2>6. u \in Nearly(i)
    BY <1>2, <1>4, <2>2, <2>3, <2>4 DEF Nearly, Almost
  <2>7. Kept(u, i) => u \in Worlds
    BY <1>2, <1>4, <2>2, <2>3, <2>4 DEF Worlds, Nearly, Almost
  <2> QED
    BY <2>1, <2>5, <2>6, <2>7
<1>5. told \in Nearly(i) /\ Findable(told, i)
  <2>1. t.have \union {i} \in SUBSET Pieces
    BY <1>2, WorldIs
  <2>2. /\ finished \in Typed /\ finished.peer = t.peer /\ finished.pend = t.pend /\ finished.mult = t.mult
        /\ finished.dups = t.dups /\ finished.have = t.have \union {i} /\ finished.store = t.store /\ finished.blamed = t.blamed
    BY <1>2, <2>1 DEF Typed
  <2> HIDE DEF finished
  <2>3. finished \in Nearly(i) /\ Findable(finished, i)
    BY <1>2, <1>4, <2>2
  <2>4. told \in Shed(finished)
    BY <2>2, <2>3, TellWorldIs DEF Nearly, Almost
  <2> HIDE DEF told
  <2>5. told \in Nearly(i)
    BY <2>3, <2>4, ShedIs
  <2>6. /\ told.dups \in Int /\ told.dups >= finished.dups /\ finished.mult \subseteq told.mult /\ finished.dups \in Int
        /\ \A s \in Slots : Part(told, s, i) = {} \/ Part(told, s, i) = Part(finished, s, i)
    BY <1>2, <2>2, <2>4, WorldIs DEF Shed
  <2>7. Findable(told, i)
    BY <2>3, <2>6 DEF Findable, Slots
  <2> QED
    BY <2>5, <2>7
<1>6. f \in [Slices -> {"none", "good", "bad"}] /\ \A j \in Pieces \ {i}, o \in Offsets : f[<<j, o>>] = t.store[<<j, o>>]
  BY <1>2, WorldIs DEF Slices
<1> HIDE DEF f
<1>7. /\ dropped \in Typed /\ dropped.peer = t.peer /\ dropped.pend = t.pend /\ dropped.mult = t.mult
      /\ dropped.dups = t.dups /\ dropped.have = t.have /\ dropped.store = f /\ dropped.blamed = t.blamed
  BY <1>2, <1>6 DEF Typed
<1> HIDE DEF dropped
<1>8. dropped \in Nearly(i) /\ Findable(dropped, i)
  BY <1>2, <1>4, <1>6, <1>7
<1>9. ASSUME ~ good, i \notin t.mult
      PROVE  /\ less \in Nearly(i) /\ Findable(less, i)
             /\ CloseConnection(charged, p) \in Nearly(i) /\ Findable(CloseConnection(charged, p), i)
  <2>1. \A s \in Slots : Part(t, s, i) = {}
    BY <1>3, <1>9
  <2>2. "write" \in Upsets \/ p \in Liars
    <3>1. PICK o \in Offsets : t.store[<<i, o>>] # "good"
      BY <1>9
    <3> QED
      BY <1>9, <3>1 DEF Honest
  <2>3. b \in SUBSET (Peers \X Pieces) /\ ("write" \in Upsets \/ \A x \in b : x[1] \in Liars)
    <3>1. t.blamed \in SUBSET (Peers \X Pieces)
      BY <1>2, WorldIs
    <3>2. b \in SUBSET (Peers \X Pieces)
      BY <3>1
    <3>3. ASSUME "write" \notin Upsets, NEW x \in b PROVE x[1] \in Liars
      BY <1>2, <2>2, <3>3
    <3> QED
      BY <3>2, <3>3
  <2> HIDE DEF b, good
  <2>4. /\ charged \in Typed /\ charged.peer = t.peer /\ charged.pend = t.pend /\ charged.mult = t.mult
        /\ charged.dups = t.dups /\ charged.have = t.have /\ charged.store = f /\ charged.blamed = b
    BY <1>7, <2>3 DEF Typed
  <2> HIDE DEF charged
  <2>5. charged \in Nearly(i) /\ (Kept(charged, i) => charged \in Worlds) /\ \A s \in Slots : Part(charged, s, i) = {}
    BY <1>4, <1>6, <2>1, <2>3, <2>4
  <2>6. \A y \in Peers : y \in Slots
    BY DEF Slots
  <2>7. Kept(charged, i)
    BY <2>5, <2>6 DEF Kept
  <2>8. charged \in Worlds
    BY <2>5, <2>7
  <2> DEFINE e == charged.peer[p]
             n == t.peer[p].bf \ {i}
  <2>9. e \in Records /\ n \in SUBSET Pieces
    BY <1>2, <2>4, WorldIs, RecordIs
  <2> HIDE DEF n
  <2>10. [e EXCEPT !.bf = n] \in Records /\ [e EXCEPT !.bf = n].q = e.q /\ [e EXCEPT !.bf = n].status = e.status
    <3> HIDE DEF e
    <3>1. [e EXCEPT !.bf = n] \in Records
      BY <2>9, RecordChanged
    <3> QED
      BY <2>9, <3>1 DEF Records
  <2> DEFINE r == [e EXCEPT !.bf = n]
             l == [charged EXCEPT !.peer[p] = r]
  <2>11. less = l
    BY DEF n
  <2> HIDE DEF r
  <2>12. l \in Shed(charged)
    <3>1. r \in Records /\ r.q = e.q /\ r.status = e.status
      BY <2>10 DEF r
    <3>2. charged \in Typed /\ Idle(charged)
      BY <2>8, LinkedIs
    <3> QED
      BY <3>1, <3>2, PeerShed
  <2> HIDE DEF l, less
  <2>13. l \in Nearly(i) /\ Findable(l, i)
    <3>1. l \in Nearly(i)
      BY <2>5, <2>12, ShedIs
    <3>2. \A s \in Slots : Part(l, s, i) = {}
      BY <2>5, <2>12 DEF Shed
    <3> QED
      BY <2>6, <3>1, <3>2 DEF Findable
  <2>14. /\ CloseConnection(charged, p) \in Nearly(i)
         /\ \A x \in Peers : Part(charged, x, i) = {} => Part(CloseConnection(charged, p), x, i) = {}
    BY <2>5, CloseConnectionIs
  <2> QED
    BY <2>5, <2>6, <2>11, <2>13, <2>14 DEF Findable
<1> HIDE DEF less, charged, told, good
<1>10. \A u \in hashed : u \in Nearly(i) /\ Findable(u, i)
  BY <1>5, <1>8, <1>9
<1> HIDE DEF hashed
<1>11. PICK u \in hashed : c = <<Cleanup(u, i), good>>
  BY <1>1
<1>12. Cleanup(u, i) \in Worlds
  BY <1>10, <1>11, CleanupIs
<1> QED
  BY <1>11, <1>12

\* The end of PieceDeliver.
LEMMA FinishIs ==
  ASSUME NEW t \in Worlds, NEW p \in Peers, NEW requested \in BOOLEAN
  PROVE  Finish(t, p, requested) \in SUBSET Worlds
<1> DEFINE r == t.peer[p]
           b == r.standby /\ ~ (requested /\ r.q.list = << >>)
           u == [t EXCEPT !.peer[p] = [r EXCEPT !.standby = b]]
<1>1. r \in Records /\ b \in BOOLEAN
  BY WorldIs, RecordIs
<1>2. Finish(t, p, requested) =
        UNION {IF ~ requested \/ x.peer[p].standby \/ r.status # "up" THEN {x} ELSE RequestCheck(x, p) : x \in {u}}
  BY DEF Finish
<1> HIDE DEF b
<1>3. /\ [r EXCEPT !.standby = b] \in Records /\ [r EXCEPT !.standby = b].status = r.status
      /\ [r EXCEPT !.standby = b].q = r.q
  <2> HIDE DEF r
  <2>1. [r EXCEPT !.standby = b] \in Records
    BY <1>1, RecordChanged
  <2> QED
    BY <1>1, <2>1 DEF Records
<1>4. u \in Worlds /\ u.peer[p].status = r.status
  <2> DEFINE e == [r EXCEPT !.standby = b]
  <2>1. e \in Records /\ e.q = t.peer[p].q /\ e.status = t.peer[p].status
    BY <1>3
  <2> HIDE DEF e
  <2>2. [t EXCEPT !.peer[p] = e] \in Worlds /\ [t EXCEPT !.peer[p] = e].peer[p] = e
    BY <2>1, RecordKept
  <2> QED
    BY <2>1, <2>2 DEF e
<1> HIDE DEF u, r
<1>5. r.status = "up" => RequestCheck(u, p) \in SUBSET Worlds
  BY <1>4, RequestCheckIs
<1> QED
  BY <1>2, <1>4, <1>5

\* PieceDeliver: only a refused write comes between the look at the queue and the count.
LEMMA PieceDeliverIs ==
  ASSUME NEW t \in Worlds, NEW p \in Peers, NEW i \in Pieces, NEW o \in Offsets, NEW v \in {"good", "bad"},
         Awaited(t, p, i, o), v = "bad" => p \in Liars
  PROVE  PieceDeliver(t, p, i, o, v) \in SUBSET Worlds
<1> DEFINE requested == IsSent(Q(t, p), i, o)
           written == IF i \in t.have THEN {<<t, TRUE>>} ELSE WriteSlice(t, <<i, o>>, v)
           deeper(u) == IF requested THEN {[u EXCEPT !.peer[p] = [u.peer[p] EXCEPT !.depth = d]] : d \in Depths} ELSE {u}
           after(u, dup) ==
             IF LooksComplete(u, p, i, requested)
             THEN UNION {IF c[2] \/ ~ dup THEN {c[1]} ELSE CancelOneRequest(c[1], i) :
                           c \in ReportComplete(u, p, i)}
             ELSE IF dup THEN CancelOneRequest(u, i) ELSE {u}
           saved(u) == UNION {UNION {after(w, a[2]) : w \in deeper(a[1])} :
                                a \in {Arrived(u, p, i, o, requested)}}
           all == UNION {IF w[2] THEN saved(w[1]) ELSE deeper(w[1]) : w \in written}
           \* what is known of the piece, once p's slice is off its queue
           known(u) == \/ requested /\ Honest(u, p, i) /\ Counted(u, p, i)
                       \/ ~ requested /\ i \in u.mult
<1>1. PieceDeliver(t, p, i, o, v) = UNION {Finish(x, p, requested) : x \in all}
  BY DEF PieceDeliver
<1>2. requested \in BOOLEAN
  BY DEF IsSent
<1>3. /\ i \notin t.have /\ (requested => o \in Part(t, p, i)) /\ (~ requested => i \in t.mult)
      /\ t \in Typed
  BY AwaitedIs, WorldIs
<1>4. ASSUME NEW w \in written
      PROVE  /\ w[1] \in Worlds /\ i \notin w[1].have /\ (w[2] => w[1].store[<<i, o>>] = v)
             /\ "write" \in Upsets \/ w[1].peer = t.peer
             /\ known(w[1])
  <2>1. w \in WriteSlice(t, <<i, o>>, v)
    BY <1>3
  <2> HIDE DEF written
  <2>2. /\ w[1] \in Worlds /\ w[1].have = t.have /\ t.mult \subseteq w[1].mult
        /\ w[2] => w[1].store[<<i, o>>] = v
        /\ "write" \in Upsets \/ w[1].peer = t.peer
        /\ requested => Honest(w[1], p, i) /\ Counted(w[1], p, i)
    BY <2>1, WriteSliceIs
  <2> HIDE DEF requested
  <2> QED
    BY <1>2, <1>3, <2>2
<1> HIDE DEF written
<1>5. ASSUME NEW u \in Worlds, NEW w \in deeper(u)
      PROVE  w \in Worlds /\ (known(u) => known(w))
  <2>1. CASE w = u
    BY <2>1
  <2>2. CASE w # u
    <3>1. PICK d \in Depths : w = [u EXCEPT !.peer[p] = [u.peer[p] EXCEPT !.depth = d]]
      BY <2>2
    <3> DEFINE e == u.peer[p]
               r == [e EXCEPT !.depth = d]
    <3>2. d \in Nat /\ e \in Records /\ u \in Typed
      BY DownloadAssumption, WorldIs
    <3> HIDE DEF e
    <3>3. r \in Records /\ r.q = e.q /\ r.status = e.status
      <4>1. r \in Records
        BY <3>2, RecordChanged
      <4> QED
        BY <3>2, <4>1 DEF Records
    <3> HIDE DEF r
    <3>4. w = [u EXCEPT !.peer[p] = r]
      BY <3>1 DEF r, e
    <3>5. w \in Worlds
      BY <3>3, <3>4, RecordKept DEF e
    <3>6. /\ w.peer[p] = r /\ \A x \in Peers : x # p => w.peer[x] = u.peer[x]
          /\ w.pend = u.pend /\ w.mult = u.mult /\ w.store = u.store /\ w.dups = u.dups
      BY <3>2, <3>3, <3>4, PeerChanged
    <3>7. \A s, j : Part(w, s, j) = Part(u, s, j)
      BY <3>3, <3>6 DEF Part, Q, e
    <3>8. known(u) => known(w)
      BY <3>6, <3>7 DEF Honest, Counted
    <3> QED
      BY <3>5, <3>8
  <2> QED
    BY <2>1, <2>2
<1>6. ASSUME NEW u \in Worlds, known(u), NEW dup PROVE after(u, dup) \in SUBSET Worlds
  <2>1. CASE LooksComplete(u, p, i, requested)
    <3>1. u \in Typed /\ p \in Slots /\ \A x \in Peers : x \in Slots
      BY WorldIs DEF Slots
    <3>2. /\ Part(u, p, i) = {}
          /\ ~ requested => \A s \in Slots : Part(u, s, i) = {}
      <4>1. requested => Part(u, p, i) = {}
        BY <2>1, <3>1, PartIs DEF LooksComplete
      <4>2. ~ requested => \A s \in Slots : Part(u, s, i) = {}
        <5> HIDE DEF requested
        <5>1. ~ requested => ~ HasPiece(u.pend, i) /\ \A x \in Peers : ~ HasPiece(Q(u, x), i)
          BY <2>1 DEF LooksComplete
        <5> QED
          BY <3>1, <5>1, PartIs DEF Slots
      <4> QED
        BY <1>2, <3>1, <4>1, <4>2
    <3>3. Counted(u, p, i) /\ (i \in u.mult \/ Honest(u, p, i))
      <4> HIDE DEF requested
      <4> QED
        BY <1>2, <1>6, <3>2 DEF Counted
    <3>4. ASSUME NEW c \in ReportComplete(u, p, i)
          PROVE  c[1] \in Worlds /\ CancelOneRequest(c[1], i) \in SUBSET Worlds
      BY <3>2, <3>3, ReportCompleteIs, CancelOneRequestIs
    <3> HIDE DEF requested, known
    <3> QED
      BY <2>1, <3>4
  <2>2. CASE ~ LooksComplete(u, p, i, requested)
    <3>1. CancelOneRequest(u, i) \in SUBSET Worlds
      BY CancelOneRequestIs
    <3> QED
      BY <2>2, <3>1
  <2> QED
    BY <2>1, <2>2
<1>7. ASSUME NEW w \in written, w[2]
      PROVE  LET a == Arrived(w[1], p, i, o, requested) IN a[1] \in Worlds /\ known(a[1])
  <2> DEFINE u == w[1]
             a == Arrived(u, p, i, o, requested)
             z == a[1]
  <2>1. /\ u \in Worlds /\ i \notin u.have /\ u.store[<<i, o>>] = v
        /\ "write" \in Upsets \/ u.peer = t.peer
        /\ known(u)
    BY <1>4, <1>7
  <2> HIDE DEF u
  <2>2. "write" \in Upsets \/ (Q(u, p) = Q(t, p) /\ (requested => o \in Part(u, p, i)))
    BY <1>3, <2>1 DEF Q, Part
  <2>3. Dropped(u, z, p, i, o)
    BY <1>2, <2>1, <2>2, ArrivedIs
  <2> HIDE DEF z, a
  <2>4. p \in Liars \/ u.store[<<i, o>>] = "good"
    BY <2>1
  <2>5. "write" \in Upsets \/ i \in u.mult \/ (o \in Part(u, p, i) /\ (p \in Liars \/ u.store[<<i, o>>] = "good"))
    <3> HIDE DEF requested
    <3> QED
      BY <1>2, <2>1, <2>2, <2>4
  <2>6. /\ z \in Worlds
        /\ Counted(u, p, i) => Counted(z, p, i)
        /\ Honest(u, p, i) => Honest(z, p, i)
    <3>1. u.store[<<i, o>>] # "none"
      BY <2>1
    <3> QED
      BY <2>1, <2>3, <2>4, <2>5, <3>1, DroppedIs
  <2>7. z.mult = u.mult
    BY <2>3 DEF Dropped
  <2>8. known(z)
    <3> HIDE DEF requested
    <3> QED
      BY <2>1, <2>6, <2>7
  <2> HIDE DEF requested, known
  <2> QED
    BY <2>6, <2>8 DEF z, a, u
<1> HIDE DEF requested, deeper, after, known
<1>8. ASSUME NEW w \in written, w[2] PROVE saved(w[1]) \in SUBSET Worlds
  <2> DEFINE a == Arrived(w[1], p, i, o, requested)
  <2>1. a[1] \in Worlds /\ known(a[1])
    BY <1>7, <1>8
  <2> HIDE DEF a
  <2>2. UNION {after(x, a[2]) : x \in deeper(a[1])} \in SUBSET Worlds
    BY <1>5, <1>6, <2>1
  <2> QED
    BY <2>2 DEF a
<1> HIDE DEF saved
<1>9. ASSUME NEW w \in written PROVE deeper(w[1]) \in SUBSET Worlds
  BY <1>4, <1>5
<1>10. all \in SUBSET Worlds
  BY <1>8, <1>9
<1> HIDE DEF all
<1> QED
  BY <1>1, <1>2, <1>10, FinishIs

-----------------------------------------------------------------------------
(* Steps.                                                                  *)

\* A step to a world keeps the invariant.
LEMMA PutIs ==
  ASSUME NEW t \in Worlds, Put(t)
  PROVE  Inv'
<1>1. t \in Typed
  BY WorldIs
<1>2. Cur' = t
  BY <1>1 DEF Put, Cur, Typed
<1> QED
  BY <1>2 DEF Inv

\* The current state, and the same with one more upset, are worlds.
LEMMA CurIs ==
  ASSUME Inv
  PROVE  /\ Cur \in Worlds /\ Upsetting \in Worlds /\ Cur \in Typed /\ Upsetting \in Typed
         /\ Cur.peer = peer /\ Upsetting.peer = peer /\ Cur.mult = mult
         /\ \A p \in Peers : peer[p] \in Records
<1>1. Cur \in Worlds
  BY DEF Inv
<1>2. Cur.upsets = upsets /\ Cur.peer = peer /\ Cur.mult = mult
  BY DEF Cur
<1>3. upsets + 1 \in Nat
  BY <1>1, <1>2, WorldIs
<1>4. Cur \in Typed /\ Idle(Cur)
  BY <1>1, LinkedIs
<1>5. Upsetting \in Shed(Cur) /\ Upsetting.peer = Cur.peer
  <2>1. Upsetting \in Shed(Cur)
    BY <1>3, <1>4, LooseChanged DEF Upsetting
  <2> QED
    BY <1>4, <2>1 DEF Upsetting, Typed
<1>6. Upsetting \in Worlds
  BY <1>1, <1>5, ShedIs DEF Worlds
<1> QED
  BY <1>1, <1>2, <1>4, <1>5, <1>6, WorldIs

\* The initial state.
LEMMA StartIs ==
  ASSUME Init
  PROVE  Inv
<1>1. Gone \in Records /\ EmptyQueue \in Parked
  BY NewPeerIs, EmptyIs
<1>2. /\ peer \in [Peers -> Records] /\ pend \in Parked /\ mult \in SUBSET Pieces /\ have \in SUBSET Pieces
      /\ store \in [Slices -> {"none", "good", "bad"}] /\ dups \in Int
      /\ endgame \in BOOLEAN /\ failed \in BOOLEAN /\ paused \in BOOLEAN
      /\ blamed \in SUBSET (Peers \X Pieces) /\ upsets \in Nat
  <2>1. /\ peer = [p \in Peers |-> Gone] /\ pend = EmptyQueue
        /\ mult = {} /\ have = {} /\ store = [s \in Slices |-> "none"] /\ dups = 0
        /\ endgame = FALSE /\ failed = FALSE /\ paused = FALSE /\ blamed = {} /\ upsets = 0
    BY DEF Init
  <2>2. peer \in [Peers -> Records] /\ pend \in Parked
    BY <1>1, <2>1
  <2>3. store \in [Slices -> {"none", "good", "bad"}]
    BY <2>1
  <2>4. dups \in Int /\ upsets \in Nat
    BY <2>1
  <2>5. mult \in SUBSET Pieces /\ have \in SUBSET Pieces /\ blamed \in SUBSET (Peers \X Pieces)
    BY <2>1
  <2> QED
    BY <2>1, <2>2, <2>3, <2>4, <2>5
<1>3. /\ Cur \in Typed /\ Cur.peer = peer /\ Cur.pend = pend /\ Cur.have = have
      /\ Cur.dups = dups /\ Cur.blamed = blamed
  BY <1>2 DEF Cur, Typed
<1>4. /\ \A p \in Peers : peer[p].q = EmptyQueue
      /\ pend = EmptyQueue /\ have = {} /\ dups = 0 /\ blamed = {} /\ EmptyQueue.list = << >>
  BY EmptyIs DEF Init, Gone, NewPeer
<1>5. ASSUME NEW s \in Slots, NEW i PROVE Part(Cur, s, i) = {}
  <2>1. Offs(EmptyQueue, i) = {}
    BY <1>4 DEF Offs, Where
  <2> QED
    BY <1>3, <1>4, <2>1 DEF Part, Q
<1>6. Twices(Cur) = {} /\ \A i : ~ Twice(Cur, i)
  BY <1>5 DEF Twices, Twice
<1>7. Cardinality(Twices(Cur)) = 0
  BY <1>6, FS_EmptySet
<1>8. \A i \in Pieces : Kept(Cur, i)
  BY <1>5 DEF Kept, Slots
<1>9. Idle(Cur)
  BY <1>3, <1>4 DEF Idle, Q
<1>10. Cur \in Worlds
  <2>1. Cur.dups >= Cardinality(Twices(Cur)) /\ \A b \in Cur.blamed : b[1] \in Liars
    BY <1>3, <1>4, <1>7
  <2>2. Almost(Cur, None)
    BY <1>6, <1>8, <1>9, <2>1 DEF Almost
  <2> QED
    BY <1>3, <2>2 DEF Worlds, Nearly
<1> QED
  BY <1>10 DEF Inv

\* A peer of which nothing is asked.
LEMMA EmptiedKept ==
  ASSUME NEW t \in Worlds, NEW p \in Peers, NEW r \in Records, r.q.list = << >>
  PROVE  [t EXCEPT !.peer[p] = r] \in Worlds /\ [t EXCEPT !.peer[p] = r].peer[p] = r
<1>1. t \in Typed /\ Idle(t)
  BY LinkedIs
<1>2. [t EXCEPT !.peer[p] = r] \in Shed(t) /\ [t EXCEPT !.peer[p] = r].peer[p] = r
  BY <1>1, PeerShed, PeerChanged
<1> QED
  BY <1>2, ShedIs DEF Worlds

\* A new peer.
LEMMA ConnectKeeps ==
  ASSUME Inv, NEW p \in Peers, Connect(p)
  PROVE  Inv'
<1> DEFINE u == [Cur EXCEPT !.peer[p] = NewPeer(Holds[p])]
<1>1. NewPeer(Holds[p]) \in Records /\ NewPeer(Holds[p]).status = "up" /\ NewPeer(Holds[p]).q.list = << >>
  <2>1. Holds[p] \in SUBSET Pieces
    BY DownloadAssumption
  <2> QED
    BY <2>1, NewPeerIs DEF NewPeer, EmptyQueue
<1>2. u \in Worlds /\ u.peer[p].status = "up"
  <2> DEFINE r == NewPeer(Holds[p])
  <2>1. r \in Records /\ r.status = "up" /\ r.q.list = << >>
    BY <1>1
  <2> HIDE DEF r
  <2>2. u \in Worlds /\ u.peer[p] = r
    BY <2>1, CurIs, EmptiedKept DEF r
  <2> QED
    BY <2>1, <2>2
<1>3. \E t \in RequestCheck(u, p) : Put(t)
  BY DEF Connect
<1> HIDE DEF u
<1> QED
  BY <1>2, <1>3, RequestCheckIs, PutIs

\* The connection breaks.
LEMMA CloseKeeps ==
  ASSUME Inv, NEW p \in Peers, Close(p)
  PROVE  Inv'
<1>1. CloseConnection(Upsetting, p) \in Worlds
  BY CurIs, CloseConnectionIs DEF Worlds
<1> QED
  BY <1>1, PutIs DEF Close

\* A failed peer is reaped.
LEMMA ReapKeeps ==
  ASSUME Inv, NEW p \in Peers, Reap(p)
  PROVE  Inv'
<1>1. [Cur EXCEPT !.peer[p] = Gone] \in Worlds
  <2>1. Gone \in Records /\ Gone.q.list = << >>
    BY NewPeerIs DEF Gone, NewPeer, EmptyQueue
  <2> QED
    BY <2>1, CurIs, EmptiedKept
<1> QED
  BY <1>1, PutIs DEF Reap

\* A CHOKE: the first piece is marked, and the queue goes to PENDING.
LEMMA ChokeKeeps ==
  ASSUME Inv, NEW p \in Peers, Choke(p)
  PROVE  Inv'
<1> DEFINE m == IF Q(Upsetting, p).list = << >> THEN {} ELSE {Q(Upsetting, p).list[1].piece}
           v == [Upsetting EXCEPT !.mult = Upsetting.mult \union m]
           t == IF peer[p].q.list = << >> THEN Upsetting ELSE Choked(Upsetting, p)
           r == [t.peer[p] EXCEPT !.choked = TRUE, !.grace = TRUE]
<1>1. m \in SUBSET Pieces
  <2> DEFINE q == Q(Upsetting, p)
  <2>1. q \in Queues
    BY CurIs, WorldIs DEF PeerQueues
  <2> HIDE DEF q
  <2>2. q.list # << >> => q.list[1].piece \in Pieces
    <3>1. q.list \in Seq(Request) /\ \A k \in 1 .. Len(q.list) : q.list[k].piece \in Pieces
      BY <2>1, QueueIs
    <3>2. q.list # << >> => 1 \in 1 .. Len(q.list)
      BY <3>1
    <3> QED
      BY <3>1, <3>2
  <2> QED
    BY <2>2 DEF q
<1>2. PutPending(v, p) \in Worlds
  <2> DEFINE w == Upsetting
             n == w.mult \union m
  <2> HIDE DEF m
  <2>1. w \in Worlds /\ w \in Typed
    BY CurIs
  <2> HIDE DEF w
  <2>2. n \in SUBSET Pieces /\ w.mult \subseteq n
    BY <1>1, <2>1, WorldIs
  <2> HIDE DEF n
  <2> DEFINE y == [w EXCEPT !.mult = n]
  <2>3. /\ y \in Typed /\ y.peer = w.peer /\ y.pend = w.pend /\ y.have = w.have /\ y.store = w.store
        /\ y.blamed = w.blamed /\ y.mult = n /\ y.dups = w.dups /\ w.dups \in Int
    BY <2>1, <2>2 DEF Typed
  <2>4. v = y
    BY DEF w, n
  <2> HIDE DEF y, v
  <2>5. w \in Nearly(None) /\ y.dups >= w.dups /\ w.mult \subseteq y.mult
    BY <2>1, <2>2, <2>3 DEF Worlds
  <2>6. PutPending(y, p) \in Nearly(None)
    BY <2>3, <2>5, PutPendingIs
  <2> QED
    BY <2>4, <2>6 DEF Worlds
<1>3. Choked(Upsetting, p) = PutPending(v, p)
  BY DEF Choked
<1> HIDE DEF v
<1>4. t \in Worlds
  BY <1>2, <1>3, CurIs
<1>5. Put([t EXCEPT !.peer[p] = r])
  BY DEF Choke
<1> HIDE DEF t
<1>6. r \in Records /\ r.q = t.peer[p].q /\ r.status = t.peer[p].status
  <2>1. t.peer[p] \in Records
    BY <1>4, WorldIs
  <2> QED
    BY <2>1 DEF Records
<1> HIDE DEF r
<1>7. [t EXCEPT !.peer[p] = r] \in Worlds
  BY <1>4, <1>6, RecordKept
<1> QED
  BY <1>5, <1>7, PutIs

\* An UNCHOKE.
LEMMA UnchokeKeeps ==
  ASSUME Inv, NEW p \in Peers, Unchoke(p)
  PROVE  Inv'
<1>1. /\ peer[p].status = "up"
      /\ \E last \in {None, peer[p].last} :
           LET t == [Cur EXCEPT !.peer[p] = [peer[p] EXCEPT !.choked = FALSE, !.standby = FALSE, !.last = last]]
           IN  \E u \in RequestCheck(t, p) \union {t} : Put(u)
  BY DEF Unchoke
<1>2. PICK last \in {None, peer[p].last} :
        \E u \in RequestCheck([Cur EXCEPT !.peer[p] = [peer[p] EXCEPT !.choked = FALSE, !.standby = FALSE, !.last = last]], p)
                 \union {[Cur EXCEPT !.peer[p] = [peer[p] EXCEPT !.choked = FALSE, !.standby = FALSE, !.last = last]]} : Put(u)
  BY <1>1
<1> DEFINE r == [peer[p] EXCEPT !.choked = FALSE, !.standby = FALSE, !.last = last]
           t == [Cur EXCEPT !.peer[p] = r]
<1>3. r \in Records /\ r.status = "up" /\ r.q = Cur.peer[p].q
  <2>1. peer[p] \in Records /\ last \in Pieces \union {None} /\ Cur.peer[p] = peer[p]
    BY CurIs, RecordIs
  <2> QED
    BY <1>1, <2>1 DEF Records
<1>4. \E u \in RequestCheck(t, p) \union {t} : Put(u)
  BY <1>2
<1> HIDE DEF r
<1>5. t \in Worlds /\ t.peer[p].status = "up"
  BY <1>3, CurIs, RecordKept
<1> HIDE DEF t
<1> QED
  BY <1>4, <1>5, RequestCheckIs, PutIs

\* A HAVE.
LEMMA HaveKeeps ==
  ASSUME Inv, NEW p \in Peers, NEW i \in Pieces, Have(p, i)
  PROVE  Inv'
<1> DEFINE r == [peer[p] EXCEPT !.bf = peer[p].bf \union {i}, !.standby = peer[p].standby /\ i \in have]
           t == [Cur EXCEPT !.peer[p] = r]
<1>1. /\ peer[p].status = "up"
      /\ IF t.peer[p].bf = Pieces /\ have = Pieces THEN Put(CloseConnection(t, p))
         ELSE IF t.peer[p].standby THEN Put(t) ELSE \E u \in RequestCheck(t, p) : Put(u)
  BY DEF Have
<1>2. r \in Records /\ r.status = "up" /\ r.q = Cur.peer[p].q
  <2>1. /\ peer[p] \in Records /\ peer[p].bf \union {i} \in SUBSET Pieces /\ (peer[p].standby /\ i \in have) \in BOOLEAN
        /\ Cur.peer[p] = peer[p]
    BY CurIs, RecordIs
  <2> QED
    BY <1>1, <2>1 DEF Records
<1> HIDE DEF r
<1>3. t \in Worlds /\ t.peer[p].status = "up"
  BY <1>2, CurIs, RecordKept
<1> HIDE DEF t
<1>4. CloseConnection(t, p) \in Worlds
  BY <1>3, CloseConnectionIs DEF Worlds
<1> QED
  BY <1>1, <1>3, <1>4, RequestCheckIs, PutIs

\* A PIECE.
LEMMA PieceKeeps ==
  ASSUME Inv, NEW p \in Peers, NEW s \in Slices, NEW v \in {"good", "bad"}, Piece(p, s[1], s[2], v)
  PROVE  Inv'
<1>1. s[1] \in Pieces /\ s[2] \in Offsets
  BY DEF Slices
<1>2. Awaited(Cur, p, s[1], s[2]) /\ (v = "bad" => p \in Liars)
  BY CurIs DEF Piece, Awaited, Q
<1>3. PieceDeliver(Cur, p, s[1], s[2], v) \in SUBSET Worlds
  <2> DEFINE i == s[1]
             o == s[2]
  <2> HIDE DEF i, o
  <2>1. i \in Pieces /\ o \in Offsets /\ Awaited(Cur, p, i, o)
    BY <1>1, <1>2 DEF i, o
  <2>2. PieceDeliver(Cur, p, i, o, v) \in SUBSET Worlds
    BY <1>2, <2>1, CurIs, PieceDeliverIs
  <2> QED
    BY <2>2 DEF i, o
<1> QED
  BY <1>3, PutIs DEF Piece

\* A socket can be written to.
LEMMA SendsKeep ==
  ASSUME Inv, NEW p \in Peers, SendModule(p) \/ SendOther(p)
  PROVE  Inv'
<1>1. peer[p].status = "up" /\ \E t \in RequestCheck(Cur, p) : Put(t)
  BY DEF SendModule, SendOther
<1> QED
  BY <1>1, CurIs, RequestCheckIs, PutIs

\* Time passes after a cancel.
LEMMA LapseKeeps ==
  ASSUME Inv, NEW p \in Peers, Lapse(p)
  PROVE  Inv'
<1> DEFINE e == Cur.peer[p]
           r == [e EXCEPT !.grace = FALSE]
<1>1. e \in Records
  BY CurIs, WorldIs
<1> HIDE DEF e
<1>2. r \in Records /\ r.q = e.q /\ r.status = e.status
  <2>1. r \in Records
    BY <1>1, RecordChanged
  <2> QED
    BY <1>1, <2>1 DEF Records
<1> HIDE DEF r
<1>3. [Cur EXCEPT !.peer[p] = r] \in Worlds
  BY <1>2, CurIs, RecordKept DEF e
<1> QED
  BY <1>3, PutIs DEF Lapse, r, e

\* The health check resets a queue.
LEMMA UnresponsiveKeeps ==
  ASSUME Inv, NEW p \in Peers, Unresponsive(p)
  PROVE  Inv'
<1> DEFINE b == peer[p].grace \/ Cardinality(LeadingSent(peer[p].q)) > 0
           t == [Upsetting EXCEPT !.peer[p] = [peer[p] EXCEPT !.grace = b]]
<1>1. Put(PutPending(t, p))
  BY DEF Unresponsive
<1>2. b \in BOOLEAN /\ peer[p] \in Records /\ Upsetting.peer[p] = peer[p]
  BY CurIs, RecordIs
<1> HIDE DEF b
<1>3. [peer[p] EXCEPT !.grace = b] \in Records /\ [peer[p] EXCEPT !.grace = b].q = peer[p].q
  <2>1. [peer[p] EXCEPT !.grace = b] \in Records
    BY <1>2, RecordChanged
  <2> QED
    BY <1>2, <2>1 DEF Records
<1>4. PutPending(t, p) \in Worlds
  <2> DEFINE w == Upsetting
             r == [peer[p] EXCEPT !.grace = b]
             u == [w EXCEPT !.peer[p] = r]
  <2>1. w \in Typed /\ w \in Nearly(None) /\ r \in Records /\ r.q = w.peer[p].q
    BY <1>2, <1>3, CurIs DEF Worlds
  <2>2. t = u
    OBVIOUS
  <2> HIDE DEF w, r, t
  <2>3. /\ u \in Typed /\ u.peer[p].q = w.peer[p].q /\ \A x \in Peers : x # p => u.peer[x] = w.peer[x]
        /\ u.pend = w.pend /\ u.have = w.have /\ u.store = w.store /\ u.blamed = w.blamed
        /\ u.mult = w.mult /\ u.dups = w.dups /\ w.dups \in Int
    BY <2>1, PeerChanged, WorldIs
  <2> HIDE DEF u
  <2>4. w.mult \subseteq u.mult /\ u.dups >= w.dups
    BY <2>3
  <2>5. PutPending(u, p) \in Nearly(None)
    BY <2>1, <2>3, <2>4, PutPendingIs
  <2> QED
    BY <2>2, <2>5 DEF Worlds
<1> HIDE DEF t
<1> QED
  BY <1>1, <1>4, PutIs

\* All downloading stops, or goes on.
LEMMA StopsKeep ==
  ASSUME Inv, Pause \/ FlushFails \/ Resume \/ FlushSucceeds
  PROVE  Inv'
<1>1. ASSUME NEW t \in Worlds, NEW u \in Shed(t)
      PROVE  StopDownload(u) \in Worlds /\ CheckInterest(u) \in Worlds
  <2>1. u \in Worlds
    BY ShedIs DEF Worlds
  <2>2. u \in Typed /\ Idle(u)
    BY <2>1, LinkedIs
  <2>3. StopDownload(u) \in Shed(u) /\ CheckInterest(u) \in Shed(u)
    BY <2>1, <2>2, StopDownloadIs, CheckInterestIs DEF Worlds
  <2> QED
    BY <2>1, <2>3, ShedIs DEF Worlds
<1>2. /\ [Upsetting EXCEPT !.paused = TRUE] \in Shed(Upsetting) /\ [Upsetting EXCEPT !.failed = TRUE] \in Shed(Upsetting)
      /\ [Cur EXCEPT !.paused = FALSE] \in Shed(Cur) /\ [Cur EXCEPT !.failed = FALSE] \in Shed(Cur)
  BY CurIs, LinkedIs, LooseChanged
<1>3. Cur \in Worlds /\ Upsetting \in Worlds
  BY CurIs
<1>4. CASE Pause
  BY <1>1, <1>2, <1>3, <1>4, PutIs DEF Pause
<1>5. CASE FlushFails
  BY <1>1, <1>2, <1>3, <1>5, PutIs DEF FlushFails
<1>6. CASE Resume
  BY <1>1, <1>2, <1>3, <1>6, PutIs DEF Resume
<1>7. CASE FlushSucceeds
  BY <1>1, <1>2, <1>3, <1>7, PutIs DEF FlushSucceeds
<1> QED
  BY <1>4, <1>5, <1>6, <1>7

\* Every step.
LEMMA StepKeeps ==
  ASSUME Inv, [Next]_vars
  PROVE  Inv'
<1>1. CASE UNCHANGED vars
  BY <1>1 DEF vars, Inv, Cur
<1>2. CASE \E p \in Peers : Connect(p)
  BY <1>2, ConnectKeeps
<1>3. CASE \E p \in Peers : Close(p)
  BY <1>3, CloseKeeps
<1>4. CASE \E p \in Peers : Reap(p)
  BY <1>4, ReapKeeps
<1>5. CASE \E p \in Peers : Choke(p)
  BY <1>5, ChokeKeeps
<1>6. CASE \E p \in Peers : Unchoke(p)
  BY <1>6, UnchokeKeeps
<1>7. CASE \E p \in Peers, i \in Pieces : Have(p, i)
  BY <1>7, HaveKeeps
<1>8. CASE \E p \in Peers, s \in Slices, v \in {"good", "bad"} : Piece(p, s[1], s[2], v)
  BY <1>8, PieceKeeps
<1>9. CASE \E p \in Peers : SendModule(p)
  BY <1>9, SendsKeep
<1>10. CASE \E p \in Peers : SendOther(p)
  BY <1>10, SendsKeep
<1>11. CASE \E p \in Peers : Lapse(p)
  BY <1>11, LapseKeeps
<1>12. CASE \E p \in Peers : Unresponsive(p)
  BY <1>12, UnresponsiveKeeps
<1>13. CASE Pause \/ Resume \/ FlushFails \/ FlushSucceeds
  BY <1>13, StopsKeep
<1> QED
  BY <1>1, <1>2, <1>3, <1>4, <1>5, <1>6, <1>7, <1>8, <1>9, <1>10, <1>11, <1>12, <1>13 DEF Next

-----------------------------------------------------------------------------

\* What follows from the invariant: the types, with no slice listed twice,
LEMMA InvTypes ==
  ASSUME Inv
  PROVE  TypeOK
<1>1. /\ Cur \in Worlds /\ Cur.peer = peer /\ Cur.pend = pend /\ Cur.mult = mult /\ Cur.have = have
      /\ Cur.store = store /\ Cur.dups = dups /\ Cur.endgame = endgame /\ Cur.failed = failed
      /\ Cur.paused = paused
  BY DEF Inv, Cur
<1>2. ASSUME NEW r \in Records PROVE r \in Record
  <2>1. r.q \in [list : Seq([piece : Pieces, off : Offsets, sent : BOOLEAN]), next : Nat]
    <3> DEFINE q == r.q
    <3>1. q \in Queues
      BY RecordIs
    <3> HIDE DEF q
    <3>2. q.list \in Seq(Request) /\ q.next \in Nat /\ q = [list |-> q.list, next |-> q.next]
      BY <3>1, QueueIs
    <3>3. q \in [list : Seq(Request), next : Nat]
      BY <3>2
    <3> QED
      BY <3>3 DEF Request, q
  <2> QED
    BY <2>1 DEF Records, Record
<1>3. peer \in [Peers -> Record]
  BY <1>1, <1>2, WorldIs
<1>4. ASSUME NEW q \in Queues, NEW s \in Slices
      PROVE  Cardinality(At(q, s[1], s[2])) <= 1
  <2> DEFINE A == At(q, s[1], s[2])
  <2>1. A = {} \/ A = {Lowest(A)}
    BY PlaceIs DEF HasSlice
  <2>2. Cardinality({}) = 0 /\ Cardinality({Lowest(A)}) = 1
    BY FS_EmptySet, FS_Singleton
  <2> HIDE DEF A
  <2>3. Cardinality(A) = 0 \/ Cardinality(A) = 1
    BY <2>1, <2>2
  <2> QED
    BY <2>3 DEF A
<1>5. \A q \in {pend} \union {peer[p].q : p \in Peers} : q \in Queues
  BY <1>1, WorldIs, RecordIs
<1> QED
  BY <1>1, <1>3, <1>4, <1>5, WorldIs DEF TypeOK

\* the place of the cursor,
LEMMA InvDivides ==
  ASSUME Inv
  PROVE  CursorExact
<1>1. Cur \in Worlds /\ Cur.peer = peer
  BY DEF Inv, Cur
<1>2. ASSUME NEW p \in Peers
      PROVE  \A k \in DOMAIN peer[p].q.list : peer[p].q.list[k].sent <=> (peer[p].q.next = 0 \/ k < peer[p].q.next)
  <2>1. peer[p].q \in PeerQueues
    BY <1>1, WorldIs, RecordIs
  <2>2. DOMAIN peer[p].q.list = 1 .. Len(peer[p].q.list)
    BY <2>1, QueueIs DEF PeerQueues
  <2> QED
    BY <2>1, <2>2 DEF PeerQueues, Divided
<1> QED
  BY <1>2, InvTypes DEF CursorExact

\* the count of requests that are out,
LEMMA InvCounts ==
  ASSUME Inv, "write" \notin Upsets
  PROVE  OutCount
<1>1. Cur \in Worlds /\ Cur.peer = peer
  BY DEF Inv, Cur
<1>2. ASSUME NEW p \in Peers PROVE peer[p].out = Cardinality(SentSlices(peer[p].q))
  <2>1. peer[p] \in Records
    BY <1>1, WorldIs
  <2> QED
    BY <2>1, RecordIs, OwedIs
<1> QED
  BY <1>2 DEF OutCount

\* that what is listed of a piece is all that is missing of it,
LEMMA InvCovers ==
  ASSUME Inv
  PROVE  CoversMissing
<1>1. /\ Cur \in Worlds /\ Cur.peer = peer /\ Cur.pend = pend /\ Cur.have = have /\ Cur.store = store
  BY DEF Inv, Cur
<1>2. Cur \in Typed /\ \A i \in Pieces : Kept(Cur, i)
  BY <1>1, LinkedIs
<1>3. ASSUME NEW s \in Slots, NEW i \in Pieces \ have, Part(Cur, s, i) # {}, NEW o \in Offsets, store[<<i, o>>] = "none"
      PROVE  o \in Part(Cur, s, i)
  BY <1>1, <1>2, <1>3 DEF Kept
<1>4. ASSUME NEW i \in Pieces \ have, NEW p \in Peers, HasPiece(peer[p].q, i), NEW o \in Offsets, store[<<i, o>>] = "none"
      PROVE  HasSlice(peer[p].q, i, o)
  <2>1. p \in Slots /\ Q(Cur, p) = peer[p].q
    BY <1>1 DEF Slots, Q
  <2>2. /\ HasPiece(peer[p].q, i) <=> Part(Cur, p, i) # {}
        /\ HasSlice(peer[p].q, i, o) <=> o \in Part(Cur, p, i)
    BY <1>2, <2>1, PartIs
  <2> QED
    BY <1>3, <1>4, <2>1, <2>2
<1>5. ASSUME NEW i \in Pieces \ have, HasPiece(pend, i), NEW o \in Offsets, store[<<i, o>>] = "none"
      PROVE  HasSlice(pend, i, o)
  <2>1. Park \in Slots
    BY DEF Slots
  <2>2. /\ HasPiece(pend, i) <=> Part(Cur, Park, i) # {}
        /\ HasSlice(pend, i, o) <=> o \in Part(Cur, Park, i)
    BY <1>1, <1>2, <2>1, PartIs
  <2> QED
    BY <1>3, <1>5, <2>1, <2>2
<1> QED
  BY <1>4, <1>5 DEF CoversMissing

\* that m_dup_req_pieces misses no duplicate and nothing complete is listed,
LEMMA InvDone ==
  ASSUME Inv
  PROVE  DoneNotRequested
<1>1. /\ Cur \in Worlds /\ Cur.peer = peer /\ Cur.pend = pend /\ Cur.have = have /\ Cur.dups = dups
  BY DEF Inv, Cur
<1>2. Cur \in Typed /\ Idle(Cur) /\ (\A i \in Pieces : Kept(Cur, i)) /\ dups >= Cardinality(Twices(Cur))
  BY <1>1, LinkedIs
<1>3. dups >= RecalcDupReqs(Cur)
  BY <1>2, RecalcIs
<1>4. have \in SUBSET Pieces
  BY <1>1, WorldIs
<1>5. ASSUME NEW i \in have, NEW p \in Peers PROVE i \notin QueuedPieces(peer[p].q)
  <2>1. p \in Slots /\ Q(Cur, p) = peer[p].q
    BY <1>1 DEF Slots, Q
  <2>2. Part(Cur, p, i) = {}
    BY <1>1, <1>2, <1>4, <2>1 DEF Kept
  <2> QED
    BY <1>2, <2>1, <2>2, PartIs, ListedIs
<1>6. ASSUME NEW i \in have PROVE i \notin QueuedPieces(pend)
  <2>1. Park \in Slots
    BY DEF Slots
  <2>2. Part(Cur, Park, i) = {}
    BY <1>1, <1>2, <1>4, <2>1 DEF Kept
  <2> QED
    BY <1>1, <1>2, <2>1, <2>2, PartIs, ListedIs
<1> QED
  BY <1>3, <1>5, <1>6 DEF DoneNotRequested

\* and who was charged with a bad piece.
LEMMA InvBlames ==
  ASSUME Inv, "write" \notin Upsets
  PROVE  HonestNotBlamed
<1>1. Cur \in Worlds /\ Cur.blamed = blamed
  BY DEF Inv, Cur
<1> QED
  BY <1>1, LinkedIs DEF HonestNotBlamed

\* The inductive invariant holds throughout.
THEOREM QueuesKept == Spec => []Inv
<1>1. Init => Inv
  BY StartIs
<1>2. Inv /\ [Next]_vars => Inv'
  BY StepKeeps
<1> QED
  BY <1>1, <1>2, PTL DEF Spec

\* In every queue, whatever handlers moved, shuffled or took out, the cursor divides
\* what was sent from what was not, and no slice is listed twice.
THEOREM CursorDivides == Spec => []CursorExact
<1>1. Inv => CursorExact
  BY InvDivides
<1> QED
  BY <1>1, QueuesKept, PTL

\* While no write is refused, m_req_out is the number of requests sent and not answered.
THEOREM RequestsCounted ==
  ASSUME "write" \notin Upsets
  PROVE  Spec => []OutCount
<1>1. Inv => OutCount
  BY InvCounts
<1> QED
  BY <1>1, QueuesKept, PTL

\* Whoever works on a piece has all its missing slices on the list, however the piece came to
\* be split among peers, duplicated, cancelled, parked in PENDING and taken over: the last
\* slice of a list completes the piece, also while writes are refused.
THEOREM MissingCovered == Spec => []CoversMissing
<1>1. Inv => CoversMissing
  BY InvCovers
<1> QED
  BY <1>1, QueuesKept, PTL

\* m_dup_req_pieces never is below the number of pieces asked for twice, so that who else was
\* asked for a piece is found when it is complete, and no list names a complete piece.
THEOREM DoneForgotten == Spec => []DoneNotRequested
<1>1. Inv => DoneNotRequested
  BY InvDone
<1> QED
  BY <1>1, QueuesKept, PTL

\* While no write is refused, a peer that only sends the torrent's data is never charged with
\* a bad piece: a piece that others may have sent a slice of is marked in pBMultPeer.
THEOREM HonestSafe ==
  ASSUME "write" \notin Upsets
  PROVE  Spec => []HonestNotBlamed
<1>1. Inv => HonestNotBlamed
  BY InvBlames
<1> QED
  BY <1>1, QueuesKept, PTL

=============================================================================
