---------------------------- MODULE UploadsProofs ----------------------------
(***************************************************************************)
(* Proofs about Uploads, for any number of peers, pieces and requests:     *)
(* the upload queue holds those it should, once, and every peer is told of *)
(* every piece once.                                                       *)
(*                                                                         *)
(* Both are inductive with little more than types: that nothing waits for  *)
(* a peer that is gone, so that one who returns is told by the bitfield    *)
(* alone. The work is in the sequences: what the queue is without some     *)
(* peers (a recursive function, followed with the least place at which it  *)
(* would go wrong), and what is told when a HAVE goes ahead of those that  *)
(* wait (ListsMiddle).                                                     *)
(***************************************************************************)
EXTENDS Uploads, WellFoundedInduction, TLAPS

\* A set of numbers that is not empty has a least one.
LEMMA LeastNumber ==
  ASSUME NEW T \in SUBSET Nat, T # {}
  PROVE  \E n \in T : \A m \in T : n <= m
<1> DEFINE R == OpToRel(<, Nat)
<1>1. IsWellFoundedOn(R, Nat)
  BY NatLessThanWellFounded, Zenon
<1>2. \A m, n \in Nat : <<m, n>> \in R <=> m < n
  BY DEF OpToRel
<1> HIDE DEF R
<1>3. \E n \in T : \A m \in T : ~ (<<m, n>> \in R)
  BY <1>1, WFMin, Zenon
<1>4. PICK n \in T : \A m \in T : ~ (<<m, n>> \in R)
  BY <1>3
<1>5. ASSUME NEW m \in T
      PROVE  n <= m
  <2>1. ~ (m < n)
    BY <1>2, <1>4
  <2> QED
    BY <2>1
<1> QED
  BY <1>5

-----------------------------------------------------------------------------
(* Sequences without repetition.                                           *)

\* No value is in s twice, and those of S are in it.
Lists(s, S) == IsInjective(s) /\ ToSet(s) = S

\* The same, by indices.
LEMMA ListsFacts ==
  ASSUME NEW X, NEW s \in Seq(X), NEW S
  PROVE  Lists(s, S) <=> /\ \A i, j \in 1 .. Len(s) : s[i] = s[j] => i = j
                         /\ S = {s[i] : i \in 1 .. Len(s)}
<1>1. DOMAIN s = 1 .. Len(s)
  OBVIOUS
<1> QED
  BY <1>1 DEF Lists, IsInjective, ToSet

\* The empty sequence lists nothing.
LEMMA ListsEmpty == Lists(<< >>, {})
BY DEF Lists, IsInjective, ToSet

\* A new value at the end.
LEMMA ListsAppend ==
  ASSUME NEW X, NEW s \in Seq(X), NEW S, Lists(s, S), NEW x \in X, x \notin S
  PROVE  Append(s, x) \in Seq(X) /\ Lists(Append(s, x), S \cup {x})
<1> DEFINE t == Append(s, x)
<1>1. /\ t \in Seq(X) /\ Len(t) = Len(s) + 1 /\ Len(s) \in Nat /\ t[Len(s) + 1] = x
      /\ \A i \in 1 .. Len(s) : t[i] = s[i]
  OBVIOUS
<1>2. (\A i, j \in 1 .. Len(s) : s[i] = s[j] => i = j) /\ S = {s[i] : i \in 1 .. Len(s)}
  BY ListsFacts
<1> HIDE DEF t
<1>3. ASSUME NEW i \in 1 .. Len(t), NEW j \in 1 .. Len(t), t[i] = t[j] PROVE i = j
  BY <1>1, <1>2, <1>3
<1>4. S \cup {x} = {t[i] : i \in 1 .. Len(t)}
  <2>1. \A i \in 1 .. Len(t) : i \in 1 .. Len(s) \/ i = Len(s) + 1
    BY <1>1
  <2>2. 1 .. Len(s) \subseteq 1 .. Len(t) /\ Len(s) + 1 \in 1 .. Len(t)
    BY <1>1
  <2> QED
    BY <1>1, <1>2, <2>1, <2>2
<1>5. Lists(t, S \cup {x})
  BY <1>1, <1>3, <1>4, ListsFacts
<1> QED
  BY <1>1, <1>5 DEF t

\* A new value between the two parts of a sequence.
LEMMA ListsMiddle ==
  ASSUME NEW X, NEW s \in Seq(X), NEW t \in Seq(X), NEW S, Lists(s \o t, S), NEW x \in X, x \notin S
  PROVE  Lists(Append(s, x) \o t, S \cup {x})
<1> DEFINE u == s \o t
           a == Append(s, x)
           v == a \o t
           m == Len(s) + 1
<1>1. /\ u \in Seq(X) /\ Len(u) = Len(s) + Len(t) /\ Len(s) \in Nat /\ Len(t) \in Nat
      /\ \A i \in 1 .. Len(s) : u[i] = s[i]
      /\ \A i \in Len(s) + 1 .. Len(s) + Len(t) : u[i] = t[i - Len(s)]
  OBVIOUS
<1>2. a \in Seq(X) /\ Len(a) = m /\ a[m] = x /\ \A i \in 1 .. Len(s) : a[i] = s[i]
  OBVIOUS
<1>3. Lists(u, S)
  OBVIOUS
<1> HIDE DEF u, a
<1>4. /\ v \in Seq(X) /\ Len(v) = Len(a) + Len(t)
      /\ \A i \in 1 .. Len(a) : v[i] = a[i]
      /\ \A i \in Len(a) + 1 .. Len(a) + Len(t) : v[i] = t[i - Len(a)]
  BY <1>2
<1> HIDE DEF v
<1>5. (\A i, j \in 1 .. Len(u) : u[i] = u[j] => i = j) /\ S = {u[i] : i \in 1 .. Len(u)}
  BY <1>1, <1>3, ListsFacts
<1> DEFINE at(i) == IF i < m THEN i ELSE i - 1
<1>6. ASSUME NEW i \in 1 .. Len(v), i # m PROVE at(i) \in 1 .. Len(u) /\ v[i] = u[at(i)]
  <2>1. CASE i < m
    <3>1. i \in 1 .. Len(s) /\ i \in 1 .. Len(a) /\ at(i) = i /\ i \in 1 .. Len(u)
      BY <1>1, <1>2, <2>1
    <3> QED
      BY <1>1, <1>2, <1>4, <3>1
  <2>2. CASE i > m
    <3>1. /\ i \in Len(a) + 1 .. Len(a) + Len(t) /\ at(i) = i - 1 /\ i - 1 \in Len(s) + 1 .. Len(s) + Len(t)
          /\ i - 1 \in 1 .. Len(u) /\ (i - 1) - Len(s) = i - Len(a)
      BY <1>1, <1>2, <1>4, <2>2
    <3>2. v[i] = t[i - Len(a)] /\ u[i - 1] = t[(i - 1) - Len(s)]
      BY <1>1, <1>4, <3>1
    <3> QED
      BY <3>1, <3>2
  <2> QED
    BY <1>1, <1>6, <2>1, <2>2
<1>7. m \in 1 .. Len(v) /\ v[m] = x
  <2>1. m \in 1 .. Len(a) /\ m \in 1 .. Len(v)
    BY <1>1, <1>2, <1>4
  <2> QED
    BY <1>2, <1>4, <2>1
<1>8. ASSUME NEW k \in 1 .. Len(u) PROVE \E i \in 1 .. Len(v) : i # m /\ at(i) = k
  <2>1. CASE k < m
    <3>1. k \in 1 .. Len(v) /\ k # m /\ at(k) = k
      BY <1>1, <1>2, <1>4, <2>1
    <3> QED
      BY <3>1
  <2>2. CASE k >= m
    <3>1. k + 1 \in 1 .. Len(v) /\ k + 1 # m /\ at(k + 1) = k
      BY <1>1, <1>2, <1>4, <2>2
    <3> QED
      BY <3>1
  <2> QED
    BY <1>1, <2>1, <2>2
<1>9. ASSUME NEW i \in 1 .. Len(v), NEW j \in 1 .. Len(v), v[i] = v[j] PROVE i = j
  <2>1. CASE i = m \/ j = m
    BY <1>5, <1>6, <1>7, <1>9, <2>1, SMTT(60)
  <2>2. CASE i # m /\ j # m
    <3>1. u[at(i)] = u[at(j)] /\ at(i) \in 1 .. Len(u) /\ at(j) \in 1 .. Len(u)
      BY <1>6, <1>9, <2>2
    <3>2. at(i) = at(j)
      BY <1>5, <3>1
    <3> QED
      BY <1>1, <2>2, <3>2
  <2> QED
    BY <2>1, <2>2
<1> HIDE DEF at
<1>10. S \cup {x} = {v[i] : i \in 1 .. Len(v)}
  <2>1. ASSUME NEW y \in S PROVE y \in {v[i] : i \in 1 .. Len(v)}
    <3>1. PICK k \in 1 .. Len(u) : y = u[k]
      BY <1>5
    <3>2. PICK i \in 1 .. Len(v) : i # m /\ at(i) = k
      BY <1>8
    <3> QED
      BY <1>6, <3>1, <3>2
  <2>2. ASSUME NEW i \in 1 .. Len(v) PROVE v[i] \in S \cup {x}
    <3>1. CASE i = m
      BY <1>7, <3>1
    <3>2. CASE i # m
      BY <1>5, <1>6, <3>2
    <3> QED
      BY <3>1, <3>2
  <2> QED
    BY <1>7, <2>1, <2>2
<1>11. Lists(v, S \cup {x})
  BY <1>4, <1>9, <1>10, ListsFacts
<1> QED
  BY <1>11 DEF v, a

-----------------------------------------------------------------------------
(* The queue.                                                              *)

\* The recursion of Without, for the first n of q.
Kept(q, S, f, n) ==
  \A i \in 0 .. n : f[i] = IF i = 0 THEN << >> ELSE IF q[i] \in S THEN f[i - 1] ELSE Append(f[i - 1], q[i])

\* There is such a function, and what it gives is a list of what is kept.
LEMMA KeptExists ==
  ASSUME NEW X, NEW q \in Seq(X), NEW S
  PROVE  \E f \in [0 .. Len(q) -> Seq(X)] : Kept(q, S, f, Len(q))
<1> DEFINE ok(n) == \E f \in [0 .. n -> Seq(X)] : Kept(q, S, f, n)
           T == {n \in Nat : n <= Len(q) /\ ~ ok(n)}
<1> SUFFICES ASSUME T # {} PROVE FALSE
  OBVIOUS
<1>1. PICK n \in T : \A m \in T : n <= m
  <2>1. T \in SUBSET Nat
    OBVIOUS
  <2> HIDE DEF T
  <2> QED
    BY <2>1, LeastNumber
<1>2. CASE n = 0
  <2> DEFINE f == [i \in 0 .. 0 |-> << >>]
  <2>1. f \in [0 .. n -> Seq(X)] /\ Kept(q, S, f, n)
    BY <1>2 DEF Kept
  <2> QED
    BY <1>1, <2>1
<1>3. CASE n # 0
  <2>1. n - 1 \in Nat /\ n \in Nat /\ n \in 1 .. Len(q) /\ ok(n - 1)
    <3>1. n \in Nat /\ n <= Len(q) /\ Len(q) \in Nat
      BY <1>1
    <3>2. n - 1 \in Nat /\ n - 1 <= Len(q) /\ n \in 1 .. Len(q) /\ ~ (n <= n - 1)
      BY <1>3, <3>1
    <3>3. n - 1 \notin T
      BY <1>1, <3>2
    <3> HIDE DEF ok
    <3> QED
      BY <3>1, <3>2, <3>3
  <2>2. PICK g \in [0 .. n - 1 -> Seq(X)] : Kept(q, S, g, n - 1)
    BY <2>1
  <2> DEFINE f == [i \in 0 .. n |-> IF i < n THEN g[i]
                                   ELSE IF q[n] \in S THEN g[n - 1] ELSE Append(g[n - 1], q[n])]
  <2>3. q[n] \in X /\ g[n - 1] \in Seq(X) /\ Append(g[n - 1], q[n]) \in Seq(X)
    <3>1. q[n] \in X /\ n - 1 \in 0 .. n - 1
      BY <2>1
    <3>2. g[n - 1] \in Seq(X)
      BY <3>1
    <3> QED
      BY <3>1, <3>2
  <2>4. f \in [0 .. n -> Seq(X)]
    <3>1. ASSUME NEW i \in 0 .. n
          PROVE  (IF i < n THEN g[i] ELSE IF q[n] \in S THEN g[n - 1] ELSE Append(g[n - 1], q[n])) \in Seq(X)
      <4>1. i < n => i \in 0 .. n - 1
        BY <2>1
      <4> QED
        BY <2>3, <4>1
    <3> QED
      BY <3>1
  <2>5. Kept(q, S, f, n)
    <3> SUFFICES ASSUME NEW i \in 0 .. n
                 PROVE  f[i] = IF i = 0 THEN << >> ELSE IF q[i] \in S THEN f[i - 1] ELSE Append(f[i - 1], q[i])
      BY DEF Kept
    <3>1. CASE i < n
      <4>1. i \in 0 .. n - 1 /\ f[i] = g[i] /\ (i # 0 => i - 1 \in 0 .. n /\ f[i - 1] = g[i - 1])
        BY <2>1, <3>1
      <4> HIDE DEF f
      <4>2. g[i] = IF i = 0 THEN << >> ELSE IF q[i] \in S THEN g[i - 1] ELSE Append(g[i - 1], q[i])
        BY <2>2, <4>1 DEF Kept
      <4> QED
        BY <4>1, <4>2
    <3>2. CASE i = n
      <4>1. f[n] = (IF q[n] \in S THEN g[n - 1] ELSE Append(g[n - 1], q[n])) /\ f[n - 1] = g[n - 1]
        BY <2>1
      <4> HIDE DEF f
      <4> QED
        BY <1>3, <3>2, <4>1
    <3> QED
      BY <2>1, <3>1, <3>2
  <2> QED
    BY <1>1, <2>4, <2>5
<1> QED
  BY <1>2, <1>3

\* Without has the values of such a function.
LEMMA WithoutRecursive ==
  ASSUME NEW X, NEW q \in Seq(X), NEW S
  PROVE  \E f \in [0 .. Len(q) -> Seq(X)] : Kept(q, S, f, Len(q)) /\ Without(q, S) = f[Len(q)]
<1> DEFINE L == Len(q)
           kept == CHOOSE f : f = [i \in 0 .. L |-> IF i = 0 THEN << >>
                                     ELSE IF q[i] \in S THEN f[i - 1] ELSE Append(f[i - 1], q[i])]
<1>0. Without(q, S) = kept[L]
  BY Zenon DEF Without
<1>1. Without(q, S) = kept[L] /\ L \in Nat
  <2> HIDE DEF kept
  <2> QED
    BY <1>0
<1>2. PICK f \in [0 .. L -> Seq(X)] : Kept(q, S, f, L)
  BY KeptExists
<1>3. f = [i \in 0 .. L |-> IF i = 0 THEN << >> ELSE IF q[i] \in S THEN f[i - 1] ELSE Append(f[i - 1], q[i])]
  BY <1>2 DEF Kept
<1>4. kept = [i \in 0 .. L |-> IF i = 0 THEN << >>
                               ELSE IF q[i] \in S THEN kept[i - 1] ELSE Append(kept[i - 1], q[i])]
  BY <1>3, Zenon
<1> HIDE DEF kept
<1>5. ASSUME NEW n \in 0 .. L
      PROVE  kept[n] = f[n]
  <2> DEFINE T == {k \in Nat : k <= L /\ kept[k] # f[k]}
  <2> SUFFICES ASSUME T # {} PROVE FALSE
    BY <1>1
  <2>1. PICK m \in T : \A k \in T : m <= k
    BY LeastNumber
  <2>2. m \in 0 .. L
    BY <1>1, <2>1
  <2>3. m # 0
    BY <1>2, <1>4, <2>1, <2>2 DEF Kept
  <2>4. kept[m - 1] = f[m - 1]
    BY <1>1, <2>1, <2>3
  <2>5. f[m] = IF m = 0 THEN << >> ELSE IF q[m] \in S THEN f[m - 1] ELSE Append(f[m - 1], q[m])
    BY <1>2, <2>2 DEF Kept
  <2>6. kept[m] = IF m = 0 THEN << >> ELSE IF q[m] \in S THEN kept[m - 1] ELSE Append(kept[m - 1], q[m])
    BY <1>4, <2>2
  <2>7. kept[m] # f[m]
    BY <2>1
  <2> QED
    BY <2>3, <2>4, <2>5, <2>6, <2>7
<1> QED
  BY <1>1, <1>2, <1>5

\* What is not in S is kept, once.
LEMMA WithoutFacts ==
  ASSUME NEW X, NEW q \in Seq(X), NEW Q, Lists(q, Q), NEW S
  PROVE  Without(q, S) \in Seq(X) /\ Lists(Without(q, S), Q \ S)
<1> DEFINE L == Len(q)
           B(n) == {q[i] : i \in 1 .. n}
<1>1. PICK f \in [0 .. L -> Seq(X)] : Kept(q, S, f, L) /\ Without(q, S) = f[L]
  BY WithoutRecursive
<1>2. L \in Nat /\ (\A i, j \in 1 .. L : q[i] = q[j] => i = j) /\ Q = B(L) /\ \A i \in 1 .. L : q[i] \in X
  BY ListsFacts
<1>3. ASSUME NEW n \in 0 .. L
      PROVE  Lists(f[n], B(n) \ S)
  <2> DEFINE bad(k) == ~ Lists(f[k], B(k) \ S)
             T == {k \in Nat : k <= L /\ bad(k)}
  <2>0. SUFFICES ASSUME T # {} PROVE FALSE
    <3>1. n \in Nat /\ n <= L
      BY <1>2
    <3>2. bad(n) => n \in T
      <4> HIDE DEF bad
      <4> QED
        BY <3>1
    <3> QED
      BY <3>2
  <2>1. PICK m \in T : \A k \in T : m <= k
    <3>1. T \in SUBSET Nat
      OBVIOUS
    <3> HIDE DEF T
    <3> QED
      BY <2>0, <3>1, LeastNumber
  <2>2. m \in 0 .. L /\ m \in Nat /\ ~ Lists(f[m], B(m) \ S)
    <3>1. m \in Nat /\ m <= L /\ bad(m)
      BY <2>1
    <3> QED
      BY <1>2, <3>1
  <2>3. CASE m = 0
    <3>1. f[m] = << >> /\ B(m) \ S = {}
      BY <1>1, <2>2, <2>3 DEF Kept
    <3> QED
      BY <2>2, <3>1, ListsEmpty
  <2>4. CASE m # 0
    <3>1. m - 1 \in 0 .. L /\ m \in 1 .. L /\ m - 1 \in Nat
      BY <1>2, <2>2, <2>4
    <3>2. Lists(f[m - 1], B(m - 1) \ S)
      <4>1. ~ (m <= m - 1) /\ m - 1 <= L
        BY <1>2, <2>2, <3>1
      <4>2. m - 1 \notin T
        BY <2>1, <4>1
      <4>3. ~ bad(m - 1)
        <5> HIDE DEF bad
        <5> QED
          BY <3>1, <4>1, <4>2
      <4> QED
        BY <4>3
    <3>3. B(m) = B(m - 1) \cup {q[m]}
      <4>1. 1 .. m = (1 .. m - 1) \cup {m}
        BY <2>2, <3>1
      <4> QED
        BY <4>1
    <3>4. q[m] \notin B(m - 1)
      BY <1>2, <3>1
    <3>5. f[m] = IF q[m] \in S THEN f[m - 1] ELSE Append(f[m - 1], q[m])
      BY <1>1, <2>2, <2>4 DEF Kept
    <3>6. f[m - 1] \in Seq(X) /\ q[m] \in X
      BY <1>2, <3>1
    <3> DEFINE b == B(m - 1)
               c == B(m)
    <3>7. c = b \cup {q[m]} /\ q[m] \notin b /\ Lists(f[m - 1], b \ S) /\ ~ Lists(f[m], c \ S)
      BY <2>2, <3>2, <3>3, <3>4
    <3> HIDE DEF b, c, B
    <3>8. CASE q[m] \in S
      <4>1. c \ S = b \ S
        BY <3>7, <3>8
      <4> QED
        BY <3>5, <3>7, <3>8, <4>1
    <3>9. CASE q[m] \notin S
      <4>1. c \ S = (b \ S) \cup {q[m]} /\ q[m] \notin b \ S
        BY <3>7, <3>9
      <4>2. Lists(Append(f[m - 1], q[m]), (b \ S) \cup {q[m]})
        BY <3>6, <3>7, <4>1, ListsAppend
      <4> QED
        BY <3>5, <3>7, <3>9, <4>1, <4>2
    <3> QED
      BY <3>8, <3>9
  <2> QED
    BY <2>3, <2>4
<1>4. L \in 0 .. L
  BY <1>2
<1>5. Lists(f[L], B(L) \ S)
  BY <1>3, <1>4
<1> QED
  BY <1>1, <1>2, <1>4, <1>5

\* Leaving the queue, and BWReQueue.
LEMMA DontWaitULFacts ==
  ASSUME NEW X, NEW q \in Seq(X), NEW Q, Lists(q, Q), NEW p
  PROVE  /\ DontWaitUL(q, p) \in Seq(X) /\ Lists(DontWaitUL(q, p), Q \ {p})
         /\ ReQueueUL(q, p) \in Seq(X) /\ \E R \in SUBSET Q : Lists(ReQueueUL(q, p), R)
<1>1. DontWaitUL(q, p) \in Seq(X) /\ Lists(DontWaitUL(q, p), Q \ {p})
  BY WithoutFacts DEF DontWaitUL
<1> QED
  BY <1>1 DEF ReQueueUL

\* Joining the queue.
LEMMA WaitULFacts ==
  ASSUME NEW X, NEW q \in Seq(X), NEW Q, Lists(q, Q), NEW p \in X
  PROVE  WaitUL(q, p) \in Seq(X) /\ Lists(WaitUL(q, p), Q \cup {p})
<1>1. Q = {q[i] : i \in 1 .. Len(q)} /\ DOMAIN q = 1 .. Len(q)
  BY ListsFacts
<1>2. CASE p \in Q
  BY <1>1, <1>2 DEF WaitUL
<1>3. CASE p \notin Q
  BY <1>1, <1>3, ListsAppend DEF WaitUL
<1> QED
  BY <1>2, <1>3

-----------------------------------------------------------------------------
(* The inductive invariant: QueueExact and ToldOnce, with the types of what *)
(* the peers are told, and nothing waiting for a peer that is gone.         *)

Member   == on \subseteq Peers /\ interested \subseteq on /\ unchoked \subseteq on /\ deferred \subseteq on /\ ready \subseteq on
Counts   == asked \in [Peers -> 0 .. MaxAsked] /\ out \in [Peers -> BOOLEAN] /\ limited \in BOOLEAN /\ ours \in 0 .. Pieces
Asking   == \A p \in Peers : asked[p] > 0 => p \in unchoked \cap interested
Queued   == next \in Seq(Peers) /\ \E Q \in SUBSET unchoked : Lists(next, Q)
News     == /\ told \in [Peers -> Seq(1 .. Pieces)] /\ haveq \in [Peers -> Seq(1 .. Pieces)]
            /\ \A p \in Peers : Len(haveq[p]) <= HaveqSize
            /\ \A p \in Peers \ on : haveq[p] = << >>
            /\ \A p \in on : Lists(told[p] \o haveq[p], 1 .. ours)
            /\ ours = Pieces => \A p \in on : haveq[p] = << >>

UInv == Member /\ Counts /\ Asking /\ Queued /\ News

\* What the assumptions say of the constants.
LEMMA Bounds == /\ Pieces \in Nat /\ HaveqSize \in Nat \ {0} /\ MaxAsked \in Nat \ {0}
BY UploadsAssumption DEF UploadsAssumption

\* The invariant gives QueueExact.
LEMMA InvQueueExact ==
  ASSUME UInv
  PROVE  QueueExact
<1>1. TypeOK
  BY DEF UInv, Member, Counts, Queued, News, TypeOK
<1>2. IsInjective(next) /\ ToSet(next) \subseteq unchoked
  BY DEF UInv, Queued, Lists
<1> QED
  BY <1>1, <1>2 DEF UInv, Asking, QueueExact

\* And ToldOnce.
LEMMA InvToldOnce ==
  ASSUME UInv
  PROVE  ToldOnce
BY DEF UInv, News, Lists, ToldOnce

\* What is sent along with something else leaves nothing waiting, and no piece out.
LEMMA NoneWaits ==
  ASSUME UInv, NEW p \in on
  PROVE  /\ told[p] \o haveq[p] \in Seq(1 .. Pieces) /\ Lists((told[p] \o haveq[p]) \o << >>, 1 .. ours)
         /\ told[p] \in Seq(1 .. Pieces) /\ haveq[p] \in Seq(1 .. Pieces) /\ p \in Peers
<1>1. told[p] \in Seq(1 .. Pieces) /\ haveq[p] \in Seq(1 .. Pieces) /\ p \in Peers /\ Lists(told[p] \o haveq[p], 1 .. ours)
  BY DEF UInv, News, Member
<1> DEFINE s == told[p] \o haveq[p]
<1>2. s \in Seq(1 .. Pieces) /\ Lists(s, 1 .. ours)
  BY <1>1
<1> HIDE DEF s
<1>3. s \o << >> = s
  BY <1>2
<1> QED
  BY <1>1, <1>2, <1>3 DEF s

\* What waits for a peer is sent.
LEMMA SendHavesStep ==
  ASSUME UInv, NEW p \in on, SendHaves(p), on' = on, ours' = ours
  PROVE  News'
<1> DEFINE s == told[p] \o haveq[p]
<1>1. told' = [told EXCEPT ![p] = s] /\ haveq' = [haveq EXCEPT ![p] = << >>]
  BY DEF SendHaves
<1>2. s \in Seq(1 .. Pieces) /\ Lists(s \o << >>, 1 .. ours) /\ p \in Peers
  BY NoneWaits
<1> HIDE DEF s
<1>3. << >> \in Seq(1 .. Pieces) /\ Len(<< >>) <= HaveqSize
  BY Bounds
<1>4. /\ told \in [Peers -> Seq(1 .. Pieces)] /\ haveq \in [Peers -> Seq(1 .. Pieces)]
      /\ \A x \in Peers : Len(haveq[x]) <= HaveqSize
      /\ \A x \in Peers \ on : haveq[x] = << >>
      /\ \A x \in on : Lists(told[x] \o haveq[x], 1 .. ours)
      /\ ours = Pieces => \A x \in on : haveq[x] = << >>
      /\ on \subseteq Peers
  BY DEF UInv, News, Member
<1>5. told' \in [Peers -> Seq(1 .. Pieces)] /\ haveq' \in [Peers -> Seq(1 .. Pieces)]
  BY <1>1, <1>2, <1>3, <1>4
<1>6. \A x \in Peers : x # p => told'[x] = told[x] /\ haveq'[x] = haveq[x]
  BY <1>1, <1>4
<1>7. told'[p] = s /\ haveq'[p] = << >>
  BY <1>1, <1>2, <1>4
<1>8. \A x \in on : Lists(told'[x] \o haveq'[x], 1 .. ours)
  BY <1>2, <1>4, <1>6, <1>7
<1>9. \A x \in Peers : Len(haveq'[x]) <= HaveqSize
  BY <1>3, <1>4, <1>6, <1>7
<1> QED
  BY <1>4, <1>5, <1>6, <1>7, <1>8, <1>9 DEF News

\* And when it goes along with something else.
LEMMA AlongStep ==
  ASSUME UInv, NEW p \in on, NEW some, Along(p, some), on' = on, ours' = ours
  PROVE  News'
<1>1. CASE some
  BY <1>1, SendHavesStep DEF Along
<1>2. CASE ~some
  BY <1>2 DEF Along, UInv, News
<1> QED
  BY <1>1, <1>2

\* What leaves the peers, their requests and their news alone.
LEMMA NewsSame ==
  ASSUME UInv, UNCHANGED <<on, ours, haveq, told>>
  PROVE  News'
BY DEF UInv, News

\* Someone is taken out of the queue, or passed over.
LEMMA LessQueued ==
  ASSUME UInv, NEW p
  PROVE  /\ DontWaitUL(next, p) \in Seq(Peers) /\ \E Q \in SUBSET unchoked : Lists(DontWaitUL(next, p), Q)
         /\ \E Q \in SUBSET (unchoked \ {p}) : Lists(DontWaitUL(next, p), Q)
         /\ ReQueueUL(next, p) \in Seq(Peers) /\ \E Q \in SUBSET unchoked : Lists(ReQueueUL(next, p), Q)
<1>1. next \in Seq(Peers)
  BY DEF UInv, Queued
<1>2. PICK Q \in SUBSET unchoked : Lists(next, Q)
  BY DEF UInv, Queued
<1>3. /\ DontWaitUL(next, p) \in Seq(Peers) /\ Lists(DontWaitUL(next, p), Q \ {p})
      /\ ReQueueUL(next, p) \in Seq(Peers) /\ \E R \in SUBSET Q : Lists(ReQueueUL(next, p), R)
  BY <1>1, <1>2, DontWaitULFacts
<1>4. Q \ {p} \in SUBSET unchoked /\ Q \ {p} \in SUBSET (unchoked \ {p}) /\ \A R \in SUBSET Q : R \in SUBSET unchoked
  BY <1>2
<1> QED
  BY <1>3, <1>4

\* FillFDSet and select: the head may be passed over.
LEMMA RoundStep ==
  ASSUME UInv, Round
  PROVE  UInv'
<1>1. /\ limited' \in {limited, FALSE} /\ ready' \subseteq on /\ UNCHANGED <<on, interested, unchoked, asked, out, ours, haveq, told>>
  BY DEF Round, peerVars, haveVars
<1>2. \/ UNCHANGED <<next, deferred>>
      \/ next' = ReQueueUL(next, Head(next)) /\ deferred' = deferred \ {Head(next)}
  BY DEF Round, CheckSendStatus
<1>3. Queued'
  BY <1>1, <1>2, LessQueued DEF UInv, Queued
<1>4. Member' /\ Counts' /\ Asking'
  BY <1>1, <1>2 DEF UInv, Member, Counts, Asking
<1> QED
  BY <1>1, <1>3, <1>4, NewsSame DEF UInv

\* The head of the queue is unchoked.
LEMMA HeadQueued ==
  ASSUME UInv, next # << >>
  PROVE  Head(next) \in unchoked
<1>1. next \in Seq(Peers)
  BY DEF UInv, Queued
<1>2. PICK Q \in SUBSET unchoked : Lists(next, Q)
  BY DEF UInv, Queued
<1>3. 1 \in 1 .. Len(next) /\ Head(next) = next[1]
  BY <1>1
<1>4. Q = {next[i] : i \in 1 .. Len(next)}
  BY <1>1, <1>2, ListsFacts
<1> QED
  BY <1>2, <1>3, <1>4

\* A slice is sent, or the peer waits, or it has nothing to send.
LEMMA SendModuleStep ==
  ASSUME UInv, NEW p \in Peers, SendModule(p)
  PROVE  UInv'
<1>1. /\ p \in ready /\ ready' = ready \ {p} /\ UNCHANGED <<on, interested, unchoked, ours>>
      /\ p \in on /\ on' = on /\ ours' = ours /\ (Respond(p) \/ Wait(p) \/ NoSlice(p))
  BY DEF SendModule, peerVars, UInv, Member
<1>2. \A some, rest : rest \in Rest(p, some) => rest \in BOOLEAN
  BY DEF Rest
<1>3. asked \in [Peers -> 0 .. MaxAsked] /\ out \in [Peers -> BOOLEAN] /\ limited \in BOOLEAN /\ ours \in 0 .. Pieces
  BY DEF UInv, Counts
<1>4. CASE Respond(p)
  <2>1. /\ asked[p] > 0 /\ next' = DontWaitUL(next, p) /\ asked' = [asked EXCEPT ![p] = @ - 1]
        /\ deferred' = deferred \ {p} /\ limited' \in BOOLEAN /\ SendHaves(p)
        /\ \E rest \in BOOLEAN : out' = [out EXCEPT ![p] = rest]
    BY <1>2, <1>4 DEF Respond
  <2>2. News'
    BY <1>1, <2>1, SendHavesStep
  <2>3. Queued'
    BY <1>1, <2>1, LessQueued DEF Queued
  <2>4. asked' \in [Peers -> 0 .. MaxAsked] /\ \A x \in Peers : asked'[x] > 0 => asked[x] > 0
    BY <1>3, <2>1, Bounds
  <2>5. Member' /\ Counts' /\ Asking'
    BY <1>1, <1>3, <2>1, <2>4 DEF UInv, Member, Counts, Asking
  <2> QED
    BY <2>2, <2>3, <2>5 DEF UInv
<1>5. CASE Wait(p)
  <2>1. /\ asked[p] > 0 /\ ~(IsNext(p) /\ ~limited)
        /\ deferred' = (IF IsNext(p) \/ limited THEN deferred ELSE deferred \cup {Head(next)}) \ {p}
        /\ next' = WaitUL(next, p) /\ Along(p, out[p]) /\ UNCHANGED <<asked, limited>>
        /\ \E rest \in BOOLEAN : out' = [out EXCEPT ![p] = rest]
    BY <1>2, <1>5 DEF Wait
  <2>2. News'
    BY <1>1, <2>1, AlongStep
  <2>3. p \in unchoked
    BY <2>1 DEF UInv, Asking
  <2>4. Queued'
    <3>1. PICK Q \in SUBSET unchoked : Lists(next, Q)
      BY DEF UInv, Queued
    <3>2. next' \in Seq(Peers) /\ Lists(next', Q \cup {p})
      BY <2>1, <3>1, WaitULFacts DEF UInv, Queued
    <3>3. Q \cup {p} \in SUBSET unchoked
      BY <2>3, <3>1
    <3> QED
      BY <1>1, <3>2, <3>3 DEF Queued
  <2>5. deferred' \subseteq on
    <3>1. ~IsNext(p) => next # << >>
      BY DEF IsNext
    <3>2. ~IsNext(p) => Head(next) \in on
      BY <3>1, HeadQueued DEF UInv, Member
    <3> QED
      BY <2>1, <3>2 DEF UInv, Member
  <2>6. Member' /\ Counts' /\ Asking'
    BY <1>1, <1>3, <2>1, <2>5 DEF UInv, Member, Counts, Asking
  <2> QED
    BY <2>2, <2>4, <2>6 DEF UInv
<1>6. CASE NoSlice(p)
  <2>1. /\ next' = (IF next # << >> /\ Head(next) = p THEN DontWaitUL(next, p) ELSE next)
        /\ Along(p, out[p]) /\ UNCHANGED <<asked, deferred, limited>>
        /\ \E rest \in BOOLEAN : out' = [out EXCEPT ![p] = rest]
    BY <1>2, <1>6 DEF NoSlice
  <2>2. News'
    BY <1>1, <2>1, AlongStep
  <2>3. Queued'
    BY <1>1, <2>1, LessQueued DEF UInv, Queued
  <2>4. Member' /\ Counts' /\ Asking'
    BY <1>1, <1>3, <2>1 DEF UInv, Member, Counts, Asking
  <2> QED
    BY <2>2, <2>3, <2>4 DEF UInv
<1> QED
  BY <1>1, <1>4, <1>5, <1>6

-----------------------------------------------------------------------------
(* Tell_World_I_Have.                                                      *)

\* The pieces, with one more.
LEMMA OneMore ==
  ASSUME NEW n \in Nat
  PROVE  (1 .. n) \cup {n + 1} = 1 .. n + 1 /\ n + 1 \notin 1 .. n
OBVIOUS

\* The news of a peer that is not closed: it is told of the piece, or will be, once.
LEMMA NewsOfOne ==
  ASSUME UInv, NEW p \in on, ours < Pieces, ours' = ours + 1,
         NEW n, n = SendHave(p) \/ (n = QueueHave(p) /\ ours' # Pieces)
  PROVE  /\ n.told \in Seq(1 .. Pieces) /\ n.haveq \in Seq(1 .. Pieces) /\ n.puts \in BOOLEAN
         /\ Len(n.haveq) <= HaveqSize /\ Lists(n.told \o n.haveq, 1 .. ours + 1)
         /\ ours' = Pieces => n.haveq = << >>
<1> DEFINE X == 1 .. Pieces
           t == told[p]
           h == haveq[p]
           o == ours + 1
           s == t \o h
<1>1. ours \in Nat /\ o \in X /\ ours' = o /\ (1 .. ours) \cup {o} = 1 .. o /\ o \notin 1 .. ours
  <2>1. ours \in Nat
    BY DEF UInv, Counts
  <2> QED
    BY <2>1, Bounds, OneMore
<1>2. t \in Seq(X) /\ h \in Seq(X) /\ s \in Seq(X) /\ Lists(s, 1 .. ours) /\ Len(h) <= HaveqSize
  BY DEF UInv, News, Member
<1>3. << >> \in Seq(X) /\ Len(<< >>) = 0 /\ HaveqSize \in Nat \ {0}
  BY Bounds
<1> HIDE DEF X, t, h, o
<1>4. Append(s, o) \in Seq(X) /\ Lists(Append(s, o), 1 .. o)
  <2> HIDE DEF s
  <2>1. Append(s, o) \in Seq(X) /\ Lists(Append(s, o), (1 .. ours) \cup {o})
    BY <1>1, <1>2, ListsAppend
  <2> QED
    BY <1>1, <2>1
<1>5. Append(s, o) \o << >> = Append(s, o)
  <2> DEFINE u == Append(s, o)
  <2>1. u \in Seq(X)
    BY <1>4
  <2> HIDE DEF u
  <2>2. u \o << >> = u
    BY <2>1
  <2> QED
    BY <2>2 DEF u
<1>6. Append(t, o) \in Seq(X) /\ Lists(Append(t, o) \o h, 1 .. o)
  <2>1. Append(t, o) \in Seq(X)
    BY <1>1, <1>2
  <2>2. Lists(t \o h, 1 .. ours)
    BY <1>2
  <2>3. Lists(Append(t, o) \o h, (1 .. ours) \cup {o})
    BY <1>1, <1>2, <2>2, ListsMiddle
  <2> QED
    BY <1>1, <2>1, <2>3
<1>7. Append(h, o) \in Seq(X) /\ Len(Append(h, o)) = Len(h) + 1 /\ t \o Append(h, o) = Append(s, o) /\ Len(h) \in Nat
  BY <1>1, <1>2
<1>8. CASE n = SendHave(p)
  <2>1. CASE ours' = Pieces
    <3>1. n = [told |-> Append(s, o), haveq |-> << >>, puts |-> TRUE]
      BY <1>1, <1>8, <2>1 DEF SendHave, t, h
    <3> HIDE DEF s
    <3>2. n.told = Append(s, o) /\ n.haveq = << >> /\ n.puts = TRUE
      BY <3>1
    <3>3. Lists(n.told \o n.haveq, 1 .. o)
      BY <1>4, <1>5, <3>2
    <3>4. Len(n.haveq) <= HaveqSize
      BY <1>3, <3>2
    <3>5. n.told \in Seq(X) /\ n.haveq \in Seq(X) /\ n.puts \in BOOLEAN
      BY <1>3, <1>4, <3>2
    <3> QED
      BY <3>2, <3>3, <3>4, <3>5 DEF X, o
  <2>2. CASE ours' # Pieces
    <3>1. n = [told |-> Append(t, o), haveq |-> h, puts |-> TRUE]
      BY <1>1, <1>8, <2>2 DEF SendHave, t, h
    <3>2. n.told = Append(t, o) /\ n.haveq = h /\ n.puts = TRUE
      BY <3>1
    <3> QED
      BY <1>2, <1>6, <2>2, <3>2 DEF X, o
  <2> QED
    BY <2>1, <2>2
<1>9. CASE n = QueueHave(p) /\ ours' # Pieces
  <2>1. CASE Len(h) < HaveqSize
    <3>1. n = [told |-> t, haveq |-> Append(h, o), puts |-> FALSE]
      BY <1>1, <1>9, <2>1 DEF QueueHave, t, h
    <3>2. n.told = t /\ n.haveq = Append(h, o) /\ n.puts = FALSE
      BY <3>1
    <3>3. Len(n.haveq) <= HaveqSize
      BY <1>3, <1>7, <2>1, <3>2
    <3>4. Lists(n.told \o n.haveq, 1 .. o)
      BY <1>4, <1>7, <3>2
    <3> QED
      BY <1>2, <1>7, <1>9, <3>2, <3>3, <3>4 DEF X, o
  <2>2. CASE ~(Len(h) < HaveqSize)
    <3>1. n = [told |-> Append(s, o), haveq |-> << >>, puts |-> TRUE]
      BY <1>1, <1>9, <2>2 DEF QueueHave, t, h
    <3> HIDE DEF s
    <3>2. n.told = Append(s, o) /\ n.haveq = << >> /\ n.puts = TRUE
      BY <3>1
    <3>3. Lists(n.told \o n.haveq, 1 .. o)
      BY <1>4, <1>5, <3>2
    <3>4. Len(n.haveq) <= HaveqSize
      BY <1>3, <3>2
    <3>5. n.told \in Seq(X) /\ n.haveq \in Seq(X) /\ n.puts \in BOOLEAN
      BY <1>3, <1>4, <3>2
    <3> QED
      BY <3>2, <3>3, <3>4, <3>5 DEF X, o
  <2> QED
    BY <2>1, <2>2
<1> QED
  BY <1>8, <1>9

\* Peers are closed, and leave the queue.
LEMMA CloseFacts ==
  ASSUME UInv, NEW S, Close(S)
  PROVE  /\ on' = on \ S /\ Member' /\ Queued' /\ Asking' /\ asked' \in [Peers -> 0 .. MaxAsked]
<1>1. /\ on' = on \ S /\ interested' = interested \ S /\ unchoked' = unchoked \ S
      /\ asked' = [p \in Peers |-> IF p \in S THEN 0 ELSE asked[p]]
      /\ deferred' = deferred \ S /\ ready' = ready \ S /\ next' = Without(next, S)
  BY DEF Close
<1>2. Queued'
  <2>1. PICK Q \in SUBSET unchoked : Lists(next, Q)
    BY DEF UInv, Queued
  <2>2. next \in Seq(Peers)
    BY DEF UInv, Queued
  <2>3. Without(next, S) \in Seq(Peers) /\ Lists(Without(next, S), Q \ S)
    BY <2>1, <2>2, WithoutFacts
  <2>4. Q \ S \in SUBSET unchoked'
    BY <1>1, <2>1
  <2> QED
    BY <1>1, <2>3, <2>4 DEF Queued
<1>3. Member'
  BY <1>1 DEF UInv, Member
<1>4. asked' \in [Peers -> 0 .. MaxAsked]
  BY <1>1, Bounds DEF UInv, Counts
<1>5. Asking'
  <2> SUFFICES ASSUME NEW p \in Peers, asked'[p] > 0 PROVE p \in unchoked' \cap interested'
    BY DEF Asking
  <2>1. asked'[p] = IF p \in S THEN 0 ELSE asked[p]
    BY <1>1
  <2> QED
    BY <1>1, <2>1 DEF UInv, Asking
<1> QED
  BY <1>1, <1>2, <1>3, <1>4, <1>5

\* A piece is completed.
LEMMA TellStep ==
  ASSUME UInv, TellWorldIHave
  PROVE  UInv'
<1>1. ours < Pieces /\ ours' = ours + 1 /\ limited' = limited
  BY DEF TellWorldIHave
<1>2. PICK lacks \in SUBSET (on \ interested) :
        LET urgent == {p \in on : Urgent(p, lacks)}
            news == [p \in on |-> IF p \in urgent THEN SendHave(p) ELSE QueueHave(p)]
        IN  /\ \E closed \in Closings(news, urgent) : Close(closed)
            /\ told' = [p \in Peers |-> IF p \in on' THEN news[p].told ELSE << >>]
            /\ haveq' = [p \in Peers |-> IF p \in on' THEN news[p].haveq ELSE << >>]
            /\ out' = [p \in Peers |-> p \in on' /\ (out[p] \/ news[p].puts)]
  BY DEF TellWorldIHave
<1> DEFINE urgent == {p \in on : Urgent(p, lacks)}
           news == [p \in on |-> IF p \in urgent THEN SendHave(p) ELSE QueueHave(p)]
<1>3. PICK closed : Close(closed)
  BY <1>2
<1>4. /\ on' = on \ closed /\ Member' /\ Queued' /\ Asking' /\ asked' \in [Peers -> 0 .. MaxAsked]
  BY <1>3, CloseFacts
<1>5. ASSUME NEW p \in on
      PROVE  /\ news[p].told \in Seq(1 .. Pieces) /\ news[p].haveq \in Seq(1 .. Pieces) /\ news[p].puts \in BOOLEAN
             /\ Len(news[p].haveq) <= HaveqSize /\ Lists(news[p].told \o news[p].haveq, 1 .. ours + 1)
             /\ ours' = Pieces => news[p].haveq = << >>
  <2> DEFINE n == news[p]
  <2>1. n = SendHave(p) \/ (n = QueueHave(p) /\ ours' # Pieces)
    <3>1. p \notin urgent => ours' # Pieces
      BY DEF Urgent
    <3>2. n = IF p \in urgent THEN SendHave(p) ELSE QueueHave(p)
      OBVIOUS
    <3> HIDE DEF urgent, n
    <3> QED
      BY <3>1, <3>2
  <2> HIDE DEF n, news
  <2>2. /\ n.told \in Seq(1 .. Pieces) /\ n.haveq \in Seq(1 .. Pieces) /\ n.puts \in BOOLEAN
        /\ Len(n.haveq) <= HaveqSize /\ Lists(n.told \o n.haveq, 1 .. ours + 1)
        /\ ours' = Pieces => n.haveq = << >>
    BY <1>1, <2>1, NewsOfOne
  <2> QED
    BY <2>2 DEF n
<1>6. /\ told' = [p \in Peers |-> IF p \in on' THEN news[p].told ELSE << >>]
      /\ haveq' = [p \in Peers |-> IF p \in on' THEN news[p].haveq ELSE << >>]
      /\ out' = [p \in Peers |-> p \in on' /\ (out[p] \/ news[p].puts)]
  BY <1>2
<1> HIDE DEF news
<1>7. on' \subseteq on /\ on \subseteq Peers /\ ours + 1 \in 0 .. Pieces
  BY <1>1, <1>4, Bounds DEF UInv, Member, Counts
<1>8. << >> \in Seq(1 .. Pieces) /\ Len(<< >>) <= HaveqSize
  BY Bounds
<1>9. told' \in [Peers -> Seq(1 .. Pieces)] /\ haveq' \in [Peers -> Seq(1 .. Pieces)] /\ out' \in [Peers -> BOOLEAN]
  BY <1>5, <1>6, <1>7, <1>8
<1>10. \A p \in Peers : /\ p \in on' => told'[p] = news[p].told /\ haveq'[p] = news[p].haveq
                        /\ p \notin on' => haveq'[p] = << >>
  BY <1>6
<1>11. \A p \in Peers : Len(haveq'[p]) <= HaveqSize
  BY <1>5, <1>7, <1>8, <1>10
<1>12. \A p \in on' : Lists(told'[p] \o haveq'[p], 1 .. ours')
  BY <1>1, <1>5, <1>7, <1>10
<1>13. ours' = Pieces => \A p \in on' : haveq'[p] = << >>
  BY <1>5, <1>7, <1>10
<1>14. News'
  BY <1>9, <1>10, <1>11, <1>12, <1>13 DEF News
<1>15. Counts'
  BY <1>1, <1>4, <1>7, <1>9 DEF UInv, Counts
<1> QED
  BY <1>4, <1>14, <1>15 DEF UInv

-----------------------------------------------------------------------------
(* The other steps.                                                        *)

\* A peer connects, and is told by the bitfield.
LEMMA ConnectStep ==
  ASSUME UInv, NEW p \in Peers, Connect(p)
  PROVE  UInv'
<1> DEFINE b == [i \in 1 .. ours |-> i]
<1>1. /\ p \notin on /\ on' = on \cup {p} /\ told' = [told EXCEPT ![p] = b] /\ out' = [out EXCEPT ![p] = TRUE]
      /\ UNCHANGED <<interested, unchoked, asked, next, deferred, limited, ready, ours, haveq>>
  BY DEF Connect
<1>2. ours \in Nat /\ ours <= Pieces /\ Pieces \in Nat
  BY Bounds DEF UInv, Counts
<1>3. b \in Seq(1 .. Pieces) /\ Len(b) = ours /\ b \o << >> = b
  BY <1>2
<1>4. Lists(b, 1 .. ours)
  <2>1. \A i \in 1 .. ours : b[i] = i
    OBVIOUS
  <2> HIDE DEF b
  <2>2. (\A i, j \in 1 .. Len(b) : b[i] = b[j] => i = j) /\ 1 .. ours = {b[i] : i \in 1 .. Len(b)}
    BY <1>3, <2>1
  <2> QED
    BY <1>3, <2>2, ListsFacts
<1> HIDE DEF b
<1>5. News'
  <2>1. /\ told \in [Peers -> Seq(1 .. Pieces)] /\ haveq \in [Peers -> Seq(1 .. Pieces)]
        /\ \A x \in Peers : Len(haveq[x]) <= HaveqSize
        /\ \A x \in Peers \ on : haveq[x] = << >>
        /\ \A x \in on : Lists(told[x] \o haveq[x], 1 .. ours)
        /\ ours = Pieces => \A x \in on : haveq[x] = << >>
        /\ on \subseteq Peers
    BY DEF UInv, News, Member
  <2>2. told' \in [Peers -> Seq(1 .. Pieces)] /\ told'[p] = b /\ haveq[p] = << >> /\ \A x \in Peers : x # p => told'[x] = told[x]
    BY <1>1, <1>3, <2>1
  <2>3. Lists(told'[p] \o haveq[p], 1 .. ours)
    BY <1>3, <1>4, <2>2
  <2>4. \A x \in on' : Lists(told'[x] \o haveq[x], 1 .. ours)
    <3> SUFFICES ASSUME NEW x \in on' PROVE Lists(told'[x] \o haveq[x], 1 .. ours)
      OBVIOUS
    <3>1. CASE x = p
      BY <2>3, <3>1
    <3>2. CASE x # p
      <4>1. x \in on /\ x \in Peers
        BY <1>1, <2>1, <3>2
      <4>2. told'[x] = told[x]
        BY <2>2, <3>2, <4>1
      <4> QED
        BY <2>1, <4>1, <4>2
    <3> QED
      BY <3>1, <3>2
  <2> QED
    BY <1>1, <2>1, <2>2, <2>4 DEF News
<1>6. Member' /\ Counts' /\ Asking' /\ Queued'
  BY <1>1 DEF UInv, Member, Counts, Asking, Queued
<1> QED
  BY <1>5, <1>6 DEF UInv

\* A peer is closed, and forgotten.
LEMMA LeaveStep ==
  ASSUME UInv, NEW p \in Peers, Leave(p)
  PROVE  UInv'
<1>1. /\ Close({p}) /\ out' = [out EXCEPT ![p] = FALSE]
      /\ haveq' = [haveq EXCEPT ![p] = << >>] /\ told' = [told EXCEPT ![p] = << >>] /\ limited' = limited /\ ours' = ours
  BY DEF Leave
<1>2. on' = on \ {p} /\ Member' /\ Queued' /\ Asking' /\ asked' \in [Peers -> 0 .. MaxAsked]
  BY <1>1, CloseFacts
<1>3. << >> \in Seq(1 .. Pieces) /\ Len(<< >>) <= HaveqSize
  BY Bounds
<1>4. /\ told \in [Peers -> Seq(1 .. Pieces)] /\ haveq \in [Peers -> Seq(1 .. Pieces)] /\ on \subseteq Peers
  BY DEF UInv, News, Member
<1>5. /\ told' \in [Peers -> Seq(1 .. Pieces)] /\ haveq' \in [Peers -> Seq(1 .. Pieces)]
      /\ haveq'[p] = << >> /\ \A x \in Peers : x # p => told'[x] = told[x] /\ haveq'[x] = haveq[x]
  BY <1>1, <1>3, <1>4
<1>6. \A x \in on' : x \in Peers /\ x # p /\ x \in on
  BY <1>2, <1>4
<1>7. News'
  BY <1>1, <1>2, <1>3, <1>5, <1>6 DEF UInv, News
<1>8. Counts'
  BY <1>1, <1>2 DEF UInv, Counts
<1> QED
  BY <1>2, <1>7, <1>8 DEF UInv

\* What the peer says, and what we say, with the queue as it was.
LEMMA AskStep ==
  ASSUME UInv, NEW p \in Peers, Interested(p) \/ NotInterested(p) \/ Request(p) \/ Unchoke(p) \/ Keepalive(p)
  PROVE  UInv'
<1>1. News'
  BY NewsSame DEF Interested, NotInterested, Request, Unchoke, Keepalive, haveVars, peerVars
<1>2. Queued'
  BY DEF Interested, NotInterested, Request, Unchoke, Keepalive, peerVars, UInv, Queued
<1>3. Member'
  BY DEF Interested, NotInterested, Request, Unchoke, Keepalive, peerVars, UInv, Member
<1>4. asked \in [Peers -> 0 .. MaxAsked] /\ out \in [Peers -> BOOLEAN]
  BY DEF UInv, Counts
<1>5. Counts' /\ Asking'
  <2>1. CASE Interested(p) \/ Unchoke(p) \/ Keepalive(p)
    BY <1>4, <2>1 DEF Interested, Unchoke, Keepalive, peerVars, haveVars, UInv, Counts, Asking
  <2>2. CASE NotInterested(p)
    <3>1. asked' = [asked EXCEPT ![p] = 0] /\ interested' = interested \ {p} /\ UNCHANGED <<unchoked, out, limited, ours>>
      BY <2>2 DEF NotInterested, haveVars
    <3>2. asked' \in [Peers -> 0 .. MaxAsked] /\ asked'[p] = 0 /\ \A x \in Peers : x # p => asked'[x] = asked[x]
      BY <1>4, <3>1, Bounds
    <3> QED
      BY <3>1, <3>2 DEF UInv, Counts, Asking
  <2>3. CASE Request(p)
    <3>1. /\ asked' = [asked EXCEPT ![p] = @ + 1] /\ asked[p] < MaxAsked /\ p \in interested \cap unchoked
          /\ UNCHANGED <<interested, unchoked, out, limited, ours>>
      BY <2>3 DEF Request, peerVars, haveVars
    <3>2. asked' \in [Peers -> 0 .. MaxAsked] /\ \A x \in Peers : x # p => asked'[x] = asked[x]
      BY <1>4, <3>1, Bounds
    <3> QED
      BY <3>1, <3>2 DEF UInv, Counts, Asking
  <2> QED
    BY <2>1, <2>2, <2>3
<1> QED
  BY <1>1, <1>2, <1>3, <1>5 DEF UInv

\* A request is cancelled, or the peer choked, and may leave the queue.
LEMMA DropStep ==
  ASSUME UInv, NEW p \in Peers, Cancel(p) \/ Choke(p)
  PROVE  UInv'
<1>1. News'
  BY NewsSame DEF Cancel, Choke, haveVars, peerVars
<1>2. Member'
  BY DEF Cancel, Choke, peerVars, UInv, Member
<1>3. asked \in [Peers -> 0 .. MaxAsked] /\ out \in [Peers -> BOOLEAN]
  BY DEF UInv, Counts
<1>4. CASE Cancel(p)
  <2>1. /\ asked' = [asked EXCEPT ![p] = @ - 1] /\ asked[p] > 0
        /\ next' = (IF asked[p] = 1 THEN DontWaitUL(next, p) ELSE next)
        /\ UNCHANGED <<interested, unchoked, out, limited, ours>>
    BY <1>4 DEF Cancel, peerVars, haveVars
  <2>2. asked' \in [Peers -> 0 .. MaxAsked] /\ \A x \in Peers : asked'[x] > 0 => asked[x] > 0
    BY <1>3, <2>1, Bounds
  <2>3. Queued'
    BY <2>1, LessQueued DEF UInv, Queued
  <2>4. Counts' /\ Asking'
    BY <2>1, <2>2 DEF UInv, Counts, Asking
  <2> QED
    BY <1>1, <1>2, <2>3, <2>4 DEF UInv
<1>5. CASE Choke(p)
  <2>1. /\ asked' = [asked EXCEPT ![p] = 0] /\ unchoked' = unchoked \ {p} /\ next' = DontWaitUL(next, p)
        /\ out' = [out EXCEPT ![p] = TRUE] /\ UNCHANGED <<interested, limited, ours>>
    BY <1>5 DEF Choke, haveVars
  <2>2. /\ asked' \in [Peers -> 0 .. MaxAsked] /\ asked'[p] = 0 /\ \A x \in Peers : x # p => asked'[x] = asked[x]
        /\ out' \in [Peers -> BOOLEAN]
    BY <1>3, <2>1, Bounds
  <2>3. Queued'
    BY <2>1, LessQueued DEF Queued
  <2>4. Counts' /\ Asking'
    BY <2>1, <2>2 DEF UInv, Counts, Asking
  <2> QED
    BY <1>1, <1>2, <2>3, <2>4 DEF UInv
<1> QED
  BY <1>4, <1>5

\* The limit ends.
LEMMA TimeStep ==
  ASSUME UInv, TimePasses \/ UNCHANGED vars
  PROVE  UInv'
<1>1. /\ limited' \in BOOLEAN
      /\ UNCHANGED <<on, interested, unchoked, asked, out, next, deferred, ready, ours, haveq, told>>
  BY DEF TimePasses, vars, peerVars, haveVars, UInv, Counts
<1>2. News'
  BY <1>1, NewsSame
<1> QED
  BY <1>1, <1>2 DEF UInv, Member, Counts, Asking, Queued

\* The invariant holds at the start.
LEMMA UInvInit ==
  ASSUME Init
  PROVE  UInv
<1>1. << >> \in Seq(Peers) /\ << >> \in Seq(1 .. Pieces) /\ Len(<< >>) = 0 /\ 0 \in 0 .. MaxAsked /\ 0 \in 0 .. Pieces
  BY Bounds
<1>2. Queued
  BY <1>1, ListsEmpty DEF Init, Queued
<1>3. News
  BY <1>1, Bounds DEF Init, News
<1>4. Member
  BY DEF Init, Member
<1>5. Counts
  BY <1>1 DEF Init, Counts
<1>6. Asking
  BY Bounds DEF Init, Asking
<1> QED
  BY <1>2, <1>3, <1>4, <1>5, <1>6 DEF UInv

\* Every step keeps it.
LEMMA UInvInductive ==
  ASSUME UInv, [Next]_vars
  PROVE  UInv'
<1>1. CASE Round
  BY <1>1, RoundStep
<1>2. CASE TimePasses \/ UNCHANGED vars
  BY <1>2, TimeStep
<1>3. CASE TellWorldIHave
  BY <1>3, TellStep
<1>4. ASSUME NEW p \in Peers,
             \/ SendModule(p) \/ Connect(p) \/ Leave(p) \/ Interested(p) \/ NotInterested(p)
             \/ Request(p) \/ Cancel(p) \/ Unchoke(p) \/ Choke(p) \/ Keepalive(p)
      PROVE  UInv'
  BY <1>4, SendModuleStep, ConnectStep, LeaveStep, AskStep, DropStep
<1> QED
  BY <1>1, <1>2, <1>3, <1>4 DEF Next

\* It always holds.
LEMMA UInvHolds == Spec => []UInv
<1>1. Init => UInv
  BY UInvInit
<1>2. UInv /\ [Next]_vars => UInv'
  BY UInvInductive
<1> QED
  BY <1>1, <1>2, PTL DEF Spec

\* Those in m_next_ul are there once and unchoked, and requests are kept only of peers that
\* are unchoked and interested, whatever is asked, cancelled, choked and closed in between.
THEOREM UploadQueueExact == Spec => []QueueExact
BY UInvHolds, InvQueueExact, PTL

\* By the bitfield and by HAVEs sent, queued or sent ahead of queued ones, every connected
\* peer is told of each of our pieces once, with any HAVEQ_SIZE, and nobody waits for a HAVE
\* when we become a seed.
THEOREM EachToldOnce == Spec => []ToldOnce
BY UInvHolds, InvToldOnce, PTL
=============================================================================
